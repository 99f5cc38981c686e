----------------------------- MODULE PauseProofs ----------------------------
(***************************************************************************)
(* What a pause does to the times of an execution, for any number of task  *)
(* rows, delays, timeouts and pauses.                                      *)
(***************************************************************************)
EXTENDS PauseClock, TLAPS

\* A poller has locked only rows that are pending; a pause is recorded as
\* beginning no later than it did, and it did in the past.
Coherent ==
  /\ paused => paused_at <= since /\ since <= now
  /\ \A r \in Rows : tasks[r].locked # "no" => Pending(r)

IInv == TypeOK /\ Coherent /\ ExactDelay /\ NeverEarly /\ TimeoutDue

\* What the invariant says of one row.
RowOK(r) ==
  /\ tasks[r] \in Row /\ life[r] \in Life
  /\ tasks[r].locked # "no" => Pending(r)
  /\ tasks[r].locked = "take" => life[r].lived + life[r].lag >= life[r].delay
  /\ tasks[r].locked = "timeout" => life[r].lived + life[r].lag >= life[r].delay + tasks[r].timeout
  /\ Pending(r) =>
       /\ tasks[r].visible_at - Clock =
            (life[r].delay - life[r].lived) + life[r].late + life[r].lead - life[r].lag
       /\ tasks[r].deadline = tasks[r].visible_at + tasks[r].timeout

ClockOK ==
  /\ now \in Nat /\ paused \in BOOLEAN /\ paused_at \in Nat /\ since \in Nat /\ pauses \in Nat
  /\ paused => paused_at <= since /\ since <= now

\* The invariant, row by row.
LEMMA RowsOK ==
  ASSUME IInv PROVE ClockOK /\ (\A r \in Rows : RowOK(r)) /\ tasks \in [Rows -> Row] /\ life \in [Rows -> Life]
  BY DEF IInv, TypeOK, Coherent, ExactDelay, NeverEarly, TimeoutDue, ClockOK, RowOK

\* The invariant after a step, row by row.
LEMMA ByRowNext ==
  ASSUME ClockOK', tasks' \in [Rows -> Row], life' \in [Rows -> Life], \A r \in Rows : RowOK(r)'
  PROVE  IInv'
<1>1. TypeOK'
  BY DEF ClockOK, TypeOK
<1>2. Coherent'
  BY DEF ClockOK, RowOK, Coherent
<1>3. ExactDelay' /\ NeverEarly' /\ TimeoutDue'
  BY DEF RowOK, ExactDelay, NeverEarly, TimeoutDue
<1> QED
  BY <1>1, <1>2, <1>3 DEF IInv

\* A row that is not written stays as it is while the clock stands.
LEMMA RowStays ==
  ASSUME NEW r \in Rows, RowOK(r), tasks'[r] = tasks[r], life'[r] = life[r], Clock' = Clock
  PROVE  RowOK(r)'
  BY DEF RowOK, Pending

\* A time a transaction may have read.
LEMMA ReadPast ==
  ASSUME ClockOK, NEW b \in Read PROVE b \in Nat /\ b <= now /\ now \in Nat /\ Clock \in Nat
  BY DEF ClockOK, Read, Clock

\* A row that has just begun to wait, by the clock b: where it stands on the
\* clock of the execution.
LEMMA BegunOK ==
  ASSUME ClockOK, NEW b \in Read, NEW d \in Nat
  PROVE  /\ Begun(b, d) \in Life
         /\ Begun(b, d).delay = d
         /\ Begun(b, d).lead = 0 /\ Begun(b, d).lag = 0
         /\ (b + d) - Clock = (Begun(b, d).delay - Begun(b, d).lived) + Begun(b, d).late
                               + Begun(b, d).lead - Begun(b, d).lag
<1>1. b \in Nat /\ Clock \in Nat
  BY ReadPast
<1>2. /\ Past(b, Clock) \in Nat /\ Past(Clock, b) \in Nat
      /\ b - Clock = Past(Clock, b) - Past(b, Clock)
  BY <1>1 DEF Past
<1>3. Begun(b, d) = [delay |-> d, lived |-> Past(b, Clock), late |-> Past(Clock, b),
                     lead |-> 0, lag |-> 0]
  BY DEF Begun
<1>4. Begun(b, d) \in Life
  BY <1>2, <1>3 DEF Life
<1> QED
  BY <1>1, <1>2, <1>3, <1>4

\* A row that has just been inserted.
LEMMA RowInserted ==
  ASSUME NEW r \in Rows, ClockOK, NEW kind \in {"workflow", "activity", "timer"},
         NEW d \in Nat, NEW t \in Nat, NEW b \in Read,
         tasks'[r] = Scheduled(b, kind, d, t), life'[r] = Begun(b, d),
         UNCHANGED <<now, pause_vars>>
  PROVE  RowOK(r)'
<1>1. b \in Nat
  BY ReadPast
<1>2. tasks'[r] = [status |-> "pending", kind |-> kind, locked |-> "no", visible_at |-> b + d,
                   timeout |-> t, deadline |-> b + d + t, expires |-> 0]
  BY DEF Scheduled
<1>3. tasks'[r] \in Row
  BY <1>1, <1>2 DEF Row
<1>4. Clock' = Clock
  BY DEF Clock, pause_vars
<1>5. /\ life'[r] \in Life
      /\ (b + d) - Clock = (life'[r].delay - life'[r].lived) + life'[r].late
                            + life'[r].lead - life'[r].lag
  BY BegunOK
<1>6. /\ tasks'[r].visible_at = b + d /\ tasks'[r].deadline = tasks'[r].visible_at + tasks'[r].timeout
      /\ tasks'[r].locked = "no"
  BY <1>1, <1>2
<1> QED
  BY <1>3, <1>4, <1>5, <1>6 DEF RowOK, Pending

\* The clock of the execution stands still when its inputs do.
LEMMA ClockStands ==
  ASSUME ClockOK, UNCHANGED <<now, pause_vars>>
  PROVE  Clock' = Clock /\ ClockOK'
  BY DEF Clock, ClockOK, pause_vars

\* A step that writes one row.
LEMMA OneRow ==
  ASSUME IInv, UNCHANGED <<now, pause_vars>>, NEW r \in Rows, NEW row, NEW l,
         tasks' = [tasks EXCEPT ![r] = row], life' = [life EXCEPT ![r] = l],
         RowOK(r)'
  PROVE  IInv'
<1>1. /\ ClockOK /\ tasks \in [Rows -> Row] /\ life \in [Rows -> Life]
      /\ \A q \in Rows : RowOK(q)
  BY RowsOK
<1>2. Clock' = Clock /\ ClockOK'
  BY <1>1, ClockStands
<1>3. tasks'[r] = row /\ life'[r] = l /\ row \in Row /\ l \in Life
  BY <1>1 DEF RowOK
<1>4. \A q \in Rows : q # r => tasks'[q] = tasks[q] /\ life'[q] = life[q]
  BY <1>1
<1>5. \A q \in Rows : RowOK(q)'
  BY <1>1, <1>2, <1>4, RowStays
<1>6. tasks' \in [Rows -> Row] /\ life' \in [Rows -> Life]
  BY <1>1, <1>3
<1> QED
  BY <1>2, <1>5, <1>6, ByRowNext

LEMMA InsertOK ==
  ASSUME IInv, NEW r \in Rows, NEW kind \in {"workflow", "activity", "timer"},
         NEW d \in Nat, NEW t \in Nat, Insert(r, kind, d, t)
  PROVE  IInv'
<1>1. PICK b \in Read : /\ tasks' = [tasks EXCEPT ![r] = Scheduled(b, kind, d, t)]
                        /\ life' = [life EXCEPT ![r] = Begun(b, d)]
                        /\ UNCHANGED <<now, pause_vars>>
  BY DEF Insert
<1>2. ClockOK /\ tasks \in [Rows -> Row] /\ life \in [Rows -> Life]
  BY RowsOK
<1>3. tasks'[r] = Scheduled(b, kind, d, t) /\ life'[r] = Begun(b, d)
  BY <1>1, <1>2
<1>4. RowOK(r)'
  BY <1>1, <1>2, <1>3, RowInserted
<1> QED
  BY <1>1, <1>4, OneRow

\* A poller locks a row, or a lease begins or ends.
LEMMA TouchOK ==
  ASSUME IInv, NEW r \in Rows,
         Claim(r) \/ ClaimTimeout(r) \/ Abort(r) \/ Lease(r) \/ Finish(r)
  PROVE  IInv'
<1>1. /\ ClockOK /\ tasks \in [Rows -> Row] /\ life \in [Rows -> Life] /\ RowOK(r)
      /\ tasks[r] \in Row /\ life[r] \in Life
  BY RowsOK
<1>2. UNCHANGED <<now, pause_vars>> /\ life' = life
  BY DEF Claim, ClaimTimeout, Abort, Lease, Finish
<1>3. Clock' = Clock
  BY <1>1, <1>2, ClockStands
<1>4. life' = [life EXCEPT ![r] = life[r]] /\ life'[r] = life[r]
  BY <1>1, <1>2
<1>5. CASE Claim(r)
  <2> DEFINE row == [tasks[r] EXCEPT !.locked = "take"]
  <2>1. tasks' = [tasks EXCEPT ![r] = row] /\ tasks'[r] = row
    BY <1>1, <1>5 DEF Claim, Visible
  <2>2. row \in Row
    BY <1>1 DEF Row
  <2>3. life[r].lived + life[r].lag >= life[r].delay
    <3>1. Clock = now /\ Pending(r) /\ tasks[r].visible_at <= now
      BY <1>5 DEF Claim, Visible, Clock
    <3>2. tasks[r].visible_at - now =
            (life[r].delay - life[r].lived) + life[r].late + life[r].lead - life[r].lag
      BY <1>1, <3>1 DEF RowOK
    <3>3. /\ now \in Nat /\ tasks[r].visible_at \in Int /\ life[r].delay \in Nat
          /\ life[r].lived \in Nat /\ life[r].late \in Nat /\ life[r].lead \in Nat /\ life[r].lag \in Nat
      BY <1>1 DEF ClockOK, Row, Life
    <3> QED
      BY <3>1, <3>2, <3>3
  <2>4. RowOK(r)'
    BY <1>1, <1>3, <1>4, <1>5, <2>1, <2>2, <2>3 DEF RowOK, Pending, Claim, Visible
  <2> QED
    BY <1>2, <1>4, <2>1, <2>4, OneRow
<1>6. CASE ClaimTimeout(r)
  <2> DEFINE row == [tasks[r] EXCEPT !.locked = "timeout"]
  <2>1. tasks' = [tasks EXCEPT ![r] = row] /\ tasks'[r] = row
    BY <1>1, <1>6 DEF ClaimTimeout, Overdue
  <2>2. row \in Row
    BY <1>1 DEF Row
  <2>3. life[r].lived + life[r].lag >= life[r].delay + tasks[r].timeout
    <3>1. Clock = now /\ Pending(r) /\ tasks[r].deadline <= now
      BY <1>6 DEF ClaimTimeout, Overdue, Clock
    <3>2. /\ tasks[r].visible_at - now =
               (life[r].delay - life[r].lived) + life[r].late + life[r].lead - life[r].lag
          /\ tasks[r].deadline = tasks[r].visible_at + tasks[r].timeout
      BY <1>1, <3>1 DEF RowOK
    <3>3. /\ now \in Nat /\ tasks[r].visible_at \in Int /\ life[r].delay \in Nat
          /\ life[r].lived \in Nat /\ life[r].late \in Nat /\ life[r].lead \in Nat /\ life[r].lag \in Nat /\ tasks[r].timeout \in Nat
      BY <1>1 DEF ClockOK, Row, Life
    <3> QED
      BY <3>1, <3>2, <3>3
  <2>4. RowOK(r)'
    BY <1>1, <1>3, <1>4, <1>6, <2>1, <2>2, <2>3 DEF RowOK, Pending, ClaimTimeout, Overdue
  <2> QED
    BY <1>2, <1>4, <2>1, <2>4, OneRow
<1>7. CASE Lease(r)
  <2>b. PICK b \in Read : tasks' = [tasks EXCEPT ![r].status = "leased", ![r].locked = "no",
                                                 ![r].expires = b + LeaseTime]
    BY <1>7 DEF Lease
  <2> DEFINE e == b + LeaseTime
             row == [tasks[r] EXCEPT !.status = "leased", !.locked = "no", !.expires = e]
  <2>1. tasks' = [tasks EXCEPT ![r] = row] /\ tasks'[r] = row
    BY <1>1, <2>b
  <2>e. e \in Nat
    BY <1>1, ReadPast, ClockAssumption
  <2> HIDE DEF e
  <2>2. row \in Row
    BY <1>1, <2>e DEF Row
  <2>3. RowOK(r)'
    BY <1>1, <1>4, <2>1, <2>2 DEF RowOK, Pending
  <2> QED
    BY <1>2, <1>4, <2>1, <2>3, OneRow
<1>8. CASE Finish(r)
  <2> DEFINE row == [tasks[r] EXCEPT !.status = "done"]
  <2>1. tasks' = [tasks EXCEPT ![r] = row] /\ tasks'[r] = row
    BY <1>1, <1>8 DEF Finish
  <2>2. row \in Row /\ row.locked = "no"
    BY <1>1, <1>8 DEF Row, Finish, RowOK, Pending
  <2>3. RowOK(r)'
    BY <1>1, <1>4, <2>1, <2>2 DEF RowOK, Pending
  <2> QED
    BY <1>2, <1>4, <2>1, <2>3, OneRow
<1>9. CASE Abort(r)
  <2> DEFINE row == [tasks[r] EXCEPT !.locked = "no"]
  <2>1. tasks' = [tasks EXCEPT ![r] = row] /\ tasks'[r] = row
    BY <1>1, <1>9 DEF Abort
  <2>2. row \in Row
    BY <1>1 DEF Row
  <2>3. RowOK(r)'
    BY <1>1, <1>3, <1>4, <2>1, <2>2 DEF RowOK, Pending
  <2> QED
    BY <1>2, <1>4, <2>1, <2>3, OneRow
<1> QED
  BY <1>5, <1>6, <1>7, <1>8, <1>9

\* A workflow task goes back to the queue.
LEMMA RequeueOK ==
  ASSUME IInv, NEW r \in Rows, NEW b \in Read, NEW d \in Nat, tasks[r].status = "leased",
         Requeue(r, b, d)
  PROVE  IInv'
<1>1. /\ ClockOK /\ tasks \in [Rows -> Row] /\ life \in [Rows -> Life] /\ RowOK(r)
      /\ tasks[r] \in Row /\ life[r] \in Life
  BY RowsOK
<1>2. UNCHANGED <<now, pause_vars>> /\ life' = [life EXCEPT ![r] = Begun(b, d)]
  BY DEF Requeue
<1> DEFINE row == [tasks[r] EXCEPT !.status = "pending", !.visible_at = b + d,
                                   !.deadline = b + d + tasks[r].timeout]
<1>3. tasks' = [tasks EXCEPT ![r] = row] /\ tasks'[r] = row
  BY <1>1 DEF Requeue
<1>4. b \in Nat /\ tasks[r].timeout \in Nat
  BY <1>1, ReadPast DEF Row
<1>5. row \in Row /\ row.locked = "no"
  <2>1. b + d \in Int /\ b + d + tasks[r].timeout \in Int /\ tasks[r].locked = "no"
    BY <1>1, <1>4 DEF RowOK, Pending
  <2>2. \A v, e \in Int : [tasks[r] EXCEPT !.status = "pending", !.visible_at = v, !.deadline = e]
                          \in Row
    BY <1>1 DEF Row
  <2>3. row \in Row
    BY <2>1, <2>2
  <2> QED
    BY <1>1, <2>1, <2>3 DEF Row
<1>6. /\ life'[r] \in Life
      /\ (b + d) - Clock = (life'[r].delay - life'[r].lived) + life'[r].late
                            + life'[r].lead - life'[r].lag
  BY <1>1, <1>2, BegunOK
<1>7. Clock' = Clock
  BY <1>1, <1>2, ClockStands
<1>8. /\ tasks'[r].visible_at = b + d /\ tasks'[r].timeout = tasks[r].timeout
      /\ tasks'[r].deadline = b + d + tasks[r].timeout
  BY <1>1, <1>3 DEF Row
<1>9. tasks'[r].deadline = tasks'[r].visible_at + tasks'[r].timeout
  BY <1>8
<1>10. RowOK(r)'
  BY <1>3, <1>5, <1>6, <1>7, <1>8, <1>9 DEF RowOK, Pending
<1> HIDE DEF row
<1> QED
  BY <1>2, <1>3, <1>10, OneRow

\* One row ends and another is inserted.
LEMMA ReplaceOK ==
  ASSUME IInv, NEW r \in Rows, NEW x \in Rows, NEW kind \in {"workflow", "activity", "timer"},
         NEW d \in Nat, NEW t \in Nat, Replace(r, x, kind, d, t)
  PROVE  IInv'
<1>1. /\ ClockOK /\ tasks \in [Rows -> Row] /\ life \in [Rows -> Life]
      /\ \A q \in Rows : RowOK(q)
  BY RowsOK
<1>2. UNCHANGED <<now, pause_vars>> /\ x # r
  BY DEF Replace
<1>b. PICK b \in Read :
        /\ tasks' = [tasks EXCEPT ![r].status = "done", ![r].locked = "no",
                                  ![x] = Scheduled(b, kind, d, t)]
        /\ life' = [life EXCEPT ![x] = Begun(b, d)]
  BY DEF Replace
<1>3. Clock' = Clock /\ ClockOK'
  BY <1>1, <1>2, ClockStands
<1> DEFINE row == [tasks[r] EXCEPT !.status = "done", !.locked = "no"]
<1>4. /\ tasks'[r] = row /\ tasks'[x] = Scheduled(b, kind, d, t)
      /\ life'[r] = life[r] /\ life'[x] = Begun(b, d)
      /\ \A q \in Rows : q # r /\ q # x => tasks'[q] = tasks[q] /\ life'[q] = life[q]
  BY <1>1, <1>2, <1>b
<1>5. RowOK(x)'
  BY <1>1, <1>2, <1>4, RowInserted
<1>6. row \in Row
  BY <1>1 DEF Row
<1>7. RowOK(r)'
  BY <1>1, <1>4, <1>6 DEF RowOK, Pending
<1>8. \A q \in Rows : RowOK(q)'
  BY <1>1, <1>3, <1>4, <1>5, <1>7, RowStays
<1>9. \A q \in Rows : tasks'[q] \in Row /\ life'[q] \in Life
  BY <1>8 DEF RowOK
<1>10. tasks' \in [Rows -> Row] /\ life' \in [Rows -> Life]
  <2>1. /\ tasks' = [q \in Rows |-> tasks'[q]] /\ life' = [q \in Rows |-> life'[q]]
    BY <1>1, <1>b
  <2> QED
    BY <1>9, <2>1
<1> QED
  BY <1>3, <1>8, <1>10, ByRowNext

LEMMA PauseOK == ASSUME IInv, PauseWorkflow PROVE IInv'
<1>1. /\ ClockOK /\ tasks \in [Rows -> Row] /\ life \in [Rows -> Life]
      /\ \A q \in Rows : RowOK(q)
  BY RowsOK
<1>2. /\ ~paused /\ paused' = TRUE /\ paused_at' \in Read /\ since' = now /\ pauses' = pauses + 1
      /\ now' = now /\ tasks' = tasks /\ life' = life
  BY DEF PauseWorkflow, CanPause
<1>3. Clock' = Clock
  BY <1>2 DEF Clock
<1>4. ClockOK'
  <2>1. paused_at' \in Nat /\ paused_at' <= now
    BY <1>1, <1>2, ReadPast
  <2> QED
    BY <1>1, <1>2, <2>1 DEF ClockOK
<1>5. \A q \in Rows : RowOK(q)'
  BY <1>1, <1>2, <1>3, RowStays
<1> QED
  BY <1>1, <1>2, <1>4, <1>5, ByRowNext

\* The arithmetic of a shift by k and of a tick.
LEMMA Moved ==
  ASSUME NEW v \in Int, NEW s \in Int, NEW n \in Int, NEW k \in Int, NEW d \in Int,
         NEW l \in Int, NEW t \in Int, NEW a \in Int, NEW g \in Int, NEW e \in Int, NEW f \in Int,
         v - s = (d - l) + t + a - g, (s + k) - n = e - f
  PROVE  v + k - n = (d - l) + t + (a + e) - (g + f)
  OBVIOUS

LEMMA Ticked ==
  ASSUME NEW v \in Int, NEW n \in Int, NEW d \in Int, NEW l \in Int, NEW t \in Int,
         NEW a \in Int, NEW g \in Int, v - n = (d - l) + t + a - g
  PROVE  v - (n + 1) = (d - (l + 1)) + t + a - g
  OBVIOUS

LEMMA ResumeOK == ASSUME IInv, ResumeWorkflow PROVE IInv'
<1>1. /\ ClockOK /\ tasks \in [Rows -> Row] /\ life \in [Rows -> Life]
      /\ \A q \in Rows : RowOK(q)
  BY RowsOK
<1>2. PICK b \in Read, missed \in SUBSET PutBack :
        /\ tasks' = [q \in Rows |-> IF Pending(q) /\ q \notin missed
                                    THEN Shifted(tasks[q], b) ELSE tasks[q]]
        /\ life' = [q \in Rows |-> IF Pending(q) /\ q \notin missed THEN Waited(life[q], b)
                                   ELSE IF q \in missed THEN Unheld(life[q]) ELSE life[q]]
  BY DEF ResumeWorkflow
<1>3. /\ paused /\ paused' = FALSE /\ now' = now
      /\ paused_at' = 0 /\ since' = 0 /\ pauses' = pauses
      /\ \A q \in Rows : Pending(q) => tasks[q].locked = "no"
  BY DEF ResumeWorkflow
<1> DEFINE k == b - paused_at
           led == since - paused_at
           lagged == now - b
           held == now - since
<1>4. /\ k \in Int /\ led \in Nat /\ lagged \in Nat /\ now \in Nat /\ since \in Nat
      /\ Clock = since /\ Clock' = now /\ (since + k) - now = led - lagged
      /\ held \in Nat
  <2>1. b \in Nat /\ b <= now
    BY <1>1, ReadPast
  <2> QED
    BY <1>1, <1>3, <2>1 DEF ClockOK, Clock
<1>5. ASSUME NEW q \in Rows PROVE RowOK(q)'
  <2>1. tasks[q] \in Row /\ life[q] \in Life /\ RowOK(q)
    BY <1>1
  <2>2. CASE ~Pending(q)
    <3>1. tasks'[q] = tasks[q] /\ life'[q] = life[q]
      BY <1>2, <2>2 DEF PutBack
    <3> QED
      BY <2>1, <2>2, <3>1 DEF RowOK, Pending
  <2>3. CASE Pending(q) /\ q \in missed
    <3>1. tasks'[q] = tasks[q] /\ life'[q] = [life[q] EXCEPT !.lived = @ + held]
      BY <1>2, <2>3 DEF Unheld
    <3> HIDE DEF k, led, lagged
    <3>2. /\ tasks[q].visible_at \in Int /\ tasks[q].locked = "no"
          /\ life[q].delay \in Nat /\ life[q].lived \in Nat /\ life[q].late \in Nat
          /\ life[q].lead \in Nat /\ life[q].lag \in Nat
      BY <1>3, <2>1, <2>3 DEF Row, Life
    <3>3. /\ life'[q] \in Life /\ life'[q].lived = life[q].lived + (now - since)
          /\ life'[q].delay = life[q].delay /\ life'[q].late = life[q].late
          /\ life'[q].lead = life[q].lead /\ life'[q].lag = life[q].lag
      <4>1. life[q].lived + held \in Nat
        BY <1>4, <3>2
      <4> HIDE DEF held
      <4>2. \A v \in Nat : [life[q] EXCEPT !.lived = v] \in Life
        BY <2>1 DEF Life
      <4>3. life'[q] \in Life /\ life'[q].lived = life[q].lived + held
        BY <2>1, <3>1, <4>1, <4>2 DEF Life
      <4> QED
        BY <2>1, <3>1, <4>3 DEF Life, held
    <3>4. /\ tasks[q].visible_at - since =
               (life[q].delay - life[q].lived) + life[q].late + life[q].lead - life[q].lag
          /\ tasks[q].deadline = tasks[q].visible_at + tasks[q].timeout
      BY <1>4, <2>1, <2>3 DEF RowOK
    <3>5. tasks'[q].visible_at - now =
            (life'[q].delay - life'[q].lived) + life'[q].late + life'[q].lead - life'[q].lag
      <4> DEFINE v == tasks[q].visible_at  d == life[q].delay  l == life[q].lived
                 t == life[q].late         a == life[q].lead   g == life[q].lag
      <4>1. /\ v \in Int /\ d \in Int /\ l \in Int /\ t \in Int /\ a \in Int /\ g \in Int
            /\ since \in Int /\ now \in Int
        BY <1>4, <3>2
      <4>2. v - since = (d - l) + t + a - g
        BY <3>4
      <4>3. /\ tasks'[q].visible_at = v /\ life'[q].delay = d
            /\ life'[q].lived = l + (now - since) /\ life'[q].late = t
            /\ life'[q].lead = a /\ life'[q].lag = g
        BY <3>1, <3>3
      <4> HIDE DEF v, d, l, t, a, g
      <4> QED
        BY <4>1, <4>2, <4>3
    <3> QED
      BY <1>4, <2>1, <3>1, <3>2, <3>3, <3>4, <3>5 DEF RowOK
  <2>4. CASE Pending(q) /\ q \notin missed
    <3>1. /\ tasks'[q] = [tasks[q] EXCEPT !.visible_at = @ + k, !.deadline = @ + k]
          /\ life'[q] = [life[q] EXCEPT !.lead = @ + led, !.lag = @ + lagged]
      BY <1>2, <2>4 DEF Shifted, Waited
    <3> HIDE DEF k, led, lagged
    <3>2. /\ tasks[q].visible_at \in Int /\ tasks[q].deadline \in Int /\ tasks[q].timeout \in Nat
          /\ life[q].delay \in Nat /\ life[q].lived \in Nat /\ life[q].late \in Nat
          /\ life[q].lead \in Nat /\ life[q].lag \in Nat
      BY <2>1 DEF Row, Life
    <3>3. /\ \A v, e \in Int : [tasks[q] EXCEPT !.visible_at = v, !.deadline = e] \in Row
          /\ \A v, e \in Nat : [life[q] EXCEPT !.lead = v, !.lag = e] \in Life
      BY <2>1 DEF Row, Life
    <3>4. /\ tasks[q].visible_at + k \in Int /\ tasks[q].deadline + k \in Int
          /\ life[q].lead + led \in Nat /\ life[q].lag + lagged \in Nat
      BY <1>4, <3>2
    <3>5. tasks'[q] \in Row /\ life'[q] \in Life
      <4>1. tasks'[q] \in Row
        BY <3>1, <3>3, <3>4
      <4>2. life'[q] \in Life
        BY <3>1, <3>3, <3>4
      <4> QED
        BY <4>1, <4>2
    <3>6. /\ tasks'[q].visible_at = tasks[q].visible_at + k
          /\ tasks'[q].deadline = tasks[q].deadline + k
          /\ tasks'[q].timeout = tasks[q].timeout /\ tasks'[q].locked = "no"
      BY <1>3, <2>1, <2>4, <3>1 DEF Row
    <3>7. /\ life'[q].delay = life[q].delay /\ life'[q].lived = life[q].lived
          /\ life'[q].late = life[q].late
          /\ life'[q].lead = life[q].lead + led /\ life'[q].lag = life[q].lag + lagged
      BY <2>1, <3>1 DEF Life
    <3>8. /\ tasks[q].visible_at - since =
               (life[q].delay - life[q].lived) + life[q].late + life[q].lead - life[q].lag
          /\ tasks[q].deadline = tasks[q].visible_at + tasks[q].timeout
      BY <1>4, <2>1, <2>4 DEF RowOK
    <3>9. tasks'[q].visible_at - now =
            (life'[q].delay - life'[q].lived) + life'[q].late + life'[q].lead - life'[q].lag
      <4> DEFINE v == tasks[q].visible_at  d == life[q].delay  l == life[q].lived
                 t == life[q].late         a == life[q].lead   g == life[q].lag
                 s == since                n == now
      <4>1. /\ v \in Int /\ d \in Int /\ l \in Int /\ t \in Int /\ a \in Int /\ g \in Int
            /\ s \in Int /\ n \in Int /\ k \in Int /\ led \in Int /\ lagged \in Int
        BY <1>4, <3>2
      <4>2. v - s = (d - l) + t + a - g /\ (s + k) - n = led - lagged
        BY <1>4, <3>8
      <4>3. /\ tasks'[q].visible_at = v + k /\ life'[q].delay = d /\ life'[q].lived = l
            /\ life'[q].late = t /\ life'[q].lead = a + led /\ life'[q].lag = g + lagged
            /\ n = now
        BY <3>6, <3>7
      <4> HIDE DEF v, d, l, t, a, g, s, n
      <4>4. v + k - n = (d - l) + t + (a + led) - (g + lagged)
        BY <4>1, <4>2, Moved
      <4> QED
        BY <4>1, <4>3, <4>4
    <3>10. tasks'[q].deadline = tasks'[q].visible_at + tasks'[q].timeout
      BY <1>4, <3>2, <3>6, <3>8
    <3> QED
      BY <1>4, <3>5, <3>6, <3>9, <3>10 DEF RowOK
  <2> QED
    BY <2>2, <2>3, <2>4
<1>6. ClockOK'
  BY <1>1, <1>3 DEF ClockOK
<1>7. \A q \in Rows : tasks'[q] \in Row /\ life'[q] \in Life
  BY <1>5 DEF RowOK
<1>8. tasks' \in [Rows -> Row] /\ life' \in [Rows -> Life]
  <2>1. tasks' = [q \in Rows |-> tasks'[q]] /\ life' = [q \in Rows |-> life'[q]]
    BY <1>2
  <2> QED
    BY <1>7, <2>1
<1> QED
  BY <1>5, <1>6, <1>8, ByRowNext

LEMMA TickOK == ASSUME IInv, Tick PROVE IInv'
<1>1. /\ ClockOK /\ tasks \in [Rows -> Row] /\ life \in [Rows -> Life]
      /\ \A q \in Rows : RowOK(q)
  BY RowsOK
<1>2. /\ now' = now + 1 /\ paused' = paused /\ paused_at' = paused_at /\ since' = since
      /\ pauses' = pauses
      /\ tasks' = tasks
      /\ \A q \in Rows : life'[q] = IF Pending(q) /\ ~paused
                                    THEN [life[q] EXCEPT !.lived = @ + 1] ELSE life[q]
  BY DEF Tick, pause_vars
<1>3. ClockOK'
  BY <1>1, <1>2 DEF ClockOK
<1>4. now \in Nat /\ Clock = (IF paused THEN since ELSE now)
      /\ Clock' = (IF paused THEN since ELSE now + 1)
  BY <1>1, <1>2 DEF ClockOK, Clock
<1>5. ASSUME NEW q \in Rows PROVE RowOK(q)'
  <2>1. tasks[q] \in Row /\ life[q] \in Life /\ RowOK(q) /\ tasks'[q] = tasks[q]
    BY <1>1, <1>2
  <2>2. CASE paused
    BY <1>2, <1>4, <2>1, <2>2 DEF RowOK, Pending
  <2>3. CASE ~Pending(q)
    BY <1>2, <2>1, <2>3 DEF RowOK, Pending
  <2>4. CASE ~paused /\ Pending(q)
    <3>1. life'[q] = [life[q] EXCEPT !.lived = @ + 1]
      BY <1>2, <2>4
    <3>2. /\ tasks[q].visible_at \in Int /\ tasks[q].timeout \in Nat
          /\ life[q].delay \in Nat /\ life[q].lived \in Nat /\ life[q].late \in Nat
          /\ life[q].lead \in Nat /\ life[q].lag \in Nat
      BY <2>1 DEF Row, Life
    <3>3. /\ life'[q].lived = life[q].lived + 1 /\ life'[q].delay = life[q].delay
          /\ life'[q].late = life[q].late /\ life'[q].lead = life[q].lead
          /\ life'[q].lag = life[q].lag
      BY <2>1, <3>1 DEF Life
    <3>4. life'[q] \in Life
      <4>1. \A v \in Nat : [life[q] EXCEPT !.lived = v] \in Life
        BY <2>1 DEF Life
      <4>2. life[q].lived + 1 \in Nat
        BY <3>2
      <4> QED
        BY <3>1, <4>1, <4>2
    <3>5. tasks[q].visible_at - Clock =
            (life[q].delay - life[q].lived) + life[q].late + life[q].lead - life[q].lag
      BY <2>1, <2>4 DEF RowOK
    <3>6. Clock = now /\ Clock' = now + 1
      BY <1>4, <2>4
    <3>7. tasks[q].visible_at - Clock' =
            (life'[q].delay - life'[q].lived) + life'[q].late + life'[q].lead - life'[q].lag
      <4> DEFINE v == tasks[q].visible_at  d == life[q].delay  l == life[q].lived
                 t == life[q].late         a == life[q].lead   g == life[q].lag  n == now
      <4>1. /\ v \in Int /\ d \in Int /\ l \in Int /\ t \in Int /\ a \in Int /\ g \in Int
            /\ n \in Int
        BY <1>4, <3>2
      <4>2. v - n = (d - l) + t + a - g
        BY <3>5, <3>6
      <4>3. /\ tasks[q].visible_at = v /\ life'[q].delay = d /\ life'[q].lived = l + 1
            /\ life'[q].late = t /\ life'[q].lead = a /\ life'[q].lag = g /\ Clock' = n + 1
        BY <3>3, <3>6
      <4> HIDE DEF v, d, l, t, a, g, n
      <4>4. v - (n + 1) = (d - (l + 1)) + t + a - g
        BY <4>1, <4>2, Ticked
      <4> QED
        BY <4>3, <4>4
    <3>8. /\ tasks[q].locked = "take" => life'[q].lived + life'[q].lag >= life'[q].delay
          /\ tasks[q].locked = "timeout" =>
               life'[q].lived + life'[q].lag >= life'[q].delay + tasks[q].timeout
      BY <2>1, <3>2, <3>3 DEF RowOK
    <3> QED
      BY <2>1, <2>4, <3>4, <3>7, <3>8 DEF RowOK, Pending
  <2> QED
    BY <2>2, <2>3, <2>4
<1>6. \A q \in Rows : life'[q] \in Life
  BY <1>5 DEF RowOK
<1>7. life' \in [Rows -> Life]
  <2>1. life' = [q \in Rows |-> life'[q]]
    BY DEF Tick
  <2> QED
    BY <1>6, <2>1
<1> QED
  BY <1>1, <1>2, <1>3, <1>5, <1>7, ByRowNext

LEMMA InitOK == Init => IInv
<1> SUFFICES ASSUME Init PROVE IInv
  OBVIOUS
<1>1. TypeOK
  <2>1. tasks \in [Rows -> Row]
    BY DEF Init, Row
  <2>2. life \in [Rows -> Life]
    BY DEF Init, Life
  <2> QED
    BY <2>1, <2>2 DEF Init, TypeOK
<1>2. Coherent /\ ExactDelay /\ NeverEarly /\ TimeoutDue
  BY DEF Init, Coherent, ExactDelay, NeverEarly, TimeoutDue, Pending
<1> QED
  BY <1>1, <1>2 DEF IInv

LEMMA RowStepOK == ASSUME IInv, NEW r \in Rows, RowStep(r) PROVE IInv'
<1>1. 0 \in Nat /\ Delays \subseteq Nat /\ Timeouts \subseteq Nat /\ RouteDelay \in Nat
  BY ClockAssumption
<1>2. CASE Insert(r, "workflow", 0, 0)
  BY <1>1, <1>2, InsertOK
<1>3. ASSUME NEW d \in Delays, Insert(r, "timer", d, 0) PROVE IInv'
  BY <1>1, <1>3, InsertOK
<1>4. ASSUME NEW d \in Delays, NEW t \in Timeouts, Insert(r, "activity", d, t) PROVE IInv'
  BY <1>1, <1>4, InsertOK
<1>5. CASE Claim(r) \/ ClaimTimeout(r) \/ Abort(r) \/ Lease(r) \/ Finish(r)
  BY <1>5, TouchOK
<1>6. CASE Reclaim(r)
  BY <1>1, <1>6, RequeueOK DEF Reclaim
<1>7. CASE Release(r)
  BY <1>1, <1>7, RequeueOK DEF Release
<1>8. ASSUME NEW x \in Rows, FireTimer(r, x) PROVE IInv'
  BY <1>1, <1>8, ReplaceOK DEF FireTimer
<1>9. ASSUME NEW x \in Rows, TimeOutPending(r, x) PROVE IInv'
  <2>1. tasks[r].timeout \in Nat
    BY RowsOK DEF RowOK, Row
  <2>2. CASE Replace(r, x, "workflow", 0, 0)
    BY <1>1, <2>2, ReplaceOK
  <2>3. ASSUME NEW d \in Delays, Replace(r, x, "activity", d, tasks[r].timeout) PROVE IInv'
    <3>1. d \in Nat
      BY <1>1
    <3> QED
      BY <2>1, <2>3, <3>1, ReplaceOK
  <2> QED
    BY <1>9, <2>2, <2>3 DEF TimeOutPending
<1> QED
  BY <1>2, <1>3, <1>4, <1>5, <1>6, <1>7, <1>8, <1>9 DEF RowStep

LEMMA Invariant == Spec => []IInv
<1>1. IInv /\ [Next]_vars => IInv'
  <2> SUFFICES ASSUME IInv, [Next]_vars PROVE IInv'
    OBVIOUS
  <2>1. CASE UNCHANGED vars
    <3>1. /\ ClockOK /\ tasks \in [Rows -> Row] /\ life \in [Rows -> Life]
          /\ \A q \in Rows : RowOK(q)
      BY RowsOK
    <3>2. Clock' = Clock /\ ClockOK' /\ tasks' = tasks /\ life' = life
      BY <2>1, <3>1, ClockStands DEF vars
    <3>3. \A q \in Rows : RowOK(q)'
      BY <3>1, <3>2, RowStays
    <3> QED
      BY <3>1, <3>2, <3>3, ByRowNext
  <2> QED
    BY <2>1, RowStepOK, PauseOK, ResumeOK, TickOK DEF Next
<1> QED
  BY <1>1, InitOK, PTL DEF Spec

\* No sleep is cut short and no task dispatched early by more than what the
\* resumptions of its execution waited for locks, for any number of rows and
\* pauses and any wait.
THEOREM SleepsInFull == Spec => []NeverEarly
<1>1. IInv => NeverEarly
  BY DEF IInv
<1> QED
  BY <1>1, Invariant, PTL

\* A pause takes from the schedule-to-start timeout of an activity no more
\* than what the resumption waited for locks.
THEOREM PausesDoNotTimeOut == Spec => []TimeoutDue
<1>1. IInv => TimeoutDue
  BY DEF IInv
<1> QED
  BY <1>1, Invariant, PTL

\* How far pauses have moved a pending row: by the time they held it, and
\* exactly by what the two transactions waited besides.
THEOREM ShiftedExactly == Spec => []ExactDelay
<1>1. IInv => ExactDelay
  BY DEF IInv
<1> QED
  BY <1>1, Invariant, PTL

=============================================================================
