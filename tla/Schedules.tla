----------------------------- MODULE Schedules ------------------------------
(***************************************************************************)
(* Durable cron schedules: engine/persistence/schedules.py over the tables *)
(* workflow_schedules and schedule_occurrences, driven by the maintenance  *)
(* loops of the workers and by the schedule endpoints of the API.          *)
(*                                                                         *)
(* materialize_due_schedule is a transaction of several statements at the  *)
(* isolation level READ COMMITTED.  Each statement is a step: the buffered *)
(* occurrences are selected from a snapshot and locked, and their rows     *)
(* re-checked, afterwards; a due schedule is locked, then its open         *)
(* executions are looked for, then the occurrence is written.  The other   *)
(* operations lock the schedule in their first statement and read nothing  *)
(* before it but their own clock: they are one step.                       *)
(***************************************************************************)
EXTENDS Integers, FiniteSets, Cron

CONSTANTS
  Ids,            \* schedules, numbered in the order of their ids
  Expression,     \* cron_expression of each schedule
  Zone,           \* timezone of each schedule
  Policy,         \* overlap_policy of each schedule
  Workers,        \* maintenance loops
  Limit,          \* most occurrences of one backfill
  ClockLag        \* minutes the clock an API request has read may be behind

\* Bounds of the model, not of the system.
CONSTANTS
  Operated,       \* the schedules operators pause, resume and backfill
  Horizon,        \* the last minute
  MaxCrashes      \* maintenance loops that die within a transaction

Minutes == 1 .. Horizon

\* The next occurrence of a schedule after a minute.
NextRunTable == [s \in Ids |->
  [t \in 0 .. Horizon |-> NextCronTime(Expression[s], Zone[s], t)]]

NextRun(s, after) == NextRunTable[s][after]

\* The minutes of each schedule.
Matching == [s \in Ids |-> {m \in Minutes : Matches(Expression[s], Local(Zone[s], m))}]

ASSUME SchedulesAssumption ==
  /\ Ids \subseteq Nat /\ Operated \subseteq Ids
  /\ Policy \in [Ids -> {"allow", "skip", "buffer_one"}]
  /\ Limit \in Nat /\ ClockLag \in Nat
  /\ Horizon \in Nat /\ MaxCrashes \in Nat /\ Lookahead \in Nat

\* create_schedule refuses an expression without a next occurrence.
ASSUME ExpressionsAssumption ==
  \A s \in Ids : \A t \in 0 .. Horizon : Candidates(Expression[s], Zone[s], t) # {}

VARIABLES
  now,          \* the clock of the workers
  next_run_at,  \* workflow_schedules.next_run_at; 0 before the row exists
  paused,       \* paused_at is not null
  occurrences,  \* schedule_occurrences.status; "none" where there is no row
  executions,   \* the executions schedules have started
  open,         \* those of them that are running
  worker,       \* the transaction of each maintenance loop
  crashes,      \* crashes so far
  since,        \* history variable: the first minute due since creation or resumption
  early,        \* history variable: minutes backfilled before the schedule came to them
  stale         \* history variable: the last resumption had read an old clock

ghosts == <<since, early, stale>>
tables == <<next_run_at, paused, occurrences, executions, open, ghosts>>
vars == <<now, tables, worker, crashes>>

\* A transaction of materialize_due_schedule: how far it is, its clock, the
\* buffered occurrences it has selected, the schedule it has locked and whether
\* it found an open execution of it.
Transactions ==
  [stage : {"idle", "buffered", "due", "locked", "decided"}, clock : 0 .. Horizon,
   seen : SUBSET (Ids \X Minutes), schedule : Ids \cup {0}, active : BOOLEAN]

Idle == [stage |-> "idle", clock |-> 0, seen |-> {}, schedule |-> 0, active |-> FALSE]

TypeOK ==
  /\ now \in 0 .. Horizon
  /\ next_run_at \in [Ids -> Nat]
  /\ paused \in [Ids -> BOOLEAN]
  /\ occurrences \in [Ids -> [Minutes -> {"none", "started", "skipped", "buffered"}]]
  /\ executions \in SUBSET [schedule : Ids, at : Minutes, n : Nat,
                            by : {"due", "buffer", "backfill"}]
  /\ open \subseteq executions
  /\ worker \in [Workers -> Transactions]
  /\ crashes \in Nat
  /\ since \in [Ids -> Nat]
  /\ early \in SUBSET (Ids \X Minutes)
  /\ stale \in [Ids -> BOOLEAN]

Init ==
  /\ now = 0
  /\ next_run_at = [s \in Ids |-> 0]
  /\ paused = [s \in Ids |-> FALSE]
  /\ occurrences = [s \in Ids |-> [m \in Minutes |-> "none"]]
  /\ executions = {}
  /\ open = {}
  /\ worker = [w \in Workers |-> Idle]
  /\ crashes = 0
  /\ since = [s \in Ids |-> 0]
  /\ early = {}
  /\ stale = [s \in Ids |-> FALSE]

Exists(s) == next_run_at[s] # 0

\* The row of the schedule is locked by a materialisation.
Locked(s) ==
  \E w \in Workers : worker[w].stage \in {"locked", "decided"} /\ worker[w].schedule = s

\* Faulty variant: only the execution of the occurrence itself counts.
ActiveOccurrence(s) == \E e \in open : e.schedule = s /\ e.at = next_run_at[s]

\* An execution of the schedule is running.  A continuation keeps the
\* schedule_id of the execution it continues, so it counts as the same one.
Active(s) == \E e \in open : e.schedule = s

Buffered(s) == {m \in Minutes : occurrences[s][m] = "buffered"}

\* _start_occurrence: the rows of the execution; its id is a fresh uuid4.
Execution(s, m, by) ==
  [schedule |-> s, at |-> m, by |-> by,
   n |-> Cardinality({e \in executions : e.schedule = s /\ e.at = m})]

Start(s, M, by) ==
  /\ executions' = executions \cup {Execution(s, m, by) : m \in M}
  /\ open' = open \cup {Execution(s, m, by) : m \in M}

(***************************************************************************)
(* The API.                                                                *)
(***************************************************************************)

\* datetime.now(UTC) of an API request when its transaction runs.
RequestClock == {t \in 0 .. now : now - t <= ClockLag}

CreateSchedule(s) ==
  /\ ~Exists(s)
  /\ \E t \in RequestClock :
       /\ next_run_at' = [next_run_at EXCEPT ![s] = NextRun(s, t)]
       /\ since' = [since EXCEPT ![s] = NextRun(s, t)]
  /\ UNCHANGED <<now, paused, occurrences, executions, open, worker, crashes, early, stale>>

\* set_schedule_paused; it returns without an effect if nothing would change.
PauseSchedule(s) ==
  /\ Exists(s) /\ ~paused[s] /\ ~Locked(s)
  /\ paused' = [paused EXCEPT ![s] = TRUE]
  /\ UNCHANGED <<now, next_run_at, occurrences, executions, open, worker, crashes, ghosts>>

\* Faulty variant: the schedule goes on where it was paused.
ResumedWhereItStopped(s, t) == next_run_at[s]

\* Resuming skips the occurrences the pause has covered.
ResumedAt(s, t) == NextRun(s, t)

ResumeSchedule(s) ==
  /\ Exists(s) /\ paused[s] /\ ~Locked(s)
  /\ paused' = [paused EXCEPT ![s] = FALSE]
  /\ \E t \in RequestClock :
       /\ next_run_at' = [next_run_at EXCEPT ![s] = ResumedAt(s, t)]
       /\ since' = [since EXCEPT ![s] = ResumedAt(s, t)]
       /\ stale' = [stale EXCEPT ![s] = t < now]
  /\ UNCHANGED <<now, occurrences, executions, open, worker, crashes, early>>

\* The schedule itself will not come to this minute any more.
Passed(s, m) == m <= now /\ (paused[s] \/ m < next_run_at[s])

\* backfill_schedule: one execution for every matching minute from first to
\* last that has no occurrence, whatever the overlap policy and also while the
\* schedule is paused; all or nothing.  No minute is too late for it.
BackfillSchedule(s, first, last) ==
  LET times == {m \in Matching[s] : first <= m /\ m <= last}
      fresh == {m \in times : occurrences[s][m] = "none"}
  IN
  /\ Exists(s) /\ ~Locked(s)
  /\ Cardinality(times) <= Limit
  /\ Start(s, fresh, "backfill")
  /\ occurrences' = [occurrences EXCEPT ![s] =
       [m \in Minutes |-> IF m \in fresh THEN "started" ELSE @[m]]]
  /\ early' = early \cup {<<s, m>> : m \in {n \in fresh : ~Passed(s, n)}}
  /\ UNCHANGED <<now, next_run_at, paused, worker, crashes, since, stale>>

(***************************************************************************)
(* materialize_due_schedule.                                               *)
(***************************************************************************)

\* Faulty variant: an execution that has closed still counts.
NeverStartedYet ==
  {c \in Ids \X Minutes : /\ c[2] \in Buffered(c[1]) /\ Exists(c[1]) /\ ~paused[c[1]]
                          /\ ~ \E e \in executions : e.schedule = c[1]}

\* The WHERE clause of the first statement.
Startable ==
  {c \in Ids \X Minutes : /\ c[2] \in Buffered(c[1]) /\ Exists(c[1]) /\ ~paused[c[1]]
                          /\ ~Active(c[1])}

\* A schedule is due.
Due(s) == Exists(s) /\ ~paused[s] /\ next_run_at[s] <= now

\* A pass of the maintenance loop begins: the snapshot of the first statement.
\* Passes that find nothing to do are left out.
Poll(w) ==
  /\ worker[w].stage = "idle"
  /\ Startable # {} \/ \E s \in Ids : Due(s)
  /\ worker' = [worker EXCEPT ![w] =
       [stage |-> IF Startable = {} THEN "due" ELSE "buffered", clock |-> now,
        seen |-> Startable, schedule |-> 0, active |-> FALSE]]
  /\ UNCHANGED <<now, tables, crashes>>

\* Faulty variant: the occurrence is not re-checked when it is locked.
SeenUnlocked(w) == {c \in worker[w].seen : ~Locked(c[1]) /\ ~paused[c[1]]}

\* FOR UPDATE OF s, o SKIP LOCKED: of the rows in the snapshot those that are
\* not locked and, in their current version, still qualify.  The executions
\* are not locked and are not looked at again.
Lockable(w) ==
  {c \in worker[w].seen : ~Locked(c[1]) /\ ~paused[c[1]] /\ occurrences[c[1]][c[2]] = "buffered"}

\* Start the buffered occurrence with the least scheduled_at, then id.
StartBuffered(w) ==
  /\ worker[w].stage = "buffered"
  /\ \E c \in Lockable(w) :
       /\ \A d \in Lockable(w) : c[2] < d[2] \/ (c[2] = d[2] /\ c[1] <= d[1])
       /\ Start(c[1], {c[2]}, "buffer")
       /\ occurrences' = [occurrences EXCEPT ![c[1]][c[2]] = "started"]
  /\ worker' = [worker EXCEPT ![w] = Idle]
  /\ UNCHANGED <<now, next_run_at, paused, crashes, ghosts>>

NothingBuffered(w) ==
  /\ worker[w].stage = "buffered" /\ Lockable(w) = {}
  /\ worker' = [worker EXCEPT ![w].stage = "due", ![w].seen = {}]
  /\ UNCHANGED <<now, tables, crashes>>

\* Faulty variant: an occurrence is due only after its minute.
DueBefore(w) ==
  {s \in Ids : Exists(s) /\ ~paused[s] /\ next_run_at[s] < worker[w].clock /\ ~Locked(s)}

\* The WHERE clause of the second statement; locked rows are skipped.
DueSchedules(w) ==
  {s \in Ids : Exists(s) /\ ~paused[s] /\ next_run_at[s] <= worker[w].clock /\ ~Locked(s)}

SelectDue(w) ==
  /\ worker[w].stage = "due"
  /\ \E s \in DueSchedules(w) :
       /\ \A r \in DueSchedules(w) : \/ next_run_at[s] < next_run_at[r]
                                     \/ next_run_at[s] = next_run_at[r] /\ s <= r
       /\ worker' = [worker EXCEPT ![w] =
            [stage |-> "locked", clock |-> 0, seen |-> {}, schedule |-> s, active |-> FALSE]]
  /\ UNCHANGED <<now, tables, crashes>>

NothingDue(w) ==
  /\ worker[w].stage = "due" /\ DueSchedules(w) = {}
  /\ worker' = [worker EXCEPT ![w] = Idle]
  /\ UNCHANGED <<now, tables, crashes>>

CheckActive(w) ==
  /\ worker[w].stage = "locked"
  /\ worker' = [worker EXCEPT ![w].stage = "decided", ![w].active = Active(worker[w].schedule)]
  /\ UNCHANGED <<now, tables, crashes>>

\* What becomes of the occurrence.
Outcome(s, active) ==
  IF active /\ Policy[s] # "allow"
  THEN IF Policy[s] = "buffer_one" /\ Buffered(s) = {} THEN "buffered" ELSE "skipped"
  ELSE "started"

\* Faulty variant: the next occurrence is counted from the clock.
NextFromClock(s, w) == NextRun(s, now)

\* next_run_at is counted from the occurrence, so a worker that is late
\* catches up minute by minute.
NextAfter(s, w) == NextRun(s, next_run_at[s])

\* The occurrence and the next_run_at are written together.  If the occurrence
\* exists already, the primary key refuses it, the transaction is rolled back,
\* the loop logs the error and polls again.
Materialize(w) ==
  LET s == worker[w].schedule
      m == next_run_at[s]
      outcome == Outcome(s, worker[w].active)
  IN
  /\ worker[w].stage = "decided"
  /\ IF occurrences[s][m] = "none"
     THEN /\ occurrences' = [occurrences EXCEPT ![s][m] = outcome]
          /\ Start(s, IF outcome = "started" THEN {m} ELSE {}, "due")
          /\ next_run_at' = [next_run_at EXCEPT ![s] = NextAfter(s, w)]
     ELSE UNCHANGED <<occurrences, executions, open, next_run_at>>
  /\ worker' = [worker EXCEPT ![w] = Idle]
  /\ UNCHANGED <<now, paused, crashes, ghosts>>

(***************************************************************************)
(* The environment.                                                        *)
(***************************************************************************)

\* The worker dies; its transaction is rolled back and its locks are released.
Crash(w) ==
  /\ worker[w].stage # "idle" /\ crashes < MaxCrashes
  /\ crashes' = crashes + 1
  /\ worker' = [worker EXCEPT ![w] = Idle]
  /\ UNCHANGED <<now, tables>>

\* An execution closes, for whatever reason; see module Engine.
CloseExecution(e) ==
  /\ open' = open \ {e}
  /\ UNCHANGED <<now, next_run_at, paused, occurrences, executions, worker, crashes, ghosts>>

Tick ==
  /\ now < Horizon
  /\ now' = now + 1
  /\ UNCHANGED <<tables, worker, crashes>>

WorkerStep(w) ==
  \/ Poll(w) \/ StartBuffered(w) \/ NothingBuffered(w) \/ SelectDue(w) \/ NothingDue(w)
  \/ CheckActive(w) \/ Materialize(w)

OperatorStep(s) ==
  \/ PauseSchedule(s) \/ ResumeSchedule(s)
  \/ \E first, last \in Minutes : first <= last /\ BackfillSchedule(s, first, last)

Next ==
  \/ \E s \in Ids : CreateSchedule(s)
  \/ \E s \in Operated : OperatorStep(s)
  \/ \E w \in Workers : WorkerStep(w) \/ Crash(w)
  \/ \E e \in open : CloseExecution(e)
  \/ Tick

Spec == Init /\ [][Next]_vars

\* Maintenance loops poll until they are stopped and survive the exceptions
\* of their steps; the executions of these schedules close.  Nothing is
\* assumed of operators.
LiveSpec ==
  /\ Spec
  /\ \A w \in Workers : WF_vars(WorkerStep(w))
  /\ WF_vars(\E e \in open : CloseExecution(e))

(***************************************************************************)
(* Safety.                                                                 *)
(***************************************************************************)

\* The occurrence the schedule is about to materialise exists already.  The
\* primary key refuses it on every pass.
Wedged(s) ==
  /\ Exists(s) /\ ~paused[s] /\ next_run_at[s] \in Minutes
  /\ occurrences[s][next_run_at[s]] # "none"

\* A schedule runs into an occurrence that exists already only if a backfill
\* inserted it before the schedule had come to it, or if the schedule was
\* resumed by a clock that was behind.  Backfills of what has passed, in a
\* pause or not, pauses, crashes and late workers cannot do it.
NoCollision ==
  \A s \in Ids : Wedged(s) => stale[s] \/ <<s, next_run_at[s]>> \in early

\* An occurrence is run at most once, whichever of the regular path, the
\* buffer and a backfill gets to it and whichever worker crashes on the way;
\* and it is marked started exactly when an execution was created for it.
OneExecution ==
  /\ \A e, f \in executions : e.schedule = f.schedule /\ e.at = f.at => e = f
  /\ \A s \in Ids, m \in Minutes :
       occurrences[s][m] = "started" <=> \E e \in executions : e.schedule = s /\ e.at = m

\* Every matching minute a schedule has gone past while it was not paused has
\* an occurrence, however late the workers were.
NoMinuteLost ==
  \A s \in Ids : Exists(s) /\ ~paused[s] =>
    \A m \in Matching[s] : since[s] <= m /\ m < next_run_at[s] => occurrences[s][m] # "none"

RunningOf(s) == {e \in open : e.schedule = s /\ e.by # "backfill"}

\* What the operator's guide says of the policies, backfills apart: only
\* `allow' starts concurrent executions.
OneAtATime ==
  \A s \in Ids : Policy[s] # "allow" => Cardinality(RunningOf(s)) <= 1

\* What holds of it: executions of a schedule with policy `skip' never
\* overlap.  With `buffer_one' two may, since a buffered occurrence can be
\* started from a snapshot taken before another worker started the one that
\* was due; three may not, and never is more than one occurrence buffered.
NoOverlap ==
  \A s \in Ids :
    /\ Policy[s] = "skip" => Cardinality(RunningOf(s)) <= 1
    /\ Policy[s] = "buffer_one" => Cardinality(RunningOf(s)) <= 2 /\ Cardinality(Buffered(s)) <= 1

(***************************************************************************)
(* Liveness.                                                               *)
(***************************************************************************)

\* What durable schedules are for: a schedule that is due catches up with the
\* clock, whatever other schedules are due.
AlwaysCatchesUp == \A s \in Ids : []<>~Due(s)

\* What holds of it: it does so unless it, or a schedule whose turn is before
\* its own, is wedged.
Held(s) ==
  \E r \in Ids : /\ Wedged(r)
                 /\ \/ next_run_at[r] < next_run_at[s]
                    \/ next_run_at[r] = next_run_at[s] /\ r <= s

CatchesUp == \A s \in Ids : []<>(~Due(s) \/ Held(s))

\* A buffered occurrence is started in the end, unless the schedule is paused.
BufferedStarts == \A s \in Ids : []<>(Buffered(s) = {} \/ paused[s])

=============================================================================
