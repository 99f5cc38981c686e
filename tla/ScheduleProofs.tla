--------------------------- MODULE ScheduleProofs ---------------------------
(***************************************************************************)
(* What schedules guarantee, for every set of schedules, every expression, *)
(* time zone and policy, and any number of maintenance workers.            *)
(***************************************************************************)
EXTENDS Schedules, FiniteSetTheorems, WellFoundedInduction, TLAPS

(***************************************************************************)
(* next_cron_time.                                                         *)
(***************************************************************************)

\* A non-empty set of natural numbers has a least element.
LEMMA LeastElement ==
  ASSUME NEW T, T \subseteq Nat, T # {}
  PROVE  \E x \in T : \A y \in T : x <= y
<1>1. \E x \in T : \A y \in T : ~ (<<y, x>> \in OpToRel(<, Nat))
  BY NatLessThanWellFounded, WFMin
<1>2. PICK x \in T : \A y \in T : ~ (<<y, x>> \in OpToRel(<, Nat))
  BY <1>1
<1>3. \A y \in T : ~ (y < x)
  BY <1>2 DEF OpToRel
<1>4. x \in Nat /\ \A y \in T : y \in Nat /\ ~ (y < x)
  BY <1>3
<1>5. \A y \in T : x <= y
  BY <1>4
<1> QED
  BY <1>5

\* The next occurrence of a schedule is after the minute asked about, and no
\* matching minute lies between.
LEMMA NextRunIsNext ==
  ASSUME NEW s \in Ids, NEW t \in 0 .. Horizon
  PROVE  /\ NextRun(s, t) \in Nat /\ NextRun(s, t) > t
         /\ \A m \in Matching[s] : t < m => NextRun(s, t) <= m
<1> DEFINE C == Candidates(Expression[s], Zone[s], t)
<1>1. C # {} /\ C \subseteq Nat /\ \A m \in C : m > t
  BY ExpressionsAssumption, SchedulesAssumption DEF Candidates
<1>2. NextRun(s, t) = CHOOSE m \in C : \A n \in C : m <= n
  BY DEF NextRun, NextRunTable, NextCronTime
<1> HIDE DEF C
<1>3. \E m \in C : \A n \in C : m <= n
  BY <1>1, LeastElement
<1>4. NextRun(s, t) \in C /\ \A n \in C : NextRun(s, t) <= n
  BY <1>2, <1>3
<1>5. ASSUME NEW m \in Matching[s], t < m, ~ (NextRun(s, t) <= m)
      PROVE  FALSE
  <2>1. m \in Nat /\ Matches(Expression[s], Local(Zone[s], m))
    BY SchedulesAssumption DEF Matching, Minutes
  <2>2. NextRun(s, t) \in (t + 1) .. (t + Lookahead)
    BY <1>4 DEF C, Candidates
  <2>3. m \in (t + 1) .. (t + Lookahead)
    BY <2>1, <2>2, <1>5, SchedulesAssumption
  <2>4. m \in C
    BY <2>1, <2>3 DEF C, Candidates
  <2> QED
    BY <2>4, <1>4, <1>5
<1> QED
  BY <1>1, <1>4, <1>5

(***************************************************************************)
(* The inductive invariant.                                                *)
(***************************************************************************)

Owns(w, s) == worker[w].stage \in {"locked", "decided"} /\ worker[w].schedule = s

\* A materialisation that has locked its schedule works on what it has read:
\* nobody else has locked it, and it is still due.
LocksHold ==
  \A w \in Workers :
    /\ worker[w].clock <= now
    /\ worker[w].stage \in {"locked", "decided"} => worker[w].schedule \in Ids
    /\ \A s \in Ids : Owns(w, s) =>
         /\ Due(s)
         /\ \A v \in Workers : Owns(v, s) => v = w

\* Schedules count from a minute that is not after their next occurrence,
\* and only schedules that exist are paused or have occurrences.
Counted ==
  \A s \in Ids :
    /\ paused[s] => Exists(s)
    /\ \A m \in Minutes : occurrences[s][m] # "none" => Exists(s)

IInv == TypeOK /\ LocksHold /\ Counted /\ OneExecution /\ NoMinuteLost

\* A loop between two transactions.
LEMMA IdleTransaction == Idle \in Transactions /\ Idle.stage = "idle" /\ Idle.clock = 0
  BY SchedulesAssumption DEF Idle, Transactions

\* Initially.
LEMMA InitIInv == Init => IInv
<1> SUFFICES ASSUME Init PROVE IInv
  OBVIOUS
<1> USE SchedulesAssumption DEF Init
<1>1. TypeOK
  BY IdleTransaction DEF TypeOK
<1>2. LocksHold
  BY IdleTransaction DEF LocksHold, Owns
<1>3. Counted /\ OneExecution /\ NoMinuteLost
  BY DEF Counted, OneExecution, NoMinuteLost, Exists
<1> QED
  BY <1>1, <1>2, <1>3 DEF IInv

(***************************************************************************)
(* Steps of a worker that only read.                                       *)
(***************************************************************************)

\* The tables stay, so what is said of them stays true.
LEMMA TablesKept ==
  ASSUME IInv, UNCHANGED tables
  PROVE  Counted' /\ OneExecution' /\ NoMinuteLost'
  BY DEF IInv, tables, ghosts, Counted, OneExecution, NoMinuteLost, Exists

\* The row of a schedule is locked by the worker that owns it.
LEMMA LockedByOwner ==
  ASSUME NEW s PROVE Locked(s) <=> \E u \in Workers : Owns(u, s)
  BY DEF Locked, Owns

\* Nothing is locked anew: the locks hold.
LEMMA LocksKept ==
  ASSUME IInv, now' = now, NEW w \in Workers, NEW r \in Transactions, r.clock <= now,
         r.stage \in {"locked", "decided"} => r.schedule \in Ids,
         worker' = [worker EXCEPT ![w] = r],
         \A s \in Ids : r.stage \in {"locked", "decided"} /\ r.schedule = s =>
           Due(s)' /\ (Owns(w, s) \/ ~Locked(s)),
         \A s \in Ids : Locked(s) /\ ~Owns(w, s) => Due(s)'
  PROVE  LocksHold'
<1>1. worker'[w] = r /\ \A u \in Workers : u # w => worker'[u] = worker[u]
  BY DEF IInv, TypeOK
<1>2. LocksHold
  BY DEF IInv
<1>3. ASSUME NEW v \in Workers
      PROVE  /\ worker'[v].clock <= now'
             /\ worker'[v].stage \in {"locked", "decided"} => worker'[v].schedule \in Ids
  <2>1. CASE v = w
    BY <1>1, <2>1
  <2>2. CASE v # w
    BY <1>1, <1>2, <2>2 DEF LocksHold
  <2> QED
    BY <2>1, <2>2
<1>4. ASSUME NEW v \in Workers, NEW s \in Ids, Owns(v, s)'
      PROVE  Due(s)' /\ \A u \in Workers : Owns(u, s)' => u = v
  <2>1. \A u \in Workers : u # w => (Owns(u, s)' <=> Owns(u, s))
    BY <1>1 DEF Owns
  <2>2. Owns(w, s)' => Due(s)' /\ (Owns(w, s) \/ ~Locked(s))
    BY <1>1 DEF Owns
  <2>3. \A u, x \in Workers : Owns(u, s) /\ Owns(x, s) => u = x
    BY <1>2 DEF LocksHold
  <2>4. \A u \in Workers : Owns(u, s) => Locked(s)
    BY LockedByOwner
  <2>5. Due(s)'
    BY <1>4, <2>1, <2>2, <2>3, <2>4
  <2>6. \A u \in Workers : Owns(u, s)' => u = v
    BY <1>4, <2>1, <2>2, <2>3, <2>4
  <2> QED
    BY <2>5, <2>6
<1> QED
  BY <1>3, <1>4 DEF LocksHold

\* The stage of one worker changes and it locks nothing another has locked.
LEMMA WorkerMoves ==
  ASSUME IInv, now' = now, UNCHANGED tables, NEW w \in Workers, NEW r \in Transactions,
         r.clock <= now,
         r.stage \in {"locked", "decided"} => r.schedule \in Ids,
         \A s \in Ids : r.stage \in {"locked", "decided"} /\ r.schedule = s =>
           Due(s) /\ (Owns(w, s) \/ ~Locked(s)),
         worker' = [worker EXCEPT ![w] = r], crashes' \in Nat
  PROVE  IInv'
<1>1. TypeOK'
  BY DEF IInv, TypeOK, tables, ghosts
<1>2. \A s \in Ids : Due(s)' <=> Due(s)
  BY DEF Due, Exists, tables
<1>3. \A s \in Ids : Locked(s) => Due(s)
  BY LockedByOwner DEF IInv, LocksHold
<1>4. LocksHold'
  BY <1>2, <1>3, LocksKept
<1> QED
  BY <1>1, <1>4, TablesKept DEF IInv

\* A worker that ends its transaction.
LEMMA GoesIdle ==
  ASSUME IInv, now' = now, UNCHANGED tables, NEW w \in Workers,
         worker' = [worker EXCEPT ![w] = Idle], crashes' \in Nat
  PROVE  IInv'
<1>1. Idle.clock <= now /\ ~ (Idle.stage \in {"locked", "decided"})
  BY IdleTransaction, SchedulesAssumption DEF IInv, TypeOK
<1> QED
  BY <1>1, IdleTransaction, WorkerMoves

LEMMA PollKeeps == ASSUME IInv, NEW w \in Workers, Poll(w) PROVE IInv'
<1> DEFINE r == [stage |-> IF Startable = {} THEN "due" ELSE "buffered", clock |-> now,
                 seen |-> Startable, schedule |-> 0, active |-> FALSE]
<1>1. Startable \in SUBSET (Ids \X Minutes) /\ now \in 0 .. Horizon /\ crashes \in Nat
  BY DEF Startable, IInv, TypeOK
<1>3. worker' = [worker EXCEPT ![w] = r] /\ now' = now /\ UNCHANGED tables /\ crashes' = crashes
  BY DEF Poll
<1>4. r \in Transactions /\ r.clock <= now /\ ~ (r.stage \in {"locked", "decided"})
  BY <1>1, SchedulesAssumption DEF Transactions
<1> HIDE DEF r
<1> QED
  BY <1>1, <1>3, <1>4, WorkerMoves

LEMMA NothingBufferedKeeps == ASSUME IInv, NEW w \in Workers, NothingBuffered(w) PROVE IInv'
<1> DEFINE r == [worker[w] EXCEPT !.stage = "due", !.seen = {}]
<1>1. worker' = [worker EXCEPT ![w] = r] /\ now' = now /\ UNCHANGED tables /\ crashes' = crashes
  BY DEF NothingBuffered
<1>2. worker[w] \in Transactions /\ worker[w].clock <= now /\ crashes \in Nat
  BY DEF IInv, TypeOK, LocksHold
<1>3. r \in Transactions /\ r.clock <= now /\ ~ (r.stage \in {"locked", "decided"})
  BY <1>2 DEF Transactions
<1> HIDE DEF r
<1> QED
  BY <1>1, <1>2, <1>3, WorkerMoves

LEMMA SelectDueKeeps == ASSUME IInv, NEW w \in Workers, SelectDue(w) PROVE IInv'
<1>1. PICK s \in DueSchedules(w) :
        worker' = [worker EXCEPT ![w] =
          [stage |-> "locked", clock |-> 0, seen |-> {}, schedule |-> s, active |-> FALSE]]
  BY DEF SelectDue
<1> DEFINE r == [stage |-> "locked", clock |-> 0, seen |-> {}, schedule |-> s, active |-> FALSE]
<1>2. now \in 0 .. Horizon /\ crashes \in Nat /\ worker[w] \in Transactions
  BY DEF IInv, TypeOK
<1>3. worker[w].clock <= now /\ worker[w].clock \in 0 .. Horizon
  BY <1>2 DEF IInv, LocksHold, Transactions
<1>4. s \in Ids /\ Exists(s) /\ ~paused[s] /\ next_run_at[s] <= worker[w].clock /\ ~Locked(s)
  BY DEF DueSchedules
<1>5. next_run_at[s] \in Nat
  BY <1>4 DEF IInv, TypeOK
<1>6. Due(s)
  BY <1>2, <1>3, <1>4, <1>5, SchedulesAssumption DEF Due
<1>8. worker' = [worker EXCEPT ![w] = r] /\ now' = now /\ UNCHANGED tables /\ crashes' = crashes
  BY <1>1 DEF SelectDue
<1>9. r \in Transactions /\ r.clock <= now /\ r.schedule = s
  BY <1>2, <1>4, SchedulesAssumption DEF Transactions
<1> HIDE DEF r
<1> QED
  BY <1>2, <1>4, <1>6, <1>8, <1>9, WorkerMoves

LEMMA CheckActiveKeeps == ASSUME IInv, NEW w \in Workers, CheckActive(w) PROVE IInv'
<1> DEFINE a == Active(worker[w].schedule)
           r == [worker[w] EXCEPT !.stage = "decided", !.active = a]
<1>1. worker' = [worker EXCEPT ![w] = r] /\ now' = now /\ UNCHANGED tables /\ crashes' = crashes
  BY DEF CheckActive
<1>2. worker[w] \in Transactions /\ worker[w].clock <= now /\ crashes \in Nat
  BY DEF IInv, TypeOK, LocksHold
<1>3. a \in BOOLEAN
  BY DEF Active
<1>4. /\ worker[w].schedule \in Ids
      /\ \A s \in Ids : worker[w].schedule = s => Owns(w, s) /\ Due(s)
  BY DEF CheckActive, Owns, IInv, LocksHold
<1> HIDE DEF a
<1>5. r \in Transactions /\ r.clock <= now /\ r.schedule = worker[w].schedule
  BY <1>2, <1>3 DEF Transactions
<1> HIDE DEF r
<1> QED
  BY <1>1, <1>2, <1>4, <1>5, WorkerMoves

\* The clock.
LEMMA TickKeeps == ASSUME IInv, Tick PROVE IInv'
<1>1. now \in Nat /\ now' = now + 1 /\ now' \in 0 .. Horizon
  BY SchedulesAssumption DEF Tick, IInv, TypeOK
<1>2. UNCHANGED tables /\ worker' = worker /\ crashes' = crashes
  BY DEF Tick
<1>3. TypeOK'
  BY <1>1, <1>2 DEF IInv, TypeOK, tables, ghosts
<1>4. ASSUME NEW v \in Workers, NEW s \in Ids
      PROVE  Due(s) => Due(s)'
  <2>1. next_run_at[s] \in Nat
    BY DEF IInv, TypeOK
  <2> QED
    BY <1>1, <1>2, <2>1, SchedulesAssumption DEF Due, Exists, tables
<1>5. \A v \in Workers, s \in Ids : Owns(v, s)' <=> Owns(v, s)
  BY <1>2 DEF Owns
<1>6. ASSUME NEW v \in Workers
      PROVE  /\ worker'[v].clock <= now'
             /\ worker'[v].stage \in {"locked", "decided"} => worker'[v].schedule \in Ids
  <2>1. /\ worker[v].clock <= now /\ worker[v].clock \in 0 .. Horizon
        /\ worker[v].stage \in {"locked", "decided"} => worker[v].schedule \in Ids
    BY DEF IInv, TypeOK, LocksHold, Transactions
  <2> QED
    BY <1>1, <1>2, <2>1, SchedulesAssumption
<1>7. \A v \in Workers, s \in Ids : Owns(v, s) => Due(s)' /\ \A u \in Workers : Owns(u, s) => u = v
  BY <1>4 DEF IInv, LocksHold
<1>8. LocksHold'
  BY <1>5, <1>6, <1>7 DEF LocksHold
<1> QED
  BY <1>2, <1>3, <1>8, TablesKept DEF IInv

(***************************************************************************)
(* The API.                                                                *)
(***************************************************************************)

\* An operation that leaves the workers alone and the schedules they have
\* locked due.
LEMMA LocksUntouched ==
  ASSUME IInv, now' = now, worker' = worker, \A s \in Ids : Locked(s) => Due(s)'
  PROVE  LocksHold'
<1>1. \A v \in Workers, s \in Ids : Owns(v, s)' <=> Owns(v, s)
  BY DEF Owns
<1>2. \A v \in Workers, s \in Ids : Owns(v, s) => Due(s)' /\ \A u \in Workers : Owns(u, s) => u = v
  BY LockedByOwner DEF IInv, LocksHold
<1>3. \A v \in Workers :
        /\ worker'[v].clock <= now'
        /\ worker'[v].stage \in {"locked", "decided"} => worker'[v].schedule \in Ids
  BY DEF IInv, LocksHold
<1> QED
  BY <1>1, <1>2, <1>3 DEF LocksHold

\* What is locked is due.
LEMMA LockedDue == ASSUME IInv, NEW s \in Ids, Locked(s) PROVE Due(s)
  BY LockedByOwner DEF IInv, LocksHold

\* The schedule starts afresh with the occurrence after a minute.
LEMMA StartsAfresh ==
  ASSUME IInv, NEW s \in Ids, ~Locked(s), NEW t \in 0 .. Horizon,
         next_run_at' = [next_run_at EXCEPT ![s] = NextRun(s, t)],
         since' = [since EXCEPT ![s] = NextRun(s, t)],
         paused' \in [Ids -> BOOLEAN], ~paused'[s], \A r \in Ids : r # s => paused'[r] = paused[r],
         UNCHANGED <<now, occurrences, executions, open, worker, crashes, early>>,
         stale' \in [Ids -> BOOLEAN]
  PROVE  IInv'
<1> DEFINE n == NextRun(s, t)
<1>1. n \in Nat /\ n # 0
  BY NextRunIsNext, SchedulesAssumption
<1> HIDE DEF n
<1>2. /\ next_run_at' = [next_run_at EXCEPT ![s] = n] /\ since' = [since EXCEPT ![s] = n]
      /\ next_run_at \in [Ids -> Nat] /\ since \in [Ids -> Nat]
  BY DEF n, IInv, TypeOK
<1>3. TypeOK'
  BY <1>1, <1>2 DEF IInv, TypeOK
<1>4. \A r \in Ids : Exists(r) => Exists(r)'
  BY <1>1, <1>2 DEF Exists
<1>5. ASSUME NEW r \in Ids, Locked(r) PROVE Due(r)'
  <2>1. r # s /\ Due(r)
    BY <1>5, LockedDue
  <2> QED
    BY <2>1, <1>2 DEF Due, Exists
<1>6. Counted'
  <2>1. Exists(s)'
    BY <1>1, <1>2 DEF Exists
  <2> QED
    BY <1>4, <2>1 DEF IInv, Counted
<1>7. NoMinuteLost'
  <2> SUFFICES ASSUME NEW r \in Ids, Exists(r)', ~paused'[r], NEW m \in Matching[r],
                      since'[r] <= m, m < next_run_at'[r]
               PROVE  occurrences'[r][m] # "none"
    BY DEF NoMinuteLost
  <2>1. m \in Nat
    BY SchedulesAssumption DEF Matching, Minutes
  <2>2. r # s
    BY <1>1, <1>2, <2>1
  <2> QED
    BY <1>2, <2>2 DEF IInv, NoMinuteLost, Exists
<1>8. OneExecution'
  BY DEF IInv, OneExecution
<1> QED
  BY <1>3, <1>5, <1>6, <1>7, <1>8, LocksUntouched DEF IInv

LEMMA CreateKeeps == ASSUME IInv, NEW s \in Ids, CreateSchedule(s) PROVE IInv'
<1>1. PICK t \in RequestClock : /\ next_run_at' = [next_run_at EXCEPT ![s] = NextRun(s, t)]
                                /\ since' = [since EXCEPT ![s] = NextRun(s, t)]
  BY DEF CreateSchedule
<1>2. t \in 0 .. Horizon
  BY SchedulesAssumption DEF RequestClock, IInv, TypeOK
<1>3. ~Locked(s) /\ paused \in [Ids -> BOOLEAN] /\ ~paused[s]
  BY LockedDue DEF CreateSchedule, Due, IInv, Counted, TypeOK
<1>4. /\ UNCHANGED <<now, occurrences, executions, open, worker, crashes, early>>
      /\ paused' = paused /\ stale' \in [Ids -> BOOLEAN]
  BY DEF CreateSchedule, IInv, TypeOK
<1> QED
  BY <1>1, <1>2, <1>3, <1>4, StartsAfresh

LEMMA ResumeKeeps == ASSUME IInv, NEW s \in Ids, ResumeSchedule(s) PROVE IInv'
<1>1. PICK t \in RequestClock : /\ next_run_at' = [next_run_at EXCEPT ![s] = NextRun(s, t)]
                                /\ since' = [since EXCEPT ![s] = NextRun(s, t)]
                                /\ stale' = [stale EXCEPT ![s] = t < now]
  BY DEF ResumeSchedule, ResumedAt
<1>2. t \in 0 .. Horizon
  BY SchedulesAssumption DEF RequestClock, IInv, TypeOK
<1>3. /\ ~Locked(s) /\ paused' \in [Ids -> BOOLEAN] /\ ~paused'[s]
      /\ \A r \in Ids : r # s => paused'[r] = paused[r]
  BY DEF ResumeSchedule, IInv, TypeOK
<1>4. UNCHANGED <<now, occurrences, executions, open, worker, crashes, early>>
  BY DEF ResumeSchedule
<1>5. stale' \in [Ids -> BOOLEAN]
  BY <1>1 DEF IInv, TypeOK
<1> QED
  BY <1>1, <1>2, <1>3, <1>4, <1>5, StartsAfresh

LEMMA PauseKeeps == ASSUME IInv, NEW s \in Ids, PauseSchedule(s) PROVE IInv'
<1>1. /\ paused' = [paused EXCEPT ![s] = TRUE] /\ paused \in [Ids -> BOOLEAN]
      /\ Exists(s) /\ ~Locked(s)
      /\ UNCHANGED <<now, next_run_at, occurrences, executions, open, worker, crashes, ghosts>>
  BY DEF PauseSchedule, IInv, TypeOK
<1>2. TypeOK'
  BY <1>1 DEF IInv, TypeOK, ghosts
<1>3. ASSUME NEW r \in Ids, Locked(r) PROVE Due(r)'
  <2>1. r # s /\ Due(r)
    BY <1>1, <1>3, LockedDue
  <2> QED
    BY <1>1, <2>1 DEF Due, Exists
<1>4. Counted' /\ OneExecution'
  BY <1>1 DEF IInv, Counted, OneExecution, Exists
<1>5. NoMinuteLost'
  BY <1>1 DEF IInv, NoMinuteLost, Exists, ghosts
<1>6. LocksHold'
  BY <1>1, <1>3, LocksUntouched
<1> QED
  BY <1>2, <1>4, <1>5, <1>6 DEF IInv

(***************************************************************************)
(* Starting occurrences.                                                   *)
(***************************************************************************)

Origins == {"due", "buffer", "backfill"}

\* An occurrence that has not been started has no execution yet, so the one
\* that starts it is the first.
LEMMA FirstExecution ==
  ASSUME IInv, NEW s \in Ids, NEW m \in Minutes, NEW by \in Origins,
         occurrences[s][m] # "started"
  PROVE  Execution(s, m, by) = [schedule |-> s, at |-> m, by |-> by, n |-> 0]
<1>1. {e \in executions : e.schedule = s /\ e.at = m} = {}
  BY DEF IInv, OneExecution
<1>2. Cardinality({e \in executions : e.schedule = s /\ e.at = m}) = 0
  BY <1>1, FS_EmptySet
<1> QED
  BY <1>2 DEF Execution

\* Occurrences that have not been started are marked started and started.
LEMMA StartKeeps ==
  ASSUME IInv, NEW s \in Ids, NEW M \in SUBSET Minutes, NEW by \in Origins, Start(s, M, by),
         \A m \in M : occurrences[s][m] # "started",
         \A r \in Ids, m \in Minutes :
           occurrences'[r][m] = "started" <=> occurrences[r][m] = "started" \/ (r = s /\ m \in M)
  PROVE  /\ OneExecution' /\ open' \subseteq executions'
         /\ executions' \in SUBSET [schedule : Ids, at : Minutes, n : Nat, by : Origins]
<1> DEFINE E(m) == [schedule |-> s, at |-> m, by |-> by, n |-> 0]
<1>1. \A m \in M : Execution(s, m, by) = E(m)
  BY FirstExecution
<1>2. /\ executions' = executions \cup {E(m) : m \in M}
      /\ open' = open \cup {E(m) : m \in M}
  BY <1>1 DEF Start
<1>3. /\ executions \in SUBSET [schedule : Ids, at : Minutes, n : Nat, by : Origins]
      /\ open \subseteq executions
  BY DEF IInv, TypeOK, Origins
<1>4. open' \subseteq executions'
  BY <1>2, <1>3
<1>5. \A m \in M : E(m) \in [schedule : Ids, at : Minutes, n : Nat, by : Origins]
  OBVIOUS
<1>6. executions' \in SUBSET [schedule : Ids, at : Minutes, n : Nat, by : Origins]
  BY <1>2, <1>3, <1>5
<1>7. ASSUME NEW e \in executions, NEW m \in M PROVE ~ (e.schedule = s /\ e.at = m)
  BY DEF IInv, OneExecution
<1>8. \A m \in M : E(m).schedule = s /\ E(m).at = m
  OBVIOUS
<1>9. ASSUME NEW e \in executions', NEW f \in executions', e.schedule = f.schedule, e.at = f.at
      PROVE  e = f
  <2>1. e \in executions \/ \E m \in M : e = E(m)
    BY <1>2
  <2>2. f \in executions \/ \E m \in M : f = E(m)
    BY <1>2
  <2>3. CASE e \in executions /\ f \in executions
    BY <1>9, <2>3 DEF IInv, OneExecution
  <2>4. CASE e \in executions /\ \E m \in M : f = E(m)
    BY <1>7, <1>8, <1>9, <2>4
  <2>5. CASE f \in executions /\ \E m \in M : e = E(m)
    BY <1>7, <1>8, <1>9, <2>5
  <2>6. CASE (\E m \in M : e = E(m)) /\ \E m \in M : f = E(m)
    BY <1>8, <1>9, <2>6
  <2> QED
    BY <2>1, <2>2, <2>3, <2>4, <2>5, <2>6
<1>10. ASSUME NEW r \in Ids, NEW m \in Minutes
       PROVE  occurrences'[r][m] = "started" <=> \E e \in executions' : e.schedule = r /\ e.at = m
  <2>1. occurrences[r][m] = "started" <=> \E e \in executions : e.schedule = r /\ e.at = m
    BY DEF IInv, OneExecution
  <2>2. (r = s /\ m \in M) <=> \E k \in M : E(k).schedule = r /\ E(k).at = m
    BY <1>8
  <2> HIDE DEF E
  <2>3. (\E e \in executions' : e.schedule = r /\ e.at = m)
        <=> \/ \E e \in executions : e.schedule = r /\ e.at = m
            \/ \E k \in M : E(k).schedule = r /\ E(k).at = m
    BY <1>2
  <2> QED
    BY <2>1, <2>2, <2>3
<1> QED
  BY <1>4, <1>6, <1>9, <1>10 DEF OneExecution

LEMMA BackfillKeeps ==
  ASSUME IInv, NEW s \in Ids, NEW first \in Minutes, NEW last \in Minutes,
         BackfillSchedule(s, first, last)
  PROVE  IInv'
<1> DEFINE fresh == {m \in {k \in Matching[s] : first <= k /\ k <= last} :
                       occurrences[s][m] = "none"}
<1>1. fresh \in SUBSET Minutes /\ \A m \in fresh : occurrences[s][m] = "none"
  BY DEF Matching
<1>2. /\ Exists(s) /\ ~Locked(s) /\ Start(s, fresh, "backfill")
      /\ occurrences' = [occurrences EXCEPT ![s] =
           [m \in Minutes |-> IF m \in fresh THEN "started" ELSE occurrences[s][m]]]
      /\ early' = early \cup {<<s, m>> : m \in {k \in fresh : ~Passed(s, k)}}
      /\ UNCHANGED <<now, next_run_at, paused, worker, crashes, since, stale>>
  BY DEF BackfillSchedule
<1> HIDE DEF fresh
<1>3. occurrences \in [Ids -> [Minutes -> {"none", "started", "skipped", "buffered"}]]
  BY DEF IInv, TypeOK
<1>4. occurrences' \in [Ids -> [Minutes -> {"none", "started", "skipped", "buffered"}]]
  BY <1>2, <1>3
<1>5. \A r \in Ids, m \in Minutes :
        occurrences'[r][m] = IF r = s /\ m \in fresh THEN "started" ELSE occurrences[r][m]
  BY <1>2, <1>3
<1>6. /\ OneExecution' /\ open' \subseteq executions'
      /\ executions' \in SUBSET [schedule : Ids, at : Minutes, n : Nat, by : Origins]
  <2>1. \A r \in Ids, m \in Minutes :
          occurrences'[r][m] = "started" <=> occurrences[r][m] = "started" \/ (r = s /\ m \in fresh)
    BY <1>5
  <2> QED
    BY <1>1, <1>2, <2>1, StartKeeps DEF Origins
<1>7. TypeOK'
  <2>1. early' \in SUBSET (Ids \X Minutes)
    BY <1>1, <1>2 DEF IInv, TypeOK
  <2> QED
    BY <1>2, <1>4, <1>6, <2>1 DEF IInv, TypeOK, Origins
<1>8. Counted'
  BY <1>2, <1>5 DEF IInv, Counted, Exists
<1>9. NoMinuteLost'
  <2>1. \A r \in Ids : Matching[r] \subseteq Minutes
    BY DEF Matching
  <2> QED
    BY <1>2, <1>5, <2>1 DEF IInv, NoMinuteLost, Exists
<1>10. \A r \in Ids : Locked(r) => Due(r)'
  BY <1>2, LockedDue DEF Due, Exists
<1> QED
  BY <1>2, <1>6, <1>7, <1>8, <1>9, <1>10, LocksUntouched DEF IInv

LEMMA CloseKeeps == ASSUME IInv, NEW e \in open, CloseExecution(e) PROVE IInv'
<1>1. /\ open' \subseteq open
      /\ UNCHANGED <<now, next_run_at, paused, occurrences, executions, worker, crashes, ghosts>>
  BY DEF CloseExecution
<1>2. TypeOK'
  BY <1>1 DEF IInv, TypeOK, ghosts
<1>3. Counted' /\ OneExecution' /\ NoMinuteLost'
  BY <1>1 DEF IInv, Counted, OneExecution, NoMinuteLost, Exists, ghosts
<1>4. \A r \in Ids : Locked(r) => Due(r)'
  BY <1>1, LockedDue DEF Due, Exists
<1> QED
  BY <1>1, <1>2, <1>3, <1>4, LocksUntouched DEF IInv

LEMMA StartBufferedKeeps == ASSUME IInv, NEW w \in Workers, StartBuffered(w) PROVE IInv'
<1>1. PICK c \in Lockable(w) : /\ Start(c[1], {c[2]}, "buffer")
                               /\ occurrences' = [occurrences EXCEPT ![c[1]][c[2]] = "started"]
  BY DEF StartBuffered
<1>2. /\ UNCHANGED <<now, next_run_at, paused, crashes, ghosts>>
      /\ worker' = [worker EXCEPT ![w] = Idle]
  BY DEF StartBuffered
<1>3. worker[w].seen \in SUBSET (Ids \X Minutes)
  BY DEF IInv, TypeOK, Transactions
<1>4. PICK s \in Ids, m \in Minutes : c = <<s, m>>
  BY <1>3 DEF Lockable
<1>5. /\ Start(s, {m}, "buffer") /\ occurrences' = [occurrences EXCEPT ![s][m] = "started"]
      /\ occurrences[s][m] = "buffered"
  BY <1>1, <1>4 DEF Lockable
<1>6. occurrences \in [Ids -> [Minutes -> {"none", "started", "skipped", "buffered"}]]
  BY DEF IInv, TypeOK
<1>7. occurrences' \in [Ids -> [Minutes -> {"none", "started", "skipped", "buffered"}]]
  BY <1>5, <1>6
<1>8. \A r \in Ids, k \in Minutes :
        occurrences'[r][k] = IF r = s /\ k = m THEN "started" ELSE occurrences[r][k]
  BY <1>5, <1>6
<1>9. /\ OneExecution' /\ open' \subseteq executions'
      /\ executions' \in SUBSET [schedule : Ids, at : Minutes, n : Nat, by : Origins]
  <2>1. \A r \in Ids, k \in Minutes :
          occurrences'[r][k] = "started" <=> occurrences[r][k] = "started" \/ (r = s /\ k \in {m})
    BY <1>8
  <2> QED
    BY <1>5, <2>1, StartKeeps DEF Origins
<1>10. TypeOK'
  BY <1>2, <1>7, <1>9, IdleTransaction DEF IInv, TypeOK, Origins, ghosts
<1>11. Counted'
  BY <1>2, <1>5, <1>8 DEF IInv, Counted, Exists
<1>12. NoMinuteLost'
  <2>1. \A r \in Ids : Matching[r] \subseteq Minutes
    BY DEF Matching
  <2> QED
    BY <1>2, <1>8, <2>1 DEF IInv, NoMinuteLost, Exists, ghosts
<1>13. \A r \in Ids : Locked(r) => Due(r)'
  BY <1>2, LockedDue DEF Due, Exists
<1>14. Idle.clock <= now /\ ~ (Idle.stage \in {"locked", "decided"})
  BY IdleTransaction, SchedulesAssumption DEF IInv, TypeOK
<1>15. LocksHold'
  BY <1>2, <1>13, <1>14, IdleTransaction, LocksKept
<1> QED
  BY <1>9, <1>10, <1>11, <1>12, <1>15 DEF IInv

\* The occurrence that was due is written and the schedule moves on.
LEMMA MaterializeKeeps ==
  ASSUME IInv, NEW w \in Workers, Materialize(w) PROVE IInv'
<1> DEFINE s == worker[w].schedule
           m == next_run_at[s]
           outcome == Outcome(s, worker[w].active)
           M == IF outcome = "started" THEN {m} ELSE {}
<1>1. /\ worker[w].stage = "decided" /\ worker' = [worker EXCEPT ![w] = Idle]
      /\ UNCHANGED <<now, paused, crashes, ghosts>>
  BY DEF Materialize
<1>2. worker[w] \in Transactions /\ crashes \in Nat
  BY DEF IInv, TypeOK
<1>3. s \in Ids /\ Due(s) /\ Owns(w, s)
  BY <1>1, <1>2 DEF Materialize, Owns, IInv, LocksHold, Transactions
<1>4. m \in Minutes /\ m \in 0 .. Horizon
  <2>1. m \in Nat /\ m # 0 /\ m <= now
    BY <1>3 DEF Due, Exists, IInv, TypeOK
  <2>2. now \in 0 .. Horizon
    BY DEF IInv, TypeOK
  <2> HIDE DEF m, s
  <2> QED
    BY <2>1, <2>2, SchedulesAssumption DEF Minutes
<1>5. outcome \in {"started", "skipped", "buffered"}
  BY DEF Outcome
<1>6. CASE occurrences[s][m] # "none"
  <2>1. UNCHANGED <<occurrences, executions, open, next_run_at>>
    BY <1>6 DEF Materialize
  <2>2. UNCHANGED tables
    BY <1>1, <2>1 DEF tables, ghosts
  <2> QED
    BY <1>1, <1>2, <2>2, GoesIdle
<1>7. CASE occurrences[s][m] = "none"
  <2> DEFINE n == NextRun(s, m)
  <2>1. /\ occurrences' = [occurrences EXCEPT ![s][m] = outcome]
        /\ Start(s, M, "due") /\ next_run_at' = [next_run_at EXCEPT ![s] = n]
    BY <1>7 DEF Materialize, NextAfter
  <2>2. n \in Nat /\ n > m /\ n # 0 /\ \A k \in Matching[s] : m < k => n <= k
    <3> HIDE DEF m, s
    <3>1. n \in Nat /\ n > m /\ \A k \in Matching[s] : m < k => n <= k
      BY <1>3, <1>4, NextRunIsNext
    <3> QED
      BY <1>4, <3>1, SchedulesAssumption
  <2> HIDE DEF n, outcome, m, s
  <2>3. occurrences \in [Ids -> [Minutes -> {"none", "started", "skipped", "buffered"}]]
    BY DEF IInv, TypeOK
  <2>4. occurrences' \in [Ids -> [Minutes -> {"none", "started", "skipped", "buffered"}]]
    BY <2>1, <2>3, <1>5
  <2>5. \A r \in Ids, k \in Minutes :
          occurrences'[r][k] = IF r = s /\ k = m THEN outcome ELSE occurrences[r][k]
    BY <1>3, <1>4, <2>1, <2>3
  <2>6. /\ OneExecution' /\ open' \subseteq executions'
        /\ executions' \in SUBSET [schedule : Ids, at : Minutes, n : Nat, by : Origins]
    <3>1. \A r \in Ids, k \in Minutes :
            occurrences'[r][k] = "started" <=> occurrences[r][k] = "started" \/ (r = s /\ k \in M)
      BY <1>7, <2>5
    <3>2. M \in SUBSET Minutes /\ \A k \in M : occurrences[s][k] # "started"
      BY <1>4, <1>7
    <3> QED
      BY <1>3, <2>1, <3>1, <3>2, StartKeeps DEF Origins
  <2>7. next_run_at \in [Ids -> Nat] /\ \A r \in Ids : next_run_at'[r] = IF r = s THEN n ELSE next_run_at[r]
    BY <2>1 DEF IInv, TypeOK
  <2>8. TypeOK'
    BY <1>1, <2>1, <2>2, <2>4, <2>6, IdleTransaction DEF IInv, TypeOK, Origins, ghosts
  <2>9. \A r \in Ids : Exists(r) => Exists(r)'
    BY <2>2, <2>7 DEF Exists
  <2>10. Exists(s)
    BY <1>3 DEF Due
  <2>11. Counted'
    BY <1>1, <2>5, <2>9, <2>10 DEF IInv, Counted
  <2>12. NoMinuteLost'
    <3> SUFFICES ASSUME NEW r \in Ids, Exists(r)', ~paused'[r], NEW k \in Matching[r],
                        since'[r] <= k, k < next_run_at'[r]
                 PROVE  occurrences'[r][k] # "none"
      BY DEF NoMinuteLost
    <3>1. k \in Minutes /\ k \in Nat
      BY SchedulesAssumption DEF Matching, Minutes
    <3>2. CASE r # s
      BY <1>1, <2>5, <2>7, <3>1, <3>2 DEF IInv, NoMinuteLost, Exists, ghosts
    <3>3. CASE r = s /\ k = m
      BY <1>5, <2>5, <3>1, <3>3
    <3>4. CASE r = s /\ k # m
      <4>1. k < n /\ m \in Nat /\ m = next_run_at[s]
        BY <1>3, <2>7, <3>4 DEF m
      <4>2. k < m
        BY <2>2, <3>1, <3>4, <4>1
      <4>3. ~paused[s] /\ since[s] <= k
        BY <1>1, <1>3, <3>4 DEF Due, ghosts
      <4> QED
        BY <2>5, <2>10, <3>1, <3>4, <4>1, <4>2, <4>3 DEF IInv, NoMinuteLost
    <3> QED
      BY <3>2, <3>3, <3>4
  <2>13. \A r \in Ids : Locked(r) /\ ~Owns(w, r) => Due(r)'
    <3> SUFFICES ASSUME NEW r \in Ids, Locked(r), ~Owns(w, r) PROVE Due(r)'
      OBVIOUS
    <3>1. r # s /\ Due(r)
      BY <1>3, LockedDue
    <3> QED
      BY <1>1, <2>7, <3>1 DEF Due, Exists
  <2>14. Idle.clock <= now /\ ~ (Idle.stage \in {"locked", "decided"})
    BY IdleTransaction, SchedulesAssumption DEF IInv, TypeOK
  <2>15. LocksHold'
    BY <1>1, <2>13, <2>14, IdleTransaction, LocksKept
  <2> QED
    BY <2>6, <2>8, <2>11, <2>12, <2>15 DEF IInv
<1> QED
  BY <1>6, <1>7

(***************************************************************************)
(* The theorems.                                                           *)
(***************************************************************************)

LEMMA NextIInv == ASSUME IInv, [Next]_vars PROVE IInv'
<1>1. ASSUME NEW s \in Ids, CreateSchedule(s) PROVE IInv'
  BY <1>1, CreateKeeps
<1>2. ASSUME NEW s \in Operated, OperatorStep(s) PROVE IInv'
  <2>1. s \in Ids
    BY SchedulesAssumption
  <2> QED
    BY <1>2, <2>1, PauseKeeps, ResumeKeeps, BackfillKeeps DEF OperatorStep
<1>3. ASSUME NEW w \in Workers, WorkerStep(w) PROVE IInv'
  <2>1. CASE NothingDue(w)
    <3>1. /\ worker' = [worker EXCEPT ![w] = Idle] /\ now' = now /\ UNCHANGED tables
          /\ crashes' \in Nat
      BY <2>1 DEF NothingDue, IInv, TypeOK
    <3> QED
      BY <3>1, GoesIdle
  <2> QED
    BY <1>3, <2>1, PollKeeps, StartBufferedKeeps, NothingBufferedKeeps, SelectDueKeeps,
       CheckActiveKeeps, MaterializeKeeps DEF WorkerStep
<1>4. ASSUME NEW w \in Workers, Crash(w) PROVE IInv'
  <2>1. /\ worker' = [worker EXCEPT ![w] = Idle] /\ now' = now /\ UNCHANGED tables
        /\ crashes' \in Nat
    BY <1>4 DEF Crash, IInv, TypeOK
  <2> QED
    BY <2>1, GoesIdle
<1>5. ASSUME NEW e \in open, CloseExecution(e) PROVE IInv'
  BY <1>5, CloseKeeps
<1>6. CASE Tick
  BY <1>6, TickKeeps
<1>7. CASE UNCHANGED vars
  <2>1. UNCHANGED tables /\ now' = now /\ worker' = worker /\ crashes' = crashes
    BY <1>7 DEF vars, tables
  <2>2. TypeOK'
    BY <2>1 DEF IInv, TypeOK, tables, ghosts
  <2>3. LocksHold'
    BY <2>1, LockedDue, LocksUntouched DEF Due, Exists, tables
  <2> QED
    BY <2>1, <2>2, <2>3, TablesKept DEF IInv
<1> QED
  BY <1>1, <1>2, <1>3, <1>4, <1>5, <1>6, <1>7 DEF Next

LEMMA Invariant == Spec => []IInv
<1>1. Init => IInv
  BY InitIInv
<1>2. IInv /\ [Next]_vars => IInv'
  BY NextIInv
<1> QED
  BY <1>1, <1>2, PTL DEF Spec

\* An occurrence of a schedule is run at most once and marked started exactly
\* when it has an execution, whatever workers, crashes and operators do.
THEOREM OccurrencesRunOnce == Spec => []OneExecution
<1>1. IInv => OneExecution
  BY DEF IInv
<1> QED
  BY <1>1, Invariant, PTL

\* materialize_due_schedule goes past no matching minute without an occurrence.
THEOREM NoOccurrenceIsMissed == Spec => []NoMinuteLost
<1>1. IInv => NoMinuteLost
  BY DEF IInv
<1> QED
  BY <1>1, Invariant, PTL

(***************************************************************************)
(* When the primary key of schedule_occurrences refuses a materialisation. *)
(***************************************************************************)

\* Occurrences were backfilled too early, or are in the past and behind the
\* schedule unless it is paused or was resumed by an old clock.
BehindAt(s, m) ==
  \/ <<s, m>> \in early
  \/ m <= now /\ (stale[s] \/ paused[s] \/ m < next_run_at[s])

Behind == \A s \in Ids, m \in Minutes : occurrences[s][m] # "none" => BehindAt(s, m)

LEMMA BehindKept ==
  ASSUME IInv, IInv', Behind, [Next]_vars PROVE Behind'
<1> SUFFICES ASSUME NEW r \in Ids, NEW k \in Minutes, occurrences'[r][k] # "none"
             PROVE  BehindAt(r, k)'
  BY DEF Behind
<1>1. /\ k \in Nat /\ now \in 0 .. Horizon /\ next_run_at \in [Ids -> Nat]
      /\ now \in Nat /\ next_run_at[r] \in Nat /\ paused \in [Ids -> BOOLEAN]
      /\ stale \in [Ids -> BOOLEAN]
      /\ occurrences \in [Ids -> [Minutes -> {"none", "started", "skipped", "buffered"}]]
  BY SchedulesAssumption DEF IInv, TypeOK, Minutes
<1>2. occurrences[r][k] # "none" => BehindAt(r, k)
  BY DEF Behind
\* What does not change what is said of the minute.
<1>s. ASSUME occurrences[r][k] # "none", early \subseteq early', now' = now, stale'[r] = stale[r],
             paused'[r] = paused[r], next_run_at'[r] = next_run_at[r]
      PROVE  BehindAt(r, k)'
  BY <1>2, <1>s DEF BehindAt
<1>3. ASSUME NEW s \in Ids, CreateSchedule(s) PROVE BehindAt(r, k)'
  <2>1. /\ occurrences' = occurrences /\ now' = now /\ paused' = paused
        /\ early' = early /\ stale' = stale
    BY <1>3 DEF CreateSchedule
  <2>2. r # s
    BY <1>3, <2>1 DEF CreateSchedule, IInv, Counted
  <2>3. next_run_at'[r] = next_run_at[r]
    BY <1>3, <2>2 DEF CreateSchedule
  <2> QED
    BY <1>s, <2>1, <2>3
<1>4. ASSUME NEW s \in Operated, OperatorStep(s)
      PROVE  BehindAt(r, k)'
  <2>1. CASE PauseSchedule(s)
    <3>1. /\ paused' = [paused EXCEPT ![s] = TRUE] /\ s \in Ids
          /\ UNCHANGED <<now, next_run_at, occurrences, early, stale>>
      BY <2>1, SchedulesAssumption DEF PauseSchedule, ghosts
    <3>2. paused'[r] \/ paused'[r] = paused[r]
      BY <1>1, <3>1
    <3> QED
      BY <1>2, <3>1, <3>2 DEF BehindAt
  <2>2. CASE ResumeSchedule(s)
    <3>1. PICK t \in RequestClock :
            /\ next_run_at' = [next_run_at EXCEPT ![s] = NextRun(s, t)]
            /\ stale' = [stale EXCEPT ![s] = t < now]
      BY <2>2 DEF ResumeSchedule, ResumedAt
    <3>2. t \in 0 .. now
      BY DEF RequestClock
    <3>3. /\ occurrences' = occurrences /\ now' = now /\ paused' = [paused EXCEPT ![s] = FALSE]
          /\ early' = early
      BY <2>2 DEF ResumeSchedule
    <3>4. CASE r # s
      <4>1. stale'[r] = stale[r] /\ paused'[r] = paused[r] /\ next_run_at'[r] = next_run_at[r]
        BY <1>1, <3>1, <3>3, <3>4
      <4> QED
        BY <1>s, <3>3, <4>1
    <3>5. CASE r = s
      <4>1. <<r, k>> \in early \/ k <= now
        BY <1>2, <3>3 DEF BehindAt
      <4>2. CASE t = now
        <5>1. next_run_at'[r] = NextRun(s, now)
          BY <1>1, <3>1, <3>5, <4>2
        <5>2. NextRun(s, now) \in Nat /\ NextRun(s, now) > now
          BY <1>1, <3>5, NextRunIsNext
        <5>3. k <= now => k < next_run_at'[r]
          BY <1>1, <5>1, <5>2
        <5> QED
          BY <3>3, <4>1, <5>3 DEF BehindAt
      <4>3. CASE t # now
        <5>1. t < now
          BY <1>1, <3>2, <4>3
        <5>2. stale'[r] = (t < now)
          BY <1>1, <3>1, <3>5
        <5> QED
          BY <3>3, <4>1, <5>1, <5>2 DEF BehindAt
      <4> QED
        BY <4>2, <4>3
    <3> QED
      BY <3>4, <3>5
  <2>3. ASSUME NEW first \in Minutes, NEW last \in Minutes, BackfillSchedule(s, first, last)
        PROVE  BehindAt(r, k)'
    <3> DEFINE fresh == {m \in {j \in Matching[s] : first <= j /\ j <= last} :
                           occurrences[s][m] = "none"}
    <3>1. /\ occurrences' = [occurrences EXCEPT ![s] =
               [m \in Minutes |-> IF m \in fresh THEN "started" ELSE occurrences[s][m]]]
          /\ early' = early \cup {<<s, m>> : m \in {n \in fresh : ~Passed(s, n)}}
          /\ now' = now /\ paused' = paused /\ next_run_at' = next_run_at /\ stale' = stale
      BY <2>3 DEF BackfillSchedule
    <3>2. CASE occurrences[r][k] # "none"
      BY <1>s, <3>1, <3>2
    <3>3. CASE occurrences[r][k] = "none"
      <4>1. r = s /\ k \in fresh
        BY <1>1, <3>1, <3>3
      <4> HIDE DEF fresh
      <4>2. <<r, k>> \in early' \/ Passed(r, k)
        BY <3>1, <4>1
      <4> QED
        BY <3>1, <4>2 DEF Passed, BehindAt
    <3> QED
      BY <3>2, <3>3
  <2> QED
    BY <1>4, <2>1, <2>2, <2>3 DEF OperatorStep
<1>5. ASSUME NEW w \in Workers, WorkerStep(w) \/ Crash(w)
      PROVE  BehindAt(r, k)'
  <2>1. CASE \/ Poll(w) \/ NothingBuffered(w) \/ SelectDue(w) \/ NothingDue(w)
             \/ CheckActive(w) \/ Crash(w)
    <3>1. now' = now /\ UNCHANGED tables
      BY <2>1 DEF Poll, NothingBuffered, SelectDue, NothingDue, CheckActive, Crash
    <3> QED
      BY <1>s, <3>1 DEF tables, ghosts
  <2>2. CASE StartBuffered(w)
    <3>1. PICK c \in Lockable(w) : occurrences' = [occurrences EXCEPT ![c[1]][c[2]] = "started"]
      BY <2>2 DEF StartBuffered
    <3>2. /\ now' = now /\ paused' = paused /\ next_run_at' = next_run_at
          /\ early' = early /\ stale' = stale
      BY <2>2 DEF StartBuffered, ghosts
    <3>3. worker[w].seen \in SUBSET (Ids \X Minutes)
      BY DEF IInv, TypeOK, Transactions
    <3>4. c[1] \in Ids /\ c[2] \in Minutes /\ occurrences[c[1]][c[2]] = "buffered"
      BY <3>3 DEF Lockable
    <3>5. occurrences[r][k] # "none"
      BY <1>1, <3>1, <3>4
    <3> QED
      BY <1>s, <3>2, <3>5
  <2>3. CASE Materialize(w)
    <3> DEFINE s == worker[w].schedule
               m == next_run_at[s]
    <3>1. s \in Ids /\ Due(s)
      BY <2>3 DEF Materialize, Owns, IInv, LocksHold
    <3>2. /\ m \in Nat /\ m <= now /\ now' = now /\ paused' = paused
          /\ early' = early /\ stale' = stale
      BY <2>3, <3>1 DEF Materialize, Due, IInv, TypeOK, ghosts
    <3>3. CASE occurrences[s][m] # "none"
      <4>1. occurrences' = occurrences /\ next_run_at' = next_run_at
        BY <2>3, <3>3 DEF Materialize
      <4> QED
        BY <1>s, <3>2, <4>1
    <3>4. CASE occurrences[s][m] = "none"
      <4>1. PICK o : occurrences' = [occurrences EXCEPT ![s][m] = o]
        BY <2>3, <3>4 DEF Materialize
      <4>2. next_run_at' = [next_run_at EXCEPT ![s] = NextRun(s, m)]
        BY <2>3, <3>4 DEF Materialize, NextAfter
      <4>3. NextRun(s, m) \in Nat /\ NextRun(s, m) > m
        <5>1. m \in 0 .. Horizon
          BY <1>1, <3>2, SchedulesAssumption
        <5> HIDE DEF m, s
        <5> QED
          BY <3>1, <5>1, NextRunIsNext
      <4>4. CASE r # s
        <5>1. occurrences[r][k] # "none" /\ next_run_at'[r] = next_run_at[r]
          BY <1>1, <3>1, <4>1, <4>2, <4>4
        <5> QED
          BY <1>s, <3>2, <5>1
      <4>5. CASE r = s /\ k = m
        <5>1. k < next_run_at'[r] /\ k <= now'
          BY <1>1, <3>1, <3>2, <4>2, <4>3, <4>5
        <5> QED
          BY <5>1 DEF BehindAt
      <4>6. CASE r = s /\ k # m
        <5>1. occurrences[r][k] # "none"
          BY <1>1, <3>1, <4>1, <4>6
        <5>2. k < next_run_at[r] => k < next_run_at'[r]
          BY <1>1, <3>1, <3>2, <4>2, <4>3, <4>6
        <5> QED
          BY <1>2, <3>2, <5>1, <5>2 DEF BehindAt
      <4> QED
        BY <4>4, <4>5, <4>6
    <3> QED
      BY <3>3, <3>4
  <2> QED
    BY <1>5, <2>1, <2>2, <2>3 DEF WorkerStep
<1>6. ASSUME NEW e \in open, CloseExecution(e)
      PROVE  BehindAt(r, k)'
  BY <1>s, <1>6 DEF CloseExecution, ghosts
<1>7. CASE Tick
  <2>1. now' = now + 1 /\ UNCHANGED tables
    BY <1>7 DEF Tick
  <2>2. k <= now => k <= now'
    BY <1>1, <2>1
  <2> QED
    BY <1>2, <2>1, <2>2 DEF tables, ghosts, BehindAt
<1>8. CASE UNCHANGED vars
  BY <1>s, <1>8 DEF vars, tables, ghosts
<1> QED
  BY <1>3, <1>4, <1>5, <1>6, <1>7, <1>8 DEF Next

\* A schedule is wedged only by a backfill of a minute it had not come to or
\* by a resumption with an old clock, for any schedules, workers, requests and
\* any lag of clocks: nothing else that happens can bring it there.
THEOREM NeverWedged == Spec => []NoCollision
<1>1. Init => Behind
  BY SchedulesAssumption DEF Init, Behind
<1>2. IInv /\ IInv' /\ Behind /\ [Next]_vars => Behind'
  BY BehindKept
<1>3. ASSUME IInv, Behind, NEW s \in Ids, Wedged(s)
      PROVE  stale[s] \/ <<s, next_run_at[s]>> \in early
  <2>1. ~paused[s] /\ next_run_at[s] \in Minutes /\ next_run_at[s] \in Nat
    BY <1>3 DEF Wedged, IInv, TypeOK
  <2>2. BehindAt(s, next_run_at[s])
    BY <1>3, <2>1 DEF Wedged, Behind
  <2>3. ~ (next_run_at[s] < next_run_at[s])
    BY <2>1
  <2> QED
    BY <2>1, <2>2, <2>3 DEF BehindAt
<1>4. IInv /\ Behind => NoCollision
  BY <1>3 DEF NoCollision
<1> QED
  BY <1>1, <1>2, <1>4, Invariant, PTL DEF Spec

(***************************************************************************)
(* Overlap.                                                                *)
(***************************************************************************)

AtMostOne(S) == \A e, f \in S : e = f
AtMostTwo(S) == \A e, f, g \in S : e = f \/ f = g \/ e = g

\* The worker has found no open execution of the schedule it has locked.
FoundNone(w, s) ==
  worker[w].stage = "decided" /\ worker[w].schedule = s /\ ~worker[w].active

\* What a worker has found is still so, because the row of the schedule is
\* locked; what it has only selected is not, but then only one execution has
\* been started since, for the occurrence is still buffered and no other can be.
OverlapOK(s) ==
  /\ AtMostOne(Buffered(s)) /\ (Buffered(s) # {} => Policy[s] = "buffer_one")
  /\ \A w \in Workers : FoundNone(w, s) => ~Active(s)
  /\ \A w \in Workers, m \in Minutes : <<s, m>> \in worker[w].seen =>
       /\ occurrences[s][m] # "none"
       /\ occurrences[s][m] = "buffered" => AtMostOne(RunningOf(s))
  /\ Policy[s] = "skip" => AtMostOne(RunningOf(s))
  /\ Policy[s] = "buffer_one" => AtMostTwo(RunningOf(s))

\* Workers learn of s only what is true.
WorkersHonest(s) ==
  \A w \in Workers :
    /\ FoundNone(w, s)' => FoundNone(w, s) \/ ~Active(s)
    /\ \A m \in Minutes : <<s, m>> \in worker'[w].seen =>
         <<s, m>> \in worker[w].seen \/ (occurrences[s][m] = "buffered" /\ ~Active(s))

\* A step that starts nothing of s.
LEMMA NothingStarted ==
  ASSUME NEW s \in Ids, OverlapOK(s), WorkersHonest(s), occurrences'[s] = occurrences[s],
         \A e \in open' : e.schedule = s => e \in open
  PROVE  OverlapOK(s)'
<1>1. Buffered(s)' = Buffered(s)
  BY DEF Buffered
<1>2. RunningOf(s)' \subseteq RunningOf(s) /\ (Active(s)' => Active(s))
  BY DEF RunningOf, Active
<1>3. ~Active(s) => RunningOf(s) = {}
  BY DEF RunningOf, Active
<1>4. /\ AtMostOne(RunningOf(s)) => AtMostOne(RunningOf(s)')
      /\ AtMostTwo(RunningOf(s)) => AtMostTwo(RunningOf(s)')
      /\ RunningOf(s) = {} => AtMostOne(RunningOf(s))
  BY <1>2 DEF AtMostOne, AtMostTwo
<1>5. \A w \in Workers : FoundNone(w, s)' => ~Active(s)'
  BY <1>2 DEF OverlapOK, WorkersHonest
<1>6. \A w \in Workers, m \in Minutes : <<s, m>> \in worker'[w].seen =>
        /\ occurrences'[s][m] # "none"
        /\ occurrences'[s][m] = "buffered" => AtMostOne(RunningOf(s)')
  BY <1>3, <1>4 DEF OverlapOK, WorkersHonest
<1>7. /\ Policy[s] = "skip" => AtMostOne(RunningOf(s)')
      /\ Policy[s] = "buffer_one" => AtMostTwo(RunningOf(s)')
      /\ AtMostOne(Buffered(s)') /\ (Buffered(s)' # {} => Policy[s] = "buffer_one")
  BY <1>1, <1>4 DEF OverlapOK
<1> QED
  BY <1>5, <1>6, <1>7 DEF OverlapOK, AtMostOne, AtMostTwo

\* Worker w moves on to r.
LEMMA WorkerLearns ==
  ASSUME IInv, NEW s \in Ids, NEW w \in Workers, NEW r, worker' = [worker EXCEPT ![w] = r],
         r.stage = "decided" /\ r.schedule = s /\ ~r.active => ~Active(s),
         \A m \in Minutes : <<s, m>> \in r.seen =>
           <<s, m>> \in worker[w].seen \/ (occurrences[s][m] = "buffered" /\ ~Active(s))
  PROVE  WorkersHonest(s)
<1>1. worker'[w] = r /\ \A v \in Workers \ {w} : worker'[v] = worker[v]
  BY DEF IInv, TypeOK
<1> QED
  BY <1>1 DEF WorkersHonest, FoundNone

\* A worker that goes idle knows nothing.
LEMMA WorkerForgets ==
  ASSUME IInv, NEW s \in Ids, NEW w \in Workers, worker' = [worker EXCEPT ![w] = Idle]
  PROVE  WorkersHonest(s)
<1>1. Idle.stage # "decided" /\ Idle.seen = {}
  BY DEF Idle
<1> QED
  BY <1>1, WorkerLearns

\* Steps of a worker that only read.
LEMMA ReadingLearns ==
  ASSUME IInv, NEW w \in Workers,
         \/ Poll(w) \/ NothingBuffered(w) \/ SelectDue(w) \/ NothingDue(w)
         \/ CheckActive(w) \/ Crash(w),
         NEW s \in Ids
  PROVE  WorkersHonest(s)
<1>0. worker[w] \in Transactions /\ worker \in [Workers -> Transactions]
  BY DEF IInv, TypeOK
<1>1. CASE Poll(w)
  <2> DEFINE r == [stage |-> IF Startable = {} THEN "due" ELSE "buffered", clock |-> now,
                   seen |-> Startable, schedule |-> 0, active |-> FALSE]
  <2>1. worker' = [worker EXCEPT ![w] = r]
    BY <1>1 DEF Poll
  <2>2. r.stage # "decided" /\ r.seen = Startable
    OBVIOUS
  <2>3. \A m \in Minutes : <<s, m>> \in Startable => occurrences[s][m] = "buffered" /\ ~Active(s)
    BY DEF Startable, Buffered
  <2> HIDE DEF r
  <2> QED
    BY <2>1, <2>2, <2>3, WorkerLearns
<1>2. CASE NothingBuffered(w)
  <2> DEFINE r == [worker[w] EXCEPT !.stage = "due", !.seen = {}]
  <2>1. worker' = [worker EXCEPT ![w] = r]
    BY <1>0, <1>2 DEF NothingBuffered, Transactions
  <2>2. r.stage # "decided" /\ r.seen = {}
    BY <1>0 DEF Transactions
  <2> HIDE DEF r
  <2> QED
    BY <2>1, <2>2, WorkerLearns
<1>3. CASE SelectDue(w)
  <2>1. PICK d \in DueSchedules(w) : worker' = [worker EXCEPT ![w] =
          [stage |-> "locked", clock |-> 0, seen |-> {}, schedule |-> d, active |-> FALSE]]
    BY <1>3 DEF SelectDue
  <2> DEFINE r == [stage |-> "locked", clock |-> 0, seen |-> {}, schedule |-> d, active |-> FALSE]
  <2>2. worker' = [worker EXCEPT ![w] = r] /\ r.stage = "locked" /\ r.seen = {}
    BY <2>1
  <2> HIDE DEF r
  <2> QED
    BY <2>2, WorkerLearns
<1>4. CASE NothingDue(w) \/ Crash(w)
  BY <1>4, WorkerForgets DEF NothingDue, Crash
<1>5. CASE CheckActive(w)
  <2> DEFINE r == [worker[w] EXCEPT !.stage = "decided", !.active = Active(worker[w].schedule)]
  <2>1. worker' = [worker EXCEPT ![w] = r]
    BY <1>0, <1>5 DEF CheckActive, Transactions
  <2>2. r.active = Active(worker[w].schedule) /\ r.schedule = worker[w].schedule
        /\ r.seen = worker[w].seen
    BY <1>0 DEF Transactions
  <2> HIDE DEF r
  <2> QED
    BY <2>1, <2>2, WorkerLearns
<1> QED
  BY <1>1, <1>2, <1>3, <1>4, <1>5

\* A schedule that is not locked has no worker that has looked for executions.
LEMMA UnlockedUndecided ==
  ASSUME NEW s, ~Locked(s), NEW w \in Workers PROVE ~FoundNone(w, s)
  BY DEF Locked, FoundNone

\* A backfill does not count.
LEMMA BackfillOverlap ==
  ASSUME IInv, NEW s \in Ids, NEW first, NEW last, BackfillSchedule(s, first, last),
         NEW r \in Ids, OverlapOK(r)
  PROVE  OverlapOK(r)'
<1> DEFINE times == {m \in Matching[s] : first <= m /\ m <= last}
           fresh == {m \in times : occurrences[s][m] = "none"}
           E(m) == Execution(s, m, "backfill")
<1>1. /\ ~Locked(s) /\ worker' = worker
      /\ occurrences' = [occurrences EXCEPT ![s] =
           [m \in Minutes |-> IF m \in fresh THEN "started" ELSE occurrences[s][m]]]
      /\ open' = open \cup {E(m) : m \in fresh}
  BY DEF BackfillSchedule, Start
<1>2. \A m : E(m).schedule = s /\ E(m).by = "backfill"
  BY DEF Execution
<1>3. occurrences \in [Ids -> [Minutes -> {"none", "started", "skipped", "buffered"}]]
  BY DEF IInv, TypeOK
<1> HIDE DEF E, times
<1>4. CASE r # s
  <2>1. occurrences'[r] = occurrences[r] /\ \A e \in open' : e.schedule = r => e \in open
    BY <1>1, <1>2, <1>3, <1>4
  <2>2. WorkersHonest(r)
    BY <1>1 DEF WorkersHonest, FoundNone
  <2> QED
    BY <2>1, <2>2, NothingStarted
<1>5. CASE r = s
  <2>1. \A m \in Minutes :
          \/ occurrences'[s][m] = occurrences[s][m]
          \/ occurrences[s][m] = "none" /\ occurrences'[s][m] = "started"
    BY <1>1, <1>3
  <2>2. Buffered(s)' = Buffered(s)
    BY <2>1 DEF Buffered
  <2>3. RunningOf(s)' = RunningOf(s)
    BY <1>1, <1>2 DEF RunningOf
  <2>4. \A w \in Workers : ~FoundNone(w, s)'
    BY <1>1, UnlockedUndecided DEF FoundNone
  <2>5. \A w \in Workers, m \in Minutes : <<s, m>> \in worker'[w].seen =>
          /\ occurrences'[s][m] # "none"
          /\ occurrences'[s][m] = "buffered" => AtMostOne(RunningOf(s)')
    BY <1>1, <1>5, <2>1, <2>3 DEF OverlapOK
  <2> QED
    BY <1>5, <2>2, <2>3, <2>4, <2>5 DEF OverlapOK, AtMostOne, AtMostTwo
<1> QED
  BY <1>4, <1>5

\* One more execution.
LEMMA OneMoreRuns ==
  ASSUME NEW s, NEW e, open' = open \cup {e}
  PROVE  /\ AtMostOne(RunningOf(s)) => AtMostTwo(RunningOf(s)')
         /\ RunningOf(s) = {} => AtMostOne(RunningOf(s)') /\ AtMostTwo(RunningOf(s)')
<1>1. RunningOf(s)' \subseteq RunningOf(s) \cup {e}
  BY DEF RunningOf
<1> QED
  BY <1>1 DEF AtMostOne, AtMostTwo

\* A buffered occurrence is started although another execution may have been
\* started since the snapshot; no third one.
LEMMA BufferOverlap ==
  ASSUME IInv, NEW w \in Workers, StartBuffered(w), NEW r \in Ids, OverlapOK(r)
  PROVE  OverlapOK(r)'
<1>1. PICK c \in Lockable(w) : /\ Start(c[1], {c[2]}, "buffer")
                               /\ occurrences' = [occurrences EXCEPT ![c[1]][c[2]] = "started"]
  BY DEF StartBuffered
<1>2. worker[w].seen \in SUBSET (Ids \X Minutes)
  BY DEF IInv, TypeOK, Transactions
<1>3. PICK s \in Ids, m \in Minutes : c = <<s, m>>
  BY <1>2 DEF Lockable
<1> DEFINE e == Execution(s, m, "buffer")
<1>4. /\ open' = open \cup {e} /\ occurrences' = [occurrences EXCEPT ![s][m] = "started"]
      /\ occurrences[s][m] = "buffered" /\ ~Locked(s) /\ <<s, m>> \in worker[w].seen
      /\ worker' = [worker EXCEPT ![w] = Idle]
  <2>1. Start(s, {m}, "buffer") /\ occurrences' = [occurrences EXCEPT ![s][m] = "started"]
    BY <1>1, <1>3
  <2>2. occurrences[s][m] = "buffered" /\ ~Locked(s) /\ <<s, m>> \in worker[w].seen
    BY <1>3 DEF Lockable
  <2>3. worker' = [worker EXCEPT ![w] = Idle]
    BY DEF StartBuffered
  <2>4. open' = open \cup {e}
    BY <2>1 DEF Start
  <2> QED
    BY <2>1, <2>2, <2>3, <2>4
<1>5. e.schedule = s
  BY DEF Execution
<1>6. occurrences \in [Ids -> [Minutes -> {"none", "started", "skipped", "buffered"}]]
  BY DEF IInv, TypeOK
<1>7. WorkersHonest(r)
  BY <1>4, WorkerForgets
<1> HIDE DEF e
<1>8. CASE r # s
  <2>1. occurrences'[r] = occurrences[r] /\ \A f \in open' : f.schedule = r => f \in open
    BY <1>4, <1>5, <1>6, <1>8
  <2> QED
    BY <1>7, <2>1, NothingStarted
<1>9. CASE r = s
  <2>1. \A k \in Minutes : occurrences'[s][k] = IF k = m THEN "started" ELSE occurrences[s][k]
    BY <1>4, <1>6
  <2>2. Buffered(s) = {m} /\ Policy[s] = "buffer_one"
    BY <1>4, <1>9 DEF Buffered, OverlapOK, AtMostOne
  <2>3. Buffered(s)' = {}
    BY <2>1, <2>2 DEF Buffered
  <2>4. AtMostTwo(RunningOf(s)')
    BY <1>4, <1>9, OneMoreRuns DEF OverlapOK
  <2>5. \A v \in Workers : ~FoundNone(v, s)'
    <3>1. Idle.stage # "decided"
      BY DEF Idle
    <3>2. \A v \in Workers : worker'[v] = worker[v] \/ worker'[v] = Idle
      BY <1>4 DEF IInv, TypeOK
    <3> QED
      BY <1>4, <3>1, <3>2, UnlockedUndecided DEF FoundNone
  <2>6. \A v \in Workers, k \in Minutes : <<s, k>> \in worker'[v].seen =>
          occurrences'[s][k] # "none" /\ occurrences'[s][k] # "buffered"
    <3>1. \A v \in Workers, k \in Minutes : <<s, k>> \in worker'[v].seen => occurrences[s][k] # "none"
      BY <1>7, <1>9 DEF WorkersHonest, OverlapOK
    <3> QED
      BY <2>1, <2>3, <3>1 DEF Buffered
  <2> QED
    BY <1>9, <2>2, <2>3, <2>4, <2>5, <2>6 DEF OverlapOK, AtMostOne
<1> QED
  BY <1>8, <1>9

\* An occurrence that was due is started only if nothing of the schedule runs.
LEMMA MaterializeOverlap ==
  ASSUME IInv, NEW w \in Workers, Materialize(w), NEW r \in Ids, OverlapOK(r)
  PROVE  OverlapOK(r)'
<1>1. /\ worker[w].stage = "decided" /\ worker' = [worker EXCEPT ![w] = Idle]
      /\ worker[w].schedule \in Ids /\ worker[w].active \in BOOLEAN
      /\ Owns(w, worker[w].schedule) /\ Due(worker[w].schedule)
  BY DEF Materialize, Owns, IInv, LocksHold, TypeOK, Transactions
<1>0. PICK s, active, m, outcome :
        /\ s \in Ids /\ active \in BOOLEAN
        /\ s = worker[w].schedule /\ active = worker[w].active
        /\ m = next_run_at[s] /\ outcome = Outcome(s, active)
  BY <1>1
<1> DEFINE M == IF outcome = "started" THEN {m} ELSE {}
           E(k) == Execution(s, k, "due")
<1>2. s \in Ids /\ active \in BOOLEAN /\ Owns(w, s) /\ Due(s)
  BY <1>0, <1>1
<1>3. WorkersHonest(r)
  BY <1>1, WorkerForgets
<1>4. CASE occurrences[s][m] # "none"
  <2>1. UNCHANGED <<occurrences, open>>
    BY <1>0, <1>4 DEF Materialize
  <2> QED
    BY <1>3, <2>1, NothingStarted
<1>5. CASE occurrences[s][m] = "none"
  <2>1. /\ occurrences' = [occurrences EXCEPT ![s][m] = outcome]
        /\ open' = open \cup {E(k) : k \in M}
    BY <1>0, <1>5 DEF Materialize, Start
  <2>2. occurrences \in [Ids -> [Minutes -> {"none", "started", "skipped", "buffered"}]]
    BY DEF IInv, TypeOK
  <2>3. \A k : E(k).schedule = s
    BY DEF Execution
  <2>4. m \in Minutes
    <3>1. m \in Nat /\ m # 0 /\ m <= now /\ now \in 0 .. Horizon
      BY <1>0, <1>2 DEF Due, Exists, IInv, TypeOK
    <3> QED
      BY <3>1, SchedulesAssumption DEF Minutes
  <2>5. /\ outcome = "started" \/ outcome = "skipped" \/ outcome = "buffered"
        /\ outcome = "started" => Policy[s] = "allow" \/ ~active
        /\ outcome = "buffered" => Policy[s] = "buffer_one" /\ Buffered(s) = {}
    BY <1>0 DEF Outcome
  <2>6. ~active => FoundNone(w, s)
    BY <1>0, <1>1 DEF FoundNone
  <2>7. \A v \in Workers : ~FoundNone(v, s)'
    <3>1. Idle.stage # "decided"
      BY DEF Idle
    <3>2. worker'[w] = Idle /\ \A v \in Workers \ {w} : worker'[v] = worker[v]
      BY <1>1 DEF IInv, TypeOK
    <3>3. \A v \in Workers \ {w} : ~FoundNone(v, s)
      BY <1>2 DEF IInv, LocksHold, Owns, FoundNone
    <3> QED
      BY <3>1, <3>2, <3>3 DEF FoundNone
  <2> HIDE DEF E
  <2>8. CASE r # s
    <3>1. occurrences'[r] = occurrences[r]
      BY <1>2, <2>1, <2>2, <2>8
    <3>2. \A e \in open' : e.schedule = r => e \in open
      BY <2>1, <2>3, <2>8
    <3> QED
      BY <1>3, <3>1, <3>2, NothingStarted
  <2>9. CASE r = s
    <3>1. \A k \in Minutes : occurrences'[s][k] = IF k = m THEN outcome ELSE occurrences[s][k]
      BY <1>2, <2>1, <2>2, <2>4
    <3>2. Buffered(s)' = IF outcome = "buffered" THEN {m} ELSE Buffered(s)
      BY <1>5, <2>4, <2>5, <3>1 DEF Buffered
    <3>3. /\ AtMostOne(Buffered(s)')
          /\ Buffered(s)' # {} => Policy[s] = "buffer_one"
      BY <2>5, <2>9, <3>2 DEF OverlapOK, AtMostOne
    <3>4. outcome = "started" => open' = open \cup {E(m)}
      BY <2>1
    <3>5. outcome # "started" => open' = open
      BY <2>1
    <3>6. ~Active(s) => RunningOf(s) = {}
      BY DEF Active, RunningOf
    <3>7. Policy[s] # "allow" =>
            \/ RunningOf(s)' = RunningOf(s)
            \/ AtMostOne(RunningOf(s)') /\ AtMostTwo(RunningOf(s)')
      <4>1. CASE outcome # "started"
        BY <3>5, <4>1 DEF RunningOf
      <4>2. CASE outcome = "started"
        BY <2>5, <2>6, <2>9, <3>4, <3>6, <4>2, OneMoreRuns DEF OverlapOK
      <4> QED
        BY <4>1, <4>2
    <3>8. \A v \in Workers, k \in Minutes : <<s, k>> \in worker'[v].seen =>
            /\ occurrences[s][k] # "none"
            /\ occurrences[s][k] = "buffered" => AtMostOne(RunningOf(s)) /\ Policy[s] = "buffer_one"
      <4>1. RunningOf(s) = {} => AtMostOne(RunningOf(s))
        BY DEF AtMostOne
      <4> QED
        BY <1>3, <2>9, <3>6, <4>1 DEF WorkersHonest, OverlapOK, Buffered
    <3>9. \A v \in Workers, k \in Minutes : <<s, k>> \in worker'[v].seen =>
            /\ occurrences'[s][k] # "none"
            /\ occurrences'[s][k] = "buffered" => AtMostOne(RunningOf(s)')
      BY <1>5, <3>1, <3>7, <3>8
    <3>10. /\ Policy[s] = "skip" => AtMostOne(RunningOf(s)')
           /\ Policy[s] = "buffer_one" => AtMostTwo(RunningOf(s)')
      BY <2>9, <3>7 DEF OverlapOK
    <3> QED
      BY <2>7, <2>9, <3>3, <3>9, <3>10 DEF OverlapOK, AtMostOne, AtMostTwo
  <2> QED
    BY <2>8, <2>9
<1> QED
  BY <1>4, <1>5

OverlapInv == \A s \in Ids : OverlapOK(s)

LEMMA OverlapStep == ASSUME IInv, OverlapInv, [Next]_vars PROVE OverlapInv'
<1> SUFFICES ASSUME NEW r \in Ids PROVE OverlapOK(r)'
  BY DEF OverlapInv
<1>0. OverlapOK(r)
  BY DEF OverlapInv
<1>1. ASSUME UNCHANGED <<occurrences, worker>>, open' \subseteq open PROVE OverlapOK(r)'
  BY <1>0, <1>1, NothingStarted DEF WorkersHonest, FoundNone
<1>2. ASSUME NEW s \in Ids, CreateSchedule(s) \/ PauseSchedule(s) \/ ResumeSchedule(s)
      PROVE  OverlapOK(r)'
  BY <1>1, <1>2 DEF CreateSchedule, PauseSchedule, ResumeSchedule
<1>3. ASSUME NEW s \in Operated, OperatorStep(s) PROVE OverlapOK(r)'
  <2>1. s \in Ids
    BY SchedulesAssumption
  <2> QED
    BY <1>0, <1>2, <1>3, <2>1, BackfillOverlap DEF OperatorStep
<1>4. ASSUME NEW w \in Workers, WorkerStep(w) \/ Crash(w) PROVE OverlapOK(r)'
  <2>1. CASE \/ Poll(w) \/ NothingBuffered(w) \/ SelectDue(w) \/ NothingDue(w)
             \/ CheckActive(w) \/ Crash(w)
    <3>1. UNCHANGED tables
      BY <2>1 DEF Poll, NothingBuffered, SelectDue, NothingDue, CheckActive, Crash
    <3>2. WorkersHonest(r)
      BY <2>1, ReadingLearns
    <3> QED
      BY <1>0, <3>1, <3>2, NothingStarted DEF tables
  <2> QED
    BY <1>0, <1>4, <2>1, BufferOverlap, MaterializeOverlap DEF WorkerStep
<1>5. ASSUME NEW e \in open, CloseExecution(e) PROVE OverlapOK(r)'
  BY <1>1, <1>5 DEF CloseExecution
<1>6. CASE Tick \/ UNCHANGED vars
  BY <1>1, <1>6 DEF Tick, tables, vars
<1> QED
  BY <1>2, <1>3, <1>4, <1>5, <1>6 DEF Next

\* Sets of at most one or two elements.
LEMMA FewElements ==
  ASSUME NEW S
  PROVE  /\ AtMostOne(S) => Cardinality(S) <= 1
         /\ AtMostTwo(S) => Cardinality(S) <= 2
<1>1. ASSUME AtMostOne(S) PROVE Cardinality(S) <= 1
  <2>1. CASE S = {}
    BY <2>1, FS_EmptySet
  <2>2. ASSUME NEW e \in S PROVE Cardinality(S) <= 1
    <3>1. S = {e}
      BY <1>1 DEF AtMostOne
    <3> QED
      BY <3>1, FS_Singleton
  <2> QED
    BY <2>1, <2>2
<1>2. ASSUME AtMostTwo(S), ~AtMostOne(S) PROVE Cardinality(S) <= 2
  <2>1. PICK e \in S, f \in S : e # f
    BY <1>2 DEF AtMostOne
  <2>2. S = {e} \cup {f} /\ f \notin {e}
    BY <1>2, <2>1 DEF AtMostTwo
  <2>3. IsFiniteSet({e}) /\ Cardinality({e}) = 1
    BY FS_Singleton
  <2>4. Cardinality({e} \cup {f}) = 1 + 1
    BY <2>2, <2>3, FS_AddElement
  <2> QED
    BY <2>2, <2>4
<1>3. ASSUME AtMostOne(S) PROVE Cardinality(S) <= 2
  <2>1. CASE S = {}
    BY <2>1, FS_EmptySet
  <2>2. ASSUME NEW e \in S PROVE Cardinality(S) <= 2
    <3>1. S = {e}
      BY <1>3 DEF AtMostOne
    <3>2. Cardinality(S) = 1
      BY <3>1, FS_Singleton
    <3> QED
      BY <3>2
  <2> QED
    BY <2>1, <2>2
<1> QED
  BY <1>1, <1>2, <1>3

\* Executions of a schedule overlap no more than its policy allows, for any
\* number of maintenance loops: `skip' never, `buffer_one' never more than two
\* although a buffered occurrence is started from a stale snapshot.
THEOREM OverlapBounded == Spec => []NoOverlap
<1>1. Init => OverlapInv
  <2> SUFFICES ASSUME Init, NEW s \in Ids PROVE OverlapOK(s)
    BY DEF OverlapInv
  <2>1. /\ open = {} /\ \A m \in Minutes : occurrences[s][m] = "none"
        /\ \A w \in Workers : worker[w] = Idle
    BY DEF Init
  <2>2. Idle.stage = "idle" /\ Idle.seen = {}
    BY DEF Idle
  <2>3. RunningOf(s) = {} /\ Buffered(s) = {}
    BY <2>1 DEF RunningOf, Buffered
  <2> QED
    BY <2>1, <2>2, <2>3 DEF OverlapOK, AtMostOne, AtMostTwo, FoundNone
<1>2. IInv /\ OverlapInv /\ [Next]_vars => OverlapInv'
  BY OverlapStep
<1>3. OverlapInv => NoOverlap
  BY FewElements DEF OverlapInv, OverlapOK, NoOverlap
<1> QED
  BY <1>1, <1>2, <1>3, Invariant, PTL DEF Spec

=============================================================================
