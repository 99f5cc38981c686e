----------------------------- MODULE Deployment -----------------------------
(***************************************************************************)
(* The life of worker processes of several releases on one database        *)
(* (engine worker of engine/cli.py): each applies the migrations of its    *)
(* release (persistence/migrations.py), registers its workflow definitions *)
(* (register_workflow_definition), and runs a heartbeat and one loop per   *)
(* role in a task group (workers/runner.py) until it is told to stop, its  *)
(* heartbeat fails, or it dies; a supervisor starts it again.              *)
(***************************************************************************)
EXTENDS Integers, Sequences, FiniteSets

CONSTANTS
  Procs,        \* worker processes
  Files,        \* Files[p]: how many migrations the release of p contains
  Checksum,     \* Checksum[p][i]: of its i-th migration
  Registry,     \* Registry[p]: the code hash of every workflow version p can replay
  Versions,     \* versions of the workflow
  Roles,        \* roles of every worker
  NoHash, NoProc

\* Bounds of the model, not of the system.
CONSTANTS
  MaxFaults     \* crashes and failed heartbeats

ASSUME DeploymentAssumption ==
  /\ Files \in [Procs -> Nat]
  /\ \A p \in Procs : DOMAIN Registry[p] \subseteq Versions /\ 1 .. Files[p] \subseteq DOMAIN Checksum[p]
  /\ \A p \in Procs : \A v \in DOMAIN Registry[p] : Registry[p][v] # NoHash
  /\ Versions \subseteq Nat /\ NoProc \notin Procs /\ "heartbeat" \notin Roles
  /\ MaxFaults \in Nat

VARIABLES
  table,      \* schema_migrations exists
  applied,    \* its rows in the order they were inserted, each with the SQL it stands for
  lock,       \* who holds the advisory lock
  stored,     \* workflow_definitions.code_hash of each version
  replayed,   \* history variable: the code each version has been replayed with
  pc,         \* where each process is
  todo,       \* the migrations or definitions it has still to go through
  loops,      \* the tasks of its task group that have not ended
  stop,       \* the stop event
  beat,       \* the worker_heartbeats row of its current run: none, alive or stopped
  alarms,     \* history variable: the processes a migration applied already has failed
  faults      \* faults so far

procVars == <<pc, todo, loops, stop, beat>>
dbVars == <<table, applied, lock, stored>>
vars == <<dbVars, procVars, replayed, alarms, faults>>

Migration(p, i) == [version |-> i, checksum |-> Checksum[p][i]]
Release(p) == {Migration(p, i) : i \in 1 .. Files[p]}

Least(S) == CHOOSE i \in S : \A j \in S : i <= j

Init ==
  /\ table = FALSE /\ applied = <<>> /\ lock = NoProc
  /\ stored = [v \in Versions |-> NoHash]
  /\ replayed = [v \in Versions |-> {}]
  /\ pc = [p \in Procs |-> "down"]
  /\ todo = [p \in Procs |-> {}]
  /\ loops = [p \in Procs |-> {}]
  /\ stop = [p \in Procs |-> FALSE]
  /\ beat = [p \in Procs |-> "none"]
  /\ alarms = {}
  /\ faults = 0

At(p, l) == pc[p] = l
Go(p, l) == pc' = [pc EXCEPT ![p] = l]
Rows == {applied[i] : i \in DOMAIN applied}

\* The supervisor does not restart a process it has told to stop.
Exit(p) == Go(p, IF stop[p] THEN "retired" ELSE "down")

\* Faulty variant: the lock stays with a connection that went back to the pool.
Kept(p) == lock

\* The lock after the connection of p unlocks it or is closed.
Released(p) == IF lock = p THEN NoProc ELSE lock

\* An exception ends the process; its connection is closed and with it the
\* advisory lock is gone.
Fail(p) ==
  /\ Exit(p)
  /\ todo' = [todo EXCEPT ![p] = {}]
  /\ lock' = Released(p)
  /\ UNCHANGED <<loops, stop, beat>>

(***************************************************************************)
(* Migrations.                                                             *)
(***************************************************************************)

\* A process starts, or is started again.
Start(p) ==
  /\ At(p, "down")
  /\ Go(p, "create")
  /\ beat' = [beat EXCEPT ![p] = "none"]
  /\ UNCHANGED <<dbVars, replayed, todo, loops, stop, alarms, faults>>

\* create table if not exists, before the lock is taken: PostgreSQL looks the
\* name up and, if it is not there, creates the table, which fails if another
\* session has created it in between.
FindTable(p) ==
  /\ At(p, "create")
  /\ Go(p, IF table THEN "lock" ELSE "creating")
  /\ UNCHANGED <<dbVars, replayed, todo, loops, stop, beat, alarms, faults>>

CreateTable(p) ==
  /\ At(p, "creating")
  /\ IF table THEN Fail(p) /\ UNCHANGED table
     ELSE /\ table' = TRUE /\ Go(p, "lock")
          /\ UNCHANGED <<lock, todo, loops, stop, beat>>
  /\ UNCHANGED <<applied, stored, replayed, alarms, faults>>

\* Faulty variant: the lock does not exclude.
LockShared(p) == TRUE

LockFree(p) == lock = NoProc

AcquireLock(p) ==
  /\ At(p, "lock") /\ LockFree(p)
  /\ lock' = p
  /\ Go(p, "read")
  /\ UNCHANGED <<table, applied, stored, replayed, todo, loops, stop, beat, alarms, faults>>

\* Faulty variants: only the newest migration is looked for; one is applied.
NewestMissing(p, S) == {i \in {Files[p]} : i \notin {m.version : m \in S}}
NextMissing(p, S) == {i \in 1 .. Files[p] : i = Cardinality(S) + 1}

\* The migrations of the release that are not applied.
Missing(p, S) == {i \in 1 .. Files[p] : i \notin {m.version : m \in S}}

Unknown(p, S) == {m.version : m \in S} \ (1 .. Files[p])
Changed(p, S) == {m \in S : m.version \in 1 .. Files[p] /\ m \notin Release(p)}

\* The release cannot run on the schema.  The checksums are compared in the
\* order of the files, each before the next missing migration is applied.
Refused(p, S) == Unknown(p, S) # {} \/ Changed(p, S) # {}

ReadApplied(p) ==
  /\ At(p, "read")
  /\ IF Refused(p, Rows) THEN Fail(p)
     ELSE /\ Go(p, "apply")
          /\ todo' = [todo EXCEPT ![p] = Missing(p, Rows)]
          /\ UNCHANGED <<lock, loops, stop, beat>>
  /\ UNCHANGED <<table, applied, stored, replayed, alarms, faults>>

\* The SQL of the next migration and its row, in one transaction; the primary
\* key and the SQL itself refuse to be applied twice.
ApplyMigration(p) ==
  LET i == Least(todo[p]) IN
  /\ At(p, "apply") /\ todo[p] # {}
  /\ IF \E m \in Rows : m.version = i THEN Fail(p) /\ alarms' = alarms \cup {p} /\ UNCHANGED applied
     ELSE /\ applied' = Append(applied, Migration(p, i))
          /\ todo' = [todo EXCEPT ![p] = @ \ {i}]
          /\ UNCHANGED <<pc, lock, loops, stop, beat, alarms>>
  /\ UNCHANGED <<table, stored, replayed, faults>>

\* The lock is released, the pool is opened, the signal handlers are installed.
Unlock(p) ==
  /\ At(p, "apply") /\ todo[p] = {}
  /\ lock' = Released(p)
  /\ Go(p, "register")
  /\ todo' = [todo EXCEPT ![p] = DOMAIN Registry[p]]
  /\ UNCHANGED <<table, applied, stored, replayed, loops, stop, beat, alarms, faults>>

(***************************************************************************)
(* Definitions.                                                            *)
(***************************************************************************)

\* Faulty variant: what is stored is not compared.
Anything(p, v) == TRUE

\* insert ... on conflict do nothing, then compare with what is stored.
Agrees(p, v) == stored[v] \in {NoHash, Registry[p][v]}

\* One transaction per definition: those before a conflict stay registered.
RegisterDefinition(p) ==
  LET v == Least(todo[p]) IN
  /\ At(p, "register") /\ todo[p] # {}
  /\ IF Agrees(p, v)
     THEN /\ stored' = [stored EXCEPT ![v] = IF @ = NoHash THEN Registry[p][v] ELSE @]
          /\ todo' = [todo EXCEPT ![p] = @ \ {v}]
          /\ UNCHANGED <<pc, lock, loops, stop, beat>>
     ELSE Fail(p) /\ UNCHANGED stored
  /\ UNCHANGED <<table, applied, replayed, alarms, faults>>

\* run_worker: the task group begins.
Serve(p) ==
  /\ At(p, "register") /\ todo[p] = {}
  /\ Go(p, "serve")
  /\ loops' = [loops EXCEPT ![p] = Roles \cup {"heartbeat"}]
  /\ UNCHANGED <<dbVars, replayed, todo, stop, beat, alarms, faults>>

(***************************************************************************)
(* The task group.                                                         *)
(***************************************************************************)

\* Each loop looks at the stop event before a step and is not stopped in it.
Looping(p, l) == At(p, "serve") /\ l \in loops[p] /\ ~stop[p]

Heartbeat(p) ==
  /\ Looping(p, "heartbeat") /\ beat[p] # "alive"
  /\ beat' = [beat EXCEPT ![p] = "alive"]
  /\ UNCHANGED <<dbVars, replayed, pc, todo, loops, stop, alarms, faults>>

\* A workflow task of version v, which exists only if v is registered: it is
\* replayed if p knows the version and released to another worker otherwise.
ReplayTask(p, v) ==
  /\ Looping(p, "workflow") /\ stored[v] # NoHash
  /\ v \in DOMAIN Registry[p]
  /\ replayed' = [replayed EXCEPT ![v] = @ \cup {Registry[p][v]}]
  /\ UNCHANGED <<dbVars, procVars, alarms, faults>>

\* heartbeat_worker raises; nothing catches it, so the task group cancels the
\* other loops.
HeartbeatFails(p) ==
  /\ Looping(p, "heartbeat") /\ faults < MaxFaults
  /\ faults' = faults + 1
  /\ Go(p, "cancel")
  /\ loops' = [loops EXCEPT ![p] = @ \ {"heartbeat"}]
  /\ UNCHANGED <<dbVars, replayed, todo, stop, beat, alarms>>

\* SIGINT or SIGTERM, once the handlers are installed.
Signal(p) ==
  /\ pc[p] \in {"register", "serve"} /\ ~stop[p]
  /\ stop' = [stop EXCEPT ![p] = TRUE]
  /\ UNCHANGED <<dbVars, replayed, pc, todo, loops, beat, alarms, faults>>

\* Faulty variant: only the heartbeat loop notices the stop event.
HeartbeatStops(p, l) == stop[p] /\ l = "heartbeat"

\* A loop ends when it sees the stop event or is cancelled.
Ends(p, l) == At(p, "cancel") \/ stop[p]

LoopEnds(p, l) ==
  /\ pc[p] \in {"serve", "cancel"} /\ l \in loops[p] /\ Ends(p, l)
  /\ loops' = [loops EXCEPT ![p] = @ \ {l}]
  /\ UNCHANGED <<dbVars, replayed, pc, todo, stop, beat, alarms, faults>>

\* Faulty variant: the row is marked when the heartbeat has ended.
HeartbeatEnded(p) == "heartbeat" \notin loops[p]

\* The task group waits for all its tasks.
GroupEnded(p) == loops[p] = {}

\* stop_worker marks the row, if there is one; an exception in it is suppressed.
StopWorker(p) ==
  /\ pc[p] \in {"serve", "cancel"} /\ GroupEnded(p)
  /\ Exit(p)
  /\ \/ beat' = [beat EXCEPT ![p] = IF @ = "alive" THEN "stopped" ELSE @]
     \/ UNCHANGED beat
  /\ UNCHANGED <<dbVars, replayed, todo, loops, stop, alarms, faults>>

\* The process dies; its connections are closed.
Crash(p) ==
  /\ pc[p] \notin {"down", "retired"} /\ faults < MaxFaults
  /\ faults' = faults + 1
  /\ Exit(p)
  /\ lock' = Released(p)
  /\ loops' = [loops EXCEPT ![p] = {}]
  /\ todo' = [todo EXCEPT ![p] = {}]
  /\ UNCHANGED <<table, applied, stored, replayed, stop, beat, alarms>>

(***************************************************************************)
(* Specification.                                                          *)
(***************************************************************************)

ProcStep(p) ==
  \/ Start(p) \/ FindTable(p) \/ CreateTable(p) \/ AcquireLock(p) \/ ReadApplied(p)
  \/ ApplyMigration(p) \/ Unlock(p) \/ RegisterDefinition(p) \/ Serve(p) \/ Heartbeat(p)
  \/ \E v \in Versions : ReplayTask(p, v)
  \/ \E l \in Roles \cup {"heartbeat"} : LoopEnds(p, l)
  \/ StopWorker(p)

Next ==
  \E p \in Procs : ProcStep(p) \/ HeartbeatFails(p) \/ Signal(p) \/ Crash(p)

Spec == Init /\ [][Next]_vars

\* Processes run, the supervisor restarts those that ended by themselves, and
\* the advisory lock is granted in the order of the requests.  Nothing is
\* assumed of signals and faults.
LiveSpec ==
  /\ Spec
  /\ \A p \in Procs : SF_vars(ProcStep(p))

(***************************************************************************)
(* Properties.                                                             *)
(***************************************************************************)

\* Migrations are applied in order, each once and without a gap, however many
\* processes of whichever releases start at the same time and die half-way.
AppliedInOrder == \A i \in DOMAIN applied : applied[i].version = i

\* Under the lock nobody applies a migration another process has applied: a
\* process never fails to start for that.
NoFalseAlarm == alarms = {}

\* A worker that takes tasks runs on a schema that has every migration of its
\* release, unchanged.
SchemaReady == \A p \in Procs : loops[p] # {} => Release(p) \subseteq Rows

\* All workers that ever replay a version replay it with the same code, in
\* whatever order conflicting releases register it.
SameCode == \A v \in Versions : Cardinality(replayed[v]) <= 1

\* A worker shown as stopped takes no more tasks.
StoppedMeansStopped == \A p \in Procs : beat[p] = "stopped" => loops[p] = {}

\* A worker whose heartbeat loop has ended, by a failure or a signal, does not
\* go on without it: all its loops end.
NoSilentWorker ==
  \A p \in Procs : loops[p] # {} /\ "heartbeat" \notin loops[p] ~> loops[p] = {}

\* The newest releases, if nobody disagrees with their definitions.
Compatible ==
  {p \in Procs : \A q \in Procs :
     /\ Files[q] <= Files[p]
     /\ \A i \in 1 .. Files[q] : Checksum[q][i] = Checksum[p][i]
     /\ \A v \in DOMAIN Registry[p] \cap DOMAIN Registry[q] : Registry[p][v] = Registry[q][v]}

\* Their workers get to serve, whatever fails on the way: the race to create
\* the table, a process that dies with the lock, a failed heartbeat.
EventuallyServes == \A p \in Compatible : ~At(p, "retired") ~> At(p, "serve") \/ At(p, "retired")

=============================================================================
