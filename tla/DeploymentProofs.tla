-------------------------- MODULE DeploymentProofs --------------------------
(***************************************************************************)
(* Theorems about Deployment, for every number of processes, releases and  *)
(* workflow versions, and however many of them crash.                      *)
(***************************************************************************)
EXTENDS Deployment, FiniteSetTheorems, TLAPS

(***************************************************************************)
(* The inductive invariant.                                                *)
(***************************************************************************)

Places == {"down", "create", "creating", "lock", "read", "apply", "register", "serve",
           "cancel", "retired"}

Migrations == UNION {Release(p) : p \in Procs}

TypeOK ==
  /\ applied \in Seq(Migrations)
  /\ lock \in Procs \cup {NoProc}
  /\ stored = [v \in Versions |-> stored[v]]
  /\ replayed = [v \in Versions |-> replayed[v]]
  /\ pc \in [Procs -> Places]
  /\ todo \in [Procs -> SUBSET Nat]
  /\ loops \in [Procs -> SUBSET (Roles \cup {"heartbeat"})]
  /\ stop \in [Procs -> BOOLEAN]
  /\ beat \in [Procs -> {"none", "alive", "stopped"}]

\* The advisory lock is held by the process that reads and applies migrations.
Exclusive == \A p \in Procs : pc[p] \in {"read", "apply"} <=> lock = p

\* A process that applies migrations agrees with the rows, and what it has
\* still to apply are the migrations that follow them.
InStep ==
  \A p \in Procs : pc[p] = "apply" =>
    /\ Len(applied) <= Files[p]
    /\ todo[p] = (Len(applied) + 1) .. Files[p]
    /\ \A i \in DOMAIN applied : applied[i] = Migration(p, i)

\* A process that is past its migrations finds them all in the table.
Migrated ==
  \A p \in Procs : pc[p] \in {"register", "serve", "cancel"} =>
    \A i \in 1 .. Files[p] : i \in DOMAIN applied /\ applied[i] = Migration(p, i)

\* What a process has registered, or has found registered, is its own code.
Registered ==
  \A p \in Procs : pc[p] \in {"register", "serve", "cancel"} =>
    \A v \in DOMAIN Registry[p] :
      v \notin todo[p] \/ pc[p] # "register" => stored[v] = Registry[p][v]

\* Tasks run in the task group only, and the row is marked when it has ended.
Grouped ==
  \A p \in Procs :
    /\ loops[p] # {} => pc[p] \in {"serve", "cancel"}
    /\ beat[p] = "stopped" => pc[p] \in {"down", "retired"}

\* A version is replayed with the code that is stored for it.
Stored == \A v \in Versions : \A c \in replayed[v] : c = stored[v] /\ c # NoHash

DInv ==
  /\ TypeOK /\ Exclusive /\ AppliedInOrder /\ InStep /\ Migrated
  /\ Registered /\ Grouped /\ Stored /\ NoFalseAlarm

(***************************************************************************)
(* Steps that write nothing but the state of one process.                  *)
(***************************************************************************)

\* No process holds the lock before the first one starts.
LEMMA InitOK == Init => DInv
<1> SUFFICES ASSUME Init PROVE DInv
  OBVIOUS
<1>1. TypeOK
  BY DEF Init, TypeOK, Places
<1> QED
  BY <1>1, DeploymentAssumption DEF Init, DInv, Exclusive, AppliedInOrder, InStep, Migrated, Registered,
     Grouped, Stored, NoFalseAlarm

\* An exception, a crash or the end of the task group: the process gives the
\* lock up, if it has it, and none of its loops go on.
LEMMA LeaveOK ==
  ASSUME DInv, NEW p \in Procs, NEW l \in {"down", "retired"}, Go(p, l),
         lock' = Released(p), loops' = [loops EXCEPT ![p] = {}],
         todo' = [todo EXCEPT ![p] = {}] \/ todo' = todo,
         stop' = stop, beat' \in [Procs -> {"none", "alive", "stopped"}],
         \A q \in Procs \ {p} : beat'[q] = beat[q],
         UNCHANGED <<applied, stored, replayed, alarms>>
  PROVE  DInv'
<1> USE DEF DInv
<1>1. TypeOK'
  BY DeploymentAssumption DEF TypeOK, Go, Released, Places
<1>2. \A q \in Procs : pc'[q] = IF q = p THEN l ELSE pc[q]
  BY DEF Go, TypeOK
<1>3. \A q \in Procs \ {p} : todo'[q] = todo[q] /\ loops'[q] = loops[q]
  BY DEF TypeOK
<1>4. Exclusive'
  BY <1>2, DeploymentAssumption DEF Exclusive, Released
<1>5. InStep' /\ Migrated'
  BY <1>2, <1>3 DEF InStep, Migrated
<1>6. Registered'
  BY <1>2, <1>3 DEF Registered
<1>7. Grouped'
  BY <1>2, <1>3 DEF Grouped, TypeOK
<1> QED
  BY <1>1, <1>4, <1>5, <1>6, <1>7 DEF AppliedInOrder, Stored, NoFalseAlarm

\* A process that fails outside its task group has no loops to end.
LEMMA FailOK ==
  ASSUME DInv, NEW p \in Procs, pc[p] \notin {"serve", "cancel"}, pc[p] \notin {"down", "retired"}, Fail(p),
         UNCHANGED <<applied, stored, replayed, alarms>>
  PROVE  DInv'
<1>1. loops' = [loops EXCEPT ![p] = {}]
  BY DEF Fail, DInv, Grouped, TypeOK
<1>2. beat' = beat
  BY DEF Fail
<1>3. \E l \in {"down", "retired"} : Go(p, l)
  BY DEF Fail, Exit
<1>4. beat' \in [Procs -> {"none", "alive", "stopped"}]
  BY <1>2 DEF DInv, TypeOK
<1> QED
  BY <1>1, <1>2, <1>3, <1>4, LeaveOK DEF Fail

\* A process moves on, in a place where the lock and the schema do not change.
LEMMA MoveOK ==
  ASSUME DInv, NEW p \in Procs, NEW l \in {"create", "creating", "lock"}, Go(p, l),
         pc[p] \in {"down", "create", "creating"},
         beat' = beat \/ beat' = [beat EXCEPT ![p] = "none"],
         pc[p] = "down" => beat'[p] = "none",
         UNCHANGED <<applied, lock, stored, replayed, todo, loops, stop, alarms>>
  PROVE  DInv'
<1> USE DEF DInv
<1>1. TypeOK'
  BY DEF TypeOK, Go, Places
<1>2. \A q \in Procs : pc'[q] = IF q = p THEN l ELSE pc[q]
  BY DEF Go, TypeOK
<1>4. Exclusive'
  BY <1>2 DEF Exclusive
<1>5. InStep' /\ Migrated'
  BY <1>2 DEF InStep, Migrated
<1>6. Registered'
  BY <1>2 DEF Registered
<1>7. Grouped'
  BY <1>2 DEF Grouped, TypeOK
<1> QED
  BY <1>1, <1>4, <1>5, <1>6, <1>7 DEF AppliedInOrder, Stored, NoFalseAlarm

(***************************************************************************)
(* Migrations.                                                             *)
(***************************************************************************)

\* Starting, and the race to create the table.
LEMMA StartOK ==
  ASSUME DInv, NEW p \in Procs, Start(p) \/ FindTable(p) \/ CreateTable(p)
  PROVE  DInv'
<1>1. CASE Start(p)
  <2>1. beat'[p] = "none"
    BY <1>1 DEF Start, DInv, TypeOK
  <2> QED
    BY <1>1, <2>1, MoveOK DEF Start, At, dbVars
<1>2. CASE FindTable(p)
  BY <1>2, MoveOK DEF FindTable, At, dbVars
<1>3. CASE CreateTable(p) /\ table
  BY <1>3, FailOK DEF CreateTable, At
<1>4. CASE CreateTable(p) /\ ~table
  BY <1>4, MoveOK DEF CreateTable, At
<1> QED
  BY <1>1, <1>2, <1>3, <1>4

\* The lock is granted to one process.
LEMMA AcquireOK ==
  ASSUME DInv, NEW p \in Procs, AcquireLock(p)
  PROVE  DInv'
<1> USE DEF DInv
<1>1. TypeOK'
  BY DEF TypeOK, Go, Places, AcquireLock
<1>2. \A q \in Procs : pc'[q] = IF q = p THEN "read" ELSE pc[q]
  BY DEF Go, TypeOK, AcquireLock
<1>4. Exclusive'
  BY <1>2, DeploymentAssumption DEF Exclusive, AcquireLock, LockFree
<1>5. InStep' /\ Migrated'
  BY <1>2 DEF InStep, Migrated, AcquireLock
<1>6. Registered'
  BY <1>2 DEF Registered, AcquireLock
<1>7. Grouped'
  BY <1>2 DEF Grouped, TypeOK, AcquireLock, At
<1> QED
  BY <1>1, <1>4, <1>5, <1>6, <1>7 DEF AppliedInOrder, Stored, NoFalseAlarm, AcquireLock

\* Rows in order that the release does not refuse are its first migrations,
\* and those it misses are the ones that follow.
LEMMA Prefix ==
  ASSUME TypeOK, AppliedInOrder, NEW p \in Procs, ~Refused(p, Rows)
  PROVE  /\ Len(applied) <= Files[p]
         /\ \A i \in DOMAIN applied : applied[i] = Migration(p, i)
         /\ Missing(p, Rows) = (Len(applied) + 1) .. Files[p]
<1>1. DOMAIN applied = 1 .. Len(applied) /\ Len(applied) \in Nat /\ Files[p] \in Nat
  BY DeploymentAssumption DEF TypeOK
<1>2. \A i \in DOMAIN applied : applied[i] \in Rows /\ applied[i].version = i
  BY DEF Rows, AppliedInOrder
<1>3. \A i \in DOMAIN applied : i \in 1 .. Files[p]
  BY <1>2 DEF Refused, Unknown
<1>4. \A i \in DOMAIN applied : applied[i] \in Release(p)
  BY <1>2, <1>3 DEF Refused, Changed
<1>5. \A i \in DOMAIN applied : applied[i] = Migration(p, i)
  BY <1>2, <1>4 DEF Release, Migration
<1>6. {m.version : m \in Rows} = 1 .. Len(applied)
  BY <1>1, <1>2 DEF Rows
<1>7. Missing(p, Rows) = (Len(applied) + 1) .. Files[p]
  BY <1>1, <1>6 DEF Missing
<1>8. Len(applied) <= Files[p]
  BY <1>1, <1>3
<1> QED
  BY <1>5, <1>7, <1>8

\* Reading the table under the lock.
LEMMA ReadOK ==
  ASSUME DInv, NEW p \in Procs, ReadApplied(p)
  PROVE  DInv'
<1> USE DEF DInv
<1>1. CASE Refused(p, Rows)
  BY <1>1, FailOK DEF ReadApplied, At
<1>2. CASE ~Refused(p, Rows)
  <2>1. /\ pc' = [pc EXCEPT ![p] = "apply"]
        /\ todo' = [todo EXCEPT ![p] = Missing(p, Rows)]
        /\ UNCHANGED <<lock, loops, stop, beat, applied, stored, replayed, alarms>>
    BY <1>2 DEF ReadApplied, Go
  <2>2. pc[p] = "read"
    BY DEF ReadApplied, At
  <2>3. \A q \in Procs : pc'[q] = IF q = p THEN "apply" ELSE pc[q]
    BY <2>1 DEF TypeOK
  <2>4. /\ todo'[p] = (Len(applied) + 1) .. Files[p]
        /\ \A q \in Procs \ {p} : todo'[q] = todo[q]
    BY <1>2, <2>1, Prefix DEF TypeOK
  <2>5. TypeOK'
    <3>1. Missing(p, Rows) \subseteq Nat
      BY DEF Missing
    <3> QED
      BY <2>1, <3>1 DEF TypeOK, Places
  <2>6. Exclusive'
    BY <2>1, <2>2, <2>3 DEF Exclusive
  <2>7. InStep'
    BY <1>2, <2>1, <2>3, <2>4, Prefix DEF InStep
  <2>8. Migrated'
    BY <2>1, <2>3 DEF Migrated
  <2>9. Registered'
    BY <2>1, <2>3, <2>4 DEF Registered
  <2>10. Grouped'
    BY <2>1, <2>2, <2>3 DEF Grouped
  <2> QED
    BY <2>1, <2>5, <2>6, <2>7, <2>8, <2>9, <2>10 DEF AppliedInOrder, Stored, NoFalseAlarm
<1> QED
  BY <1>1, <1>2

\* What comes first of an interval.
LEMMA LeastOf ==
  ASSUME NEW m \in Nat, NEW n \in Nat, m .. n # {}
  PROVE  Least(m .. n) = m
  BY DEF Least

\* The next migration is the one that follows the rows: it is never refused.
LEMMA ApplyOK ==
  ASSUME DInv, NEW p \in Procs, ApplyMigration(p)
  PROVE  DInv'
<1> USE DEF DInv
<1> DEFINE i == Least(todo[p])
           n == Len(applied)
<1>1. pc[p] = "apply" /\ todo[p] # {} /\ n \in Nat /\ Files[p] \in Nat /\ DOMAIN applied = 1 .. n
  BY DeploymentAssumption DEF ApplyMigration, At, TypeOK
<1>2. /\ todo[p] = (n + 1) .. Files[p]
      /\ \A j \in DOMAIN applied : applied[j] = Migration(p, j)
  BY <1>1 DEF InStep
<1>3. i = n + 1 /\ i <= Files[p]
  BY <1>1, <1>2, LeastOf
<1>4. ~ \E m \in Rows : m.version = i
  BY <1>1, <1>3 DEF Rows, AppliedInOrder
<1>5. /\ applied' = Append(applied, Migration(p, i))
      /\ todo' = [todo EXCEPT ![p] = @ \ {i}]
      /\ UNCHANGED <<pc, lock, loops, stop, beat, alarms, stored, replayed>>
  BY <1>4 DEF ApplyMigration
<1> HIDE DEF i
<1>6. Migration(p, i) \in Migrations
  BY <1>1, <1>3 DEF Migrations, Release
<1>7. /\ applied' \in Seq(Migrations) /\ Len(applied') = n + 1 /\ DOMAIN applied' = 1 .. (n + 1)
      /\ \A j \in DOMAIN applied : applied'[j] = applied[j]
      /\ applied'[n + 1] = Migration(p, n + 1)
  BY <1>3, <1>5, <1>6 DEF TypeOK
<1>8. todo'[p] = (n + 2) .. Files[p] /\ \A q \in Procs \ {p} : todo'[q] = todo[q]
  BY <1>1, <1>2, <1>3, <1>5 DEF TypeOK
<1>9. TypeOK'
  BY <1>5, <1>7 DEF TypeOK
<1>10. Exclusive'
  BY <1>5 DEF Exclusive
<1>11. AppliedInOrder'
  BY <1>1, <1>7 DEF AppliedInOrder, Migration
<1>12. InStep'
  <2> SUFFICES ASSUME NEW q \in Procs, pc'[q] = "apply"
               PROVE  /\ Len(applied') <= Files[q]
                      /\ todo'[q] = (Len(applied') + 1) .. Files[q]
                      /\ \A j \in DOMAIN applied' : applied'[j] = Migration(q, j)
    BY DEF InStep
  <2>1. q = p
    BY <1>1, <1>5 DEF Exclusive
  <2> QED
    BY <1>1, <1>2, <1>3, <1>7, <1>8, <2>1
<1>13. Migrated'
  BY <1>1, <1>5, <1>7 DEF Migrated
<1>14. Registered'
  BY <1>1, <1>5, <1>8 DEF Registered
<1>15. Grouped' /\ Stored' /\ NoFalseAlarm'
  BY <1>5 DEF Grouped, Stored, NoFalseAlarm
<1> QED
  BY <1>9, <1>10, <1>11, <1>12, <1>13, <1>14, <1>15

\* The lock is released when no migration is left.
LEMMA UnlockOK ==
  ASSUME DInv, NEW p \in Procs, Unlock(p)
  PROVE  DInv'
<1> USE DEF DInv
<1>0. Len(applied) \in Nat /\ DOMAIN applied = 1 .. Len(applied) /\ Files[p] \in Nat
  BY DeploymentAssumption DEF TypeOK
<1>1. pc[p] = "apply" /\ todo[p] = {}
  BY DEF Unlock, At
<1>2. /\ pc' = [pc EXCEPT ![p] = "register"] /\ lock' = NoProc
      /\ todo' = [todo EXCEPT ![p] = DOMAIN Registry[p]]
      /\ UNCHANGED <<applied, stored, replayed, loops, stop, beat, alarms>>
  BY <1>1 DEF Unlock, Go, Released, Exclusive
<1>3. \A q \in Procs : pc'[q] = IF q = p THEN "register" ELSE pc[q]
  BY <1>2 DEF TypeOK
<1>4. todo'[p] = DOMAIN Registry[p] /\ \A q \in Procs \ {p} : todo'[q] = todo[q]
  BY <1>2 DEF TypeOK
<1>5. TypeOK'
  BY <1>2, DeploymentAssumption DEF TypeOK, Places
<1>6. Exclusive'
  BY <1>1, <1>2, <1>3, DeploymentAssumption DEF Exclusive
<1>7. InStep'
  BY <1>2, <1>3, <1>4 DEF InStep
<1>8. Migrated'
  <2>1. (Len(applied) + 1) .. Files[p] = {} /\ \A i \in DOMAIN applied : applied[i] = Migration(p, i)
    BY <1>1 DEF InStep
  <2>2. Files[p] <= Len(applied)
    BY <1>0, <2>1
  <2>3. \A i \in 1 .. Files[p] : i \in DOMAIN applied /\ applied[i] = Migration(p, i)
    BY <1>0, <2>1, <2>2
  <2> QED
    BY <1>2, <1>3, <2>3 DEF Migrated
<1>9. Registered'
  BY <1>2, <1>3, <1>4 DEF Registered
<1>10. Grouped'
  BY <1>1, <1>2, <1>3 DEF Grouped
<1> QED
  BY <1>2, <1>5, <1>6, <1>7, <1>8, <1>9, <1>10 DEF AppliedInOrder, Stored, NoFalseAlarm

(***************************************************************************)
(* Definitions and the task group.                                         *)
(***************************************************************************)

\* A definition is stored once; a process that finds another one there fails.
LEMMA RegisterOK ==
  ASSUME DInv, NEW p \in Procs, RegisterDefinition(p)
  PROVE  DInv'
<1> USE DEF DInv
<1> DEFINE v == Least(todo[p])
<1>1. pc[p] = "register"
  BY DEF RegisterDefinition, At
<1>2. CASE ~Agrees(p, v)
  BY <1>1, <1>2, FailOK DEF RegisterDefinition
<1>3. CASE Agrees(p, v)
  <2>1. /\ stored' = [stored EXCEPT ![v] = IF @ = NoHash THEN Registry[p][v] ELSE @]
        /\ todo' = [todo EXCEPT ![p] = @ \ {v}]
        /\ UNCHANGED <<pc, lock, loops, stop, beat, applied, replayed, alarms>>
    BY <1>3 DEF RegisterDefinition
  <2> HIDE DEF v
  <2>2. \A x \in Versions : stored[x] # NoHash => stored'[x] = stored[x]
    BY <2>1 DEF TypeOK
  <2>3. v \in Versions => stored'[v] = Registry[p][v]
    BY <1>3, <2>1 DEF TypeOK, Agrees
  <2>4. \A q \in Procs : DOMAIN Registry[q] \subseteq Versions
                         /\ \A x \in DOMAIN Registry[q] : Registry[q][x] # NoHash
    BY DeploymentAssumption
  <2>5. todo'[p] = todo[p] \ {v} /\ \A q \in Procs \ {p} : todo'[q] = todo[q]
    BY <2>1 DEF TypeOK
  <2>6. TypeOK'
    BY <2>1 DEF TypeOK
  <2>7. InStep' /\ Exclusive' /\ Migrated' /\ Grouped' /\ NoFalseAlarm' /\ AppliedInOrder'
    BY <1>1, <2>1, <2>5 DEF InStep, Exclusive, Migrated, Grouped, NoFalseAlarm, AppliedInOrder
  <2>8. Registered'
    <3> SUFFICES ASSUME NEW q \in Procs, pc[q] \in {"register", "serve", "cancel"},
                        NEW x \in DOMAIN Registry[q], x \notin todo'[q] \/ pc[q] # "register"
                 PROVE  stored'[x] = Registry[q][x]
      BY <2>1 DEF Registered
    <3>1. CASE x \notin todo[q] \/ pc[q] # "register"
      BY <2>2, <2>4, <3>1 DEF Registered
    <3>2. CASE x \in todo[q] /\ pc[q] = "register"
      BY <2>3, <2>4, <2>5, <3>2
    <3> QED
      BY <3>1, <3>2
  <2>9. Stored'
    BY <2>1, <2>2 DEF Stored
  <2> QED
    BY <2>6, <2>7, <2>8, <2>9
<1> QED
  BY <1>2, <1>3

\* The task group begins, its loops run and end, the stop event is set.
LEMMA GroupOK ==
  ASSUME DInv, NEW p \in Procs,
         \/ Serve(p) \/ Heartbeat(p) \/ HeartbeatFails(p) \/ Signal(p)
         \/ \E l \in Roles \cup {"heartbeat"} : LoopEnds(p, l)
  PROVE  DInv'
<1> USE DEF DInv
<1> DEFINE Effect ==
      /\ UNCHANGED <<applied, lock, stored, replayed, todo, alarms>>
      /\ pc[p] \in {"register", "serve", "cancel"}
      /\ pc' \in [Procs -> Places]
      /\ \A q \in Procs \ {p} : pc'[q] = pc[q] /\ loops'[q] = loops[q] /\ beat'[q] = beat[q]
      /\ pc'[p] \in {"register", "serve", "cancel"}
      /\ pc'[p] = "register" => pc[p] = "register"
      /\ pc'[p] # "register" /\ pc[p] = "register" => todo[p] = {}
      /\ loops'[p] # {} => pc'[p] \in {"serve", "cancel"}
      /\ beat'[p] # "stopped"
      /\ TypeOK'
<1>1. Effect
  <2>1. CASE Serve(p)
    BY <2>1 DEF Serve, At, Go, dbVars, TypeOK, Places, Grouped
  <2>2. CASE Heartbeat(p)
    BY <2>2 DEF Heartbeat, Looping, At, dbVars, TypeOK, Grouped
  <2>3. CASE HeartbeatFails(p)
    BY <2>3 DEF HeartbeatFails, Looping, At, Go, dbVars, TypeOK, Places, Grouped
  <2>4. CASE Signal(p)
    BY <2>4 DEF Signal, dbVars, TypeOK, Grouped
  <2>5. ASSUME NEW l, LoopEnds(p, l) PROVE Effect
    BY <2>5 DEF LoopEnds, dbVars, TypeOK, Grouped
  <2> HIDE DEF Effect
  <2> QED
    BY <2>1, <2>2, <2>3, <2>4, <2>5
<1>2. Exclusive'
  BY <1>1 DEF Exclusive
<1>3. InStep'
  BY <1>1 DEF InStep
<1>4. Migrated'
  BY <1>1 DEF Migrated
<1>5. Registered'
  BY <1>1 DEF Registered
<1>6. Grouped'
  BY <1>1 DEF Grouped
<1> QED
  BY <1>1, <1>2, <1>3, <1>4, <1>5, <1>6 DEF AppliedInOrder, Stored, NoFalseAlarm

\* What is replayed is what is stored.
LEMMA ReplayOK ==
  ASSUME DInv, NEW p \in Procs, NEW v \in Versions, ReplayTask(p, v)
  PROVE  DInv'
<1> USE DEF DInv
<1>1. UNCHANGED <<applied, lock, stored, procVars, alarms>>
  BY DEF ReplayTask, dbVars
<1>2. TypeOK'
  BY <1>1 DEF TypeOK, ReplayTask, procVars
<1>3. stored[v] = Registry[p][v] /\ stored[v] # NoHash
  BY DEF ReplayTask, Looping, At, Registered
<1>4. \A x \in Versions : replayed'[x] \subseteq replayed[x] \cup (IF x = v THEN {stored[v]} ELSE {})
  BY <1>3 DEF ReplayTask, TypeOK
<1>5. Stored'
  BY <1>1, <1>3, <1>4 DEF Stored
<1> QED
  BY <1>1, <1>2, <1>5 DEF Exclusive, AppliedInOrder, InStep, Migrated, Registered, Grouped,
     NoFalseAlarm, procVars

\* The task group has ended, or the process dies.
LEMMA EndOK ==
  ASSUME DInv, NEW p \in Procs, StopWorker(p) \/ Crash(p)
  PROVE  DInv'
<1> USE DEF DInv
<1>1. \E l \in {"down", "retired"} : Go(p, l)
  BY DEF StopWorker, Crash, Exit
<1>2. CASE StopWorker(p)
  <2>1. loops' = [loops EXCEPT ![p] = {}] /\ lock' = Released(p)
    BY <1>2, DeploymentAssumption
       DEF StopWorker, GroupEnded, TypeOK, dbVars, Released, Exclusive
  <2>2. beat' \in [Procs -> {"none", "alive", "stopped"}] /\ \A q \in Procs \ {p} : beat'[q] = beat[q]
    BY <1>2 DEF StopWorker, TypeOK
  <2> QED
    BY <1>1, <1>2, <2>1, <2>2, LeaveOK DEF StopWorker, dbVars
<1>3. CASE Crash(p)
  <2>1. beat' \in [Procs -> {"none", "alive", "stopped"}] /\ \A q \in Procs \ {p} : beat'[q] = beat[q]
    BY <1>3 DEF Crash, TypeOK
  <2> QED
    BY <1>1, <1>3, <2>1, LeaveOK DEF Crash
<1> QED
  BY <1>2, <1>3

(***************************************************************************)
(* Theorems.                                                               *)
(***************************************************************************)

\* Every step of every process keeps the inductive invariant.
LEMMA StepOK == DInv /\ [Next]_vars => DInv'
<1> SUFFICES ASSUME DInv, [Next]_vars PROVE DInv'
  OBVIOUS
<1>1. CASE UNCHANGED vars
  <2> USE <1>1 DEF vars, dbVars, procVars, DInv
  <2>1. TypeOK'
    BY DEF TypeOK
  <2>2. Exclusive' /\ AppliedInOrder' /\ InStep' /\ Migrated'
    BY DEF Exclusive, AppliedInOrder, InStep, Migrated
  <2>3. Registered' /\ Grouped' /\ Stored' /\ NoFalseAlarm'
    BY DEF Registered, Grouped, Stored, NoFalseAlarm
  <2> QED
    BY <2>1, <2>2, <2>3
<1>2. ASSUME NEW p \in Procs, ProcStep(p) \/ HeartbeatFails(p) \/ Signal(p) \/ Crash(p)
      PROVE  DInv'
  BY <1>2, StartOK, AcquireOK, ReadOK, ApplyOK, UnlockOK, RegisterOK, GroupOK, ReplayOK, EndOK
     DEF ProcStep
<1> QED
  BY <1>1, <1>2 DEF Next

\* The lock, the rows and the processes agree in every reachable state.
THEOREM Inductive == Spec => []DInv
  BY InitOK, StepOK, PTL DEF Spec

\* Migrations are applied in the order of their numbers, each once, by
\* whichever processes start at the same time or die half-way.
THEOREM MigrationsInOrder == Spec => []AppliedInOrder
<1>1. DInv => AppliedInOrder
  BY DEF DInv
<1> QED
  BY <1>1, Inductive, PTL

\* No process ever fails to start because another one has applied the migration
\* it was about to apply.
THEOREM NoAlarms == Spec => []NoFalseAlarm
<1>1. DInv => NoFalseAlarm
  BY DEF DInv
<1> QED
  BY <1>1, Inductive, PTL

\* A worker that takes tasks runs on the schema of its release.
THEOREM ServesMigrated == Spec => []SchemaReady
<1>1. DInv => SchemaReady
  BY DEF DInv, Grouped, Migrated, SchemaReady, Release, Rows
<1> QED
  BY <1>1, Inductive, PTL

\* A version of a workflow is replayed with one code for ever, whatever the
\* releases that know it say it is.
THEOREM OneCode == Spec => []SameCode
<1>1. DInv => SameCode
  <2> SUFFICES ASSUME DInv, NEW v \in Versions PROVE Cardinality(replayed[v]) <= 1
    BY DEF SameCode
  <2>1. replayed[v] = {} \/ replayed[v] = {stored[v]}
    BY DEF DInv, Stored
  <2>2. Cardinality({}) = 0 /\ Cardinality({stored[v]}) = 1
    BY FS_EmptySet, FS_Singleton
  <2> QED
    BY <2>1, <2>2
<1> QED
  BY <1>1, Inductive, PTL

\* A worker whose row says stopped has no loop that could take a task.
THEOREM StoppedIsStopped == Spec => []StoppedMeansStopped
<1>1. DInv => StoppedMeansStopped
  BY DEF DInv, Grouped, StoppedMeansStopped, TypeOK
<1> QED
  BY <1>1, Inductive, PTL

=============================================================================
