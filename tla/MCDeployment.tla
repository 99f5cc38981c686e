---------------------------- MODULE MCDeployment ----------------------------
(***************************************************************************)
(* An instance of Deployment for TLC: an old release, a new one, and a     *)
(* development build that has changed the code of a version.               *)
(***************************************************************************)
EXTENDS Deployment

MCFiles == [old |-> 1, new |-> 2, dev |-> 1]
MCChecksum == [p \in Procs |-> [i \in 1 .. 2 |-> "original"]]
MCRegistry == [old |-> [v \in {1} |-> "a"], new |-> [v \in {2} |-> "b"],
               dev |-> [v \in {1} |-> "c"]]

=============================================================================
