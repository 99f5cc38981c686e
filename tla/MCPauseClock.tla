---------------------------- MODULE MCPauseClock ----------------------------
(***************************************************************************)
(* An instance of PauseClock for TLC.  Rows are interchangeable, and states *)
(* that differ only in what nothing reads any more are one state: the times *)
(* of a row that has ended, and what a leased row lived through.            *)
(***************************************************************************)
EXTENDS PauseClock, TLC

Symmetry == Permutations(Rows)

Seen(r) ==
  CASE tasks[r].status = "pending" -> <<tasks[r], life[r]>>
    [] tasks[r].status = "leased" -> <<tasks[r].kind, tasks[r].timeout, tasks[r].expires>>
    [] OTHER -> <<tasks[r].status>>

View == <<now, pause_vars, [r \in Rows |-> Seen(r)]>>

=============================================================================
