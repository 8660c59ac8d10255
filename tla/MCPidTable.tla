----------------------------- MODULE MCPidTable -----------------------------
(* Three ordinary pids and two that can be bound. *)
EXTENDS PidTable
=============================================================================
