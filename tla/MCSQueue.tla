------------------------------ MODULE MCSQueue ------------------------------
EXTENDS SQueue
CONSTANTS w, a, b

(* Two long messages do not fit into the pages, a long and a short one do. *)
MCSize == [t \in Threads |-> IF t = a THEN 3 ELSE 1]
=============================================================================
