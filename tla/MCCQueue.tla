------------------------------ MODULE MCCQueue ------------------------------
(* CQueue with three processors and three processes: enough for one thread *)
(* to sleep while a second is on its way to an entry that a third takes.   *)
EXTENDS CQueue
=============================================================================
