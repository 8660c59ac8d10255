--------------------------- MODULE MCSupervision ----------------------------
(* A supervisor with three kinds of child: a raw process with a fixed pid, *)
(* an rpc server, and an rpc server that is known by a name.               *)
EXTENDS Supervision
=============================================================================
