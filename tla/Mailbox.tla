------------------------------ MODULE Mailbox -------------------------------
(***************************************************************************)
(* What messaging inside a node promises: every process has one mailbox;   *)
(* a message that is accepted goes to its tail, a receive takes its head,  *)
(* only the end of the process discards what is left, and a process that   *)
(* has ended accepts and receives nothing.                                 *)
(***************************************************************************)
EXTENDS Sequences

CONSTANTS Pids, Senders

VARIABLES box,    \* the messages sent to each process and not yet received
          ended   \* the processes that have ended

vars == <<box, ended>>

Init ==
    /\ box = [p \in Pids |-> <<>>]
    /\ ended = {}

Accept(p, m) ==
    /\ p \notin ended
    /\ box' = [box EXCEPT ![p] = Append(@, m)]
    /\ UNCHANGED ended

Take(p) ==
    /\ p \notin ended
    /\ box[p] # <<>>
    /\ box' = [box EXCEPT ![p] = Tail(@)]
    /\ UNCHANGED ended

End(p) ==
    /\ p \notin ended
    /\ ended' = ended \cup {p}
    /\ box' = [box EXCEPT ![p] = <<>>]

Next == \E p \in Pids : Take(p) \/ End(p) \/ \E m \in Senders : Accept(p, m)

Spec == Init /\ [][Next]_vars
=============================================================================
