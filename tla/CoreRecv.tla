------------------------------ MODULE CoreRecv ------------------------------
(***************************************************************************)
(* Receiving in Lua: recv and recv_by_condition of GLR/wrappers/_core.lua. *)
(* A process reads its channel through the cacheBox, where a selective     *)
(* receive leaves the messages it did not want.  The state is a record:    *)
(* the channel, the cacheBox, and what the receive in progress has set     *)
(* aside (the local "cache").  One turn of the loop of recv_by_condition   *)
(* is SetAside, TakeFirst or, when recv returns nil, Restore.              *)
(***************************************************************************)
EXTENDS Integers, Sequences

NewBox == [box |-> <<>>, cacheBox |-> <<>>, cache |-> <<>>]

Arrive(b, m) == [b EXCEPT !.box = Append(@, m)]

Available(b) == b.cacheBox # <<>> \/ b.box # <<>>

First(b) == IF b.cacheBox # <<>> THEN Head(b.cacheBox) ELSE Head(b.box)

(* recv: the cacheBox comes before the channel.                            *)
Rest(b) ==
    IF b.cacheBox # <<>> THEN [b EXCEPT !.cacheBox = Tail(@)]
    ELSE [b EXCEPT !.box = Tail(@)]

(* Variant: a message that does not satisfy the condition is dropped.      *)
SetAsideNot(b) == Rest(b)

(* The message does not satisfy the condition.                             *)
SetAside(b) == [Rest(b) EXCEPT !.cache = Append(@, First(b))]

(* Variant: restore uses pushLeft, in the order of the set-aside messages. *)
RestoreLeft(b) ==
    LET n == Len(b.cache)
    IN  [b EXCEPT !.cacheBox = [i \in 1..n |-> b.cache[n + 1 - i]] \o @, !.cache = <<>>]

(* restore: what is still in the cacheBox goes behind what was set aside.  *)
Restore(b) == [b EXCEPT !.cacheBox = b.cache \o @, !.cache = <<>>]

(* The message satisfies the condition, or the condition raises an error.  *)
TakeFirst(b) == Restore(Rest(b))

(* Variant: a receive that times out does not restore.                     *)
GiveUpKeeps(b) == b

(* recv returns nil.                                                       *)
GiveUp(b) == Restore(b)

(* Everything the process has been sent and not yet taken.                 *)
Pending(b) == b.cache \o b.cacheBox \o b.box

(* s without its i-th element (RemoveAt of SequencesExt, spelled out: with *)
(* that module in the context the provers take four times as long).        *)
Without(s, i) == SubSeq(s, 1, i - 1) \o SubSeq(s, i + 1, Len(s))
=============================================================================
