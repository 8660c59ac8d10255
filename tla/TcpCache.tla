------------------------------ MODULE TcpCache ------------------------------
(***************************************************************************)
(* The receive buffer of a stream link (GLR/Controllers/                   *)
(* SocketController.hpp): a block of _Buf.size() bytes of which those from *)
(* _Begin up to _End are received and not yet taken.  Only the indices are *)
(* modelled; which bytes they delimit is SocketLink's.                     *)
(***************************************************************************)
EXTENDS Integers

CONSTANTS PageSize,  \* GLR_PAGE_SIZE
          Step       \* GLR_STEP_SIZE

ASSUME CacheAssumption ==
    PageSize \in Nat /\ Step \in Nat /\ 0 < Step /\ Step < PageSize

Caches == [size : Nat, begin : Nat, end : Nat]

NewCache == [size |-> PageSize, begin |-> 0, end |-> 0]

Reserved(c) == c.size - c.end
DataSize(c) == c.end - c.begin

(* len bytes were received at Cursor(): a buffer that is full to its end   *)
(* is doubled, or its data are moved down to make room.                    *)
Grow(c, len) ==
    LET end == c.end + len IN
    IF c.size - end > 0 THEN [c EXCEPT !.end = end]
    ELSE IF end - c.begin > c.size - Step
         THEN [c EXCEPT !.end = end, !.size = 2 * c.size]
         ELSE [c EXCEPT !.begin = 0, !.end = end - c.begin]

(* Taking len bytes, with len at most DataSize.                            *)
Eat(c, len) ==
    IF c.begin + len = c.end THEN [c EXCEPT !.begin = 0, !.end = 0]
    ELSE [c EXCEPT !.begin = c.begin + len]
=============================================================================
