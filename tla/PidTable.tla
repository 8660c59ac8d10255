------------------------------ MODULE PidTable ------------------------------
(***************************************************************************)
(* The allocation of process ids: CreateNode and the constructor of        *)
(* Process in GLR/LuaNode.cpp, which run under the map's write lock.  Pid  *)
(* 0 is the first process's; 1 .. Reserved - 1 are given to the processes  *)
(* that ask for them (spawn_ex); the others are handed out in order until  *)
(* NodeId has reached the size of the map, and by a search from then on.   *)
(* NodeId also grows when a bound process is created and when the          *)
(* constructor throws.                                                     *)
(***************************************************************************)
EXTENDS Integers

CONSTANTS Size,      \* NodeMap.size(), MAX_PROCESS_ID
          Reserved,  \* RESERVED_PID
          Bindable,  \* the pids that programs ask for with spawn_ex
          MaxNodeId  \* bound: nothing is created once NodeId has got there

ASSUME PidAssumption ==
    /\ Size \in Nat /\ Reserved \in Nat /\ Reserved + 1 < Size
    /\ Bindable \subseteq 1..(Reserved - 1)
    /\ MaxNodeId \in Nat

VARIABLES used,    \* the pids whose NodeMap entry is not NULL
          nodeId,  \* Process::NodeId
          pid,     \* the pid the last CreateNode gave
          how      \* what the last operation did

vars == <<used, nodeId, pid, how>>

Slots == 0..(Size - 1)
Outcomes == {"ordinary", "bound", "thrown", "refused", "full", "overrun",
             "first", "destroyed"}

(* Runtime::Entry has created the first process.                           *)
Init ==
    /\ used = {0}
    /\ nodeId = Reserved + 1
    /\ pid = 0
    /\ how = "first"

(* Nothing is modelled of a run that has read past the end of the map.     *)
Creating == nodeId < MaxNodeId /\ how # "overrun"

(* new Process(id), with NodeId at n: it counts up, then may throw before  *)
(* the entry is written.                                                   *)
Construct(id, n, kind) ==
    /\ nodeId' = n + 1
    /\ \/ /\ used' = used \cup {id}
          /\ pid' = id
          /\ how' = kind
       \/ /\ how' = "thrown"
          /\ UNCHANGED <<used, pid>>

Fails(n, kind) ==
    /\ nodeId' = n
    /\ how' = kind
    /\ UNCHANGED <<used, pid>>

(* spawn while NodeId is inside the map.                                   *)
CreateNext ==
    /\ Creating
    /\ nodeId < Size
    /\ Construct(nodeId, nodeId, "ordinary")

(* The free entries of first .. last - 1, and taking the first of some.    *)
Free(first, last) == {i \in Slots \ used : first <= i /\ i < last}

TakeFirst(S, n) ==
    \E id \in S : (\A i \in S : id <= i) /\ Construct(id, n, "ordinary")

(* Variant: the search does not begin again at the first ordinary pid.     *)
CreateSearchUp ==
    LET over == IF nodeId % Size = 0 THEN Reserved + 1 ELSE 0
        current == (nodeId % Size) + over
        above == Free(current, Size)
    IN
    /\ Creating
    /\ nodeId >= Size
    /\ \/ TakeFirst(above, nodeId + over)
       \/ /\ above = {}
          /\ Fails(nodeId + over, "full")

(* Variant: the reserved pids are not stepped over when NodeId wraps.      *)
CreateSearchLow ==
    LET current == nodeId % Size
        above == Free(current, Size)
        below == Free(Reserved + 1, current)
    IN
    /\ Creating
    /\ nodeId >= Size
    /\ \/ TakeFirst(above, nodeId)
       \/ above = {} /\ TakeFirst(below, nodeId)
       \/ /\ above = {} /\ below = {}
          /\ Fails(nodeId, IF current <= Reserved THEN "overrun" ELSE "full")

(* Variant: the entry at NodeId % Size is taken without a look at it.      *)
CreateSearchBlind ==
    LET over == IF nodeId % Size = 0 THEN Reserved + 1 ELSE 0 IN
    /\ Creating
    /\ nodeId >= Size
    /\ Construct((nodeId % Size) + over, nodeId + over, "ordinary")

(* spawn after that: from NodeId % Size, which steps over the reserved     *)
(* pids when it is 0, to the end, then from the first ordinary pid.  The   *)
(* second loop ends at i == current only: with a current below its first i *)
(* it goes past the end of the map.                                        *)
CreateSearch ==
    LET over == IF nodeId % Size = 0 THEN Reserved + 1 ELSE 0
        current == (nodeId % Size) + over
        above == Free(current, Size)
        below == Free(Reserved + 1, current)
    IN
    /\ Creating
    /\ nodeId >= Size
    /\ \/ TakeFirst(above, nodeId + over)
       \/ above = {} /\ TakeFirst(below, nodeId + over)
       \/ /\ above = {} /\ below = {}
          /\ Fails(nodeId + over, IF current <= Reserved THEN "overrun" ELSE "full")

(* spawn_ex: CreateNode(bindPid), refused if the pid is in use.            *)
CreateBound ==
    /\ Creating
    /\ \E id \in Bindable :
          IF id \in used THEN Fails(nodeId, "refused")
          ELSE Construct(id, nodeId, "bound")

(* Process::Destory clears the entry.                                      *)
Destory ==
    /\ how # "overrun"
    /\ \E id \in used : used' = used \ {id}
    /\ how' = "destroyed"
    /\ UNCHANGED <<nodeId, pid>>

Next == CreateNext \/ CreateSearch \/ CreateBound \/ Destory

Spec == Init /\ [][Next]_vars

-----------------------------------------------------------------------------
(* Every entry that is written is one of the map.                          *)
TypeOK ==
    /\ used \subseteq Slots
    /\ nodeId \in Nat
    /\ pid \in Slots
    /\ how \in Outcomes

(* While NodeId is inside the map, no entry at or after it is in use: the  *)
(* pid that is handed out next without a look at the map is free.          *)
NextIsFree ==
    /\ nodeId > Reserved
    /\ nodeId < Size => \A i \in used : i < nodeId

(* A process that is created never takes the entry of one that exists, so  *)
(* none is lost from the map: CreateNode writes NodeMap[node->_Id] after   *)
(* looking at another entry, or at none.                                   *)
NoneOverwritten ==
    [][how' \in {"ordinary", "bound"} => pid' \notin used]_vars

(* spawn fails for want of a pid (LuaNode.cpp:1124, "cannot create more    *)
(* then %zu processes") only when every ordinary pid is in use.            *)
FullOnlyWhenFull ==
    [][how' = "full" => \A i \in Slots : i > Reserved => i \in used]_vars

(* Unless NodeId itself has come to stand among the reserved pids (which   *)
(* only a bound spawn at a wrap brings about), CreateNode gives an         *)
(* ordinary process no reserved pid (LuaNode.cpp:30, "step over supervisor *)
(* binded pid"; 33, "reserve first 12 id for special services") and ends   *)
(* its search inside the map.                                              *)
SearchKeepsOff ==
    [][nodeId % Size \notin 1..Reserved =>
          how' # "overrun" /\ (how' = "ordinary" => pid' > Reserved)]_vars
=============================================================================
