--------------------------- MODULE PidTableProofs ---------------------------
(***************************************************************************)
(* Proofs about PidTable, for a map of any size.                           *)
(***************************************************************************)
EXTENDS PidTable, TLAPS

PidInv == TypeOK /\ NextIsFree

(* What CreateNode may do to the map: enter a process at a free pid, or    *)
(* fail; NodeId never goes back.                                           *)
Created(id, n) ==
    /\ id \in Slots \ used
    /\ n \in Nat /\ nodeId <= n
    /\ Construct(id, n, "ordinary") \/ Construct(id, n, "bound")

(* A creation that takes the next id takes a free one.                     *)
LEMMA CreateNextFree ==
    ASSUME PidInv, CreateNext
    PROVE  Created(nodeId, nodeId)
  BY PidAssumption DEF PidInv, TypeOK, NextIsFree, CreateNext, Created, Slots

(* A creation that searches ends with a free id, or finds none.            *)
LEMMA SearchFree ==
    ASSUME PidInv, CreateSearch
    PROVE  /\ nodeId >= Size
           /\ \/ \E id \in Slots, n \in Nat : Created(id, n)
              \/ /\ \E n \in Nat : nodeId <= n /\ Fails(n, "overrun")
              \/ /\ \E n \in Nat : nodeId <= n /\ Fails(n, "full")
                 /\ \A i \in Slots : i > Reserved => i \in used
  <1> DEFINE over == IF nodeId % Size = 0 THEN Reserved + 1 ELSE 0
             current == (nodeId % Size) + over
             above == Free(current, Size)
             below == Free(Reserved + 1, current)
  <1>1. /\ nodeId \in Nat /\ over \in Nat /\ current \in Nat
        /\ nodeId + over \in Nat /\ nodeId <= nodeId + over
    BY PidAssumption DEF PidInv, TypeOK
  <1>2. nodeId >= Size
    BY DEF CreateSearch
  <1>3. ASSUME NEW S, S \subseteq Slots \ used, TakeFirst(S, nodeId + over)
        PROVE  \E id \in Slots, n \in Nat : Created(id, n)
    BY <1>1, <1>3 DEF TakeFirst, Created
  <1>4. above \subseteq Slots \ used /\ below \subseteq Slots \ used
    BY DEF Free
  <1>5. CASE TakeFirst(above, nodeId + over)
    BY <1>2, <1>3, <1>4, <1>5
  <1>6. CASE TakeFirst(below, nodeId + over)
    BY <1>2, <1>3, <1>4, <1>6
  <1>7. CASE above = {} /\ below = {} /\ current <= Reserved /\ Fails(nodeId + over, "overrun")
    BY <1>1, <1>2, <1>7
  <1>8. CASE above = {} /\ below = {} /\ ~(current <= Reserved) /\ Fails(nodeId + over, "full")
    <2>1. \A i \in Slots : i > Reserved => i \in used
      BY <1>1, <1>8, PidAssumption DEF Free, Slots
    <2> QED
      BY <1>1, <1>2, <1>8, <2>1
  <1> QED
    BY <1>5, <1>6, <1>7, <1>8 DEF CreateSearch

(* A creation under a reserved pid takes it when it is free.               *)
LEMMA BoundFree ==
    ASSUME PidInv, CreateBound
    PROVE  \/ \E id \in Slots : id <= Reserved /\ Created(id, nodeId)
           \/ Fails(nodeId, "refused")
  BY PidAssumption DEF PidInv, TypeOK, CreateBound, Created, Slots

(* A created process keeps the invariant.                                  *)
LEMMA CreatedKeeps ==
    ASSUME PidInv, NEW id \in Slots, NEW n \in Nat, Created(id, n),
           nodeId >= Size \/ id <= nodeId
    PROVE  PidInv'
  <1>1. /\ nodeId' = n + 1 /\ nodeId <= n /\ nodeId \in Nat /\ nodeId > Reserved
        /\ \/ used' = used \cup {id} /\ pid' = id
           \/ used' = used /\ pid' = pid
        /\ how' \in Outcomes
    BY DEF PidInv, TypeOK, NextIsFree, Created, Construct, Outcomes
  <1>2. TypeOK'
    BY <1>1 DEF PidInv, TypeOK
  <1>3. NextIsFree'
    <2>1. \A i \in used : i \in Nat /\ (nodeId < Size => i < nodeId)
      BY PidAssumption DEF PidInv, TypeOK, NextIsFree, Slots
    <2>2. id \in Nat /\ n \in Nat /\ Size \in Nat /\ Reserved \in Nat
      BY PidAssumption DEF Slots
    <2>3. nodeId' > Reserved
      BY <1>1, <2>2
    <2>4. ASSUME nodeId' < Size, NEW i \in used' PROVE i < nodeId'
      <3>1. nodeId < Size /\ id <= nodeId
        BY <1>1, <2>2, <2>4
      <3>2. i \in used \/ i = id
        BY <1>1
      <3> QED
        BY <1>1, <2>1, <2>2, <3>1, <3>2
    <2> QED
      BY <2>3, <2>4 DEF NextIsFree
  <1> QED
    BY <1>2, <1>3 DEF PidInv

(* A creation that fails keeps the invariant.                              *)
LEMMA FailsKeeps ==
    ASSUME PidInv, NEW n \in Nat, nodeId <= n, NEW kind \in Outcomes, Fails(n, kind)
    PROVE  PidInv'
  BY PidAssumption DEF PidInv, TypeOK, NextIsFree, Fails, Slots

(* Every step keeps the invariant.                                         *)
LEMMA PidStep == PidInv /\ [Next]_vars => PidInv'
  <1> SUFFICES ASSUME PidInv, [Next]_vars PROVE PidInv'
    OBVIOUS
  <1>0. nodeId \in Nat /\ nodeId > Reserved
    BY DEF PidInv, TypeOK, NextIsFree
  <1>1. CASE CreateNext
    BY <1>0, <1>1, CreateNextFree, CreatedKeeps DEF Created
  <1>2. CASE CreateSearch
    BY <1>2, SearchFree, CreatedKeeps, FailsKeeps DEF Outcomes
  <1>3. CASE CreateBound
    <2>1. CASE Fails(nodeId, "refused")
      BY <1>0, <2>1, FailsKeeps DEF Outcomes
    <2>2. ASSUME NEW id \in Slots, id <= Reserved, Created(id, nodeId) PROVE PidInv'
      BY <1>0, <2>2, CreatedKeeps, PidAssumption DEF Slots
    <2> QED
      BY <1>3, <2>1, <2>2, BoundFree
  <1>4. CASE Destory
    BY <1>4 DEF Destory, PidInv, TypeOK, NextIsFree, Outcomes
  <1>5. CASE UNCHANGED vars
    BY <1>5 DEF vars, PidInv, TypeOK, NextIsFree
  <1> QED
    BY <1>1, <1>2, <1>3, <1>4, <1>5 DEF Next

(* The invariant holds in every reachable state.                           *)
LEMMA PidInvariance == Spec => []PidInv
  <1>1. Init => PidInv
    BY PidAssumption DEF Init, PidInv, TypeOK, NextIsFree, Slots, Outcomes
  <1> QED
    BY <1>1, PidStep, PTL DEF Spec

(* CreateNode, SpawnEx and Destory write only entries that the map has.    *)
THEOREM TypeCorrect == Spec => []TypeOK
  <1>1. PidInv => TypeOK
    BY DEF PidInv
  <1> QED
    BY <1>1, PidInvariance, PTL

-----------------------------------------------------------------------------
(* As long as pids are handed out in order, the next one is free, whatever *)
(* was bound, destroyed or thrown before.                                  *)
THEOREM NextStaysFree == Spec => []NextIsFree
  <1>1. PidInv => NextIsFree
    BY DEF PidInv
  <1> QED
    BY <1>1, PidInvariance, PTL

(* CreateNode never overwrites the entry of a process that exists.         *)
THEOREM NeverOverwrites == Spec => NoneOverwritten
  <1>1. PidInv /\ [Next]_vars
          => [how' \in {"ordinary", "bound"} => pid' \notin used]_vars
    <2> SUFFICES ASSUME PidInv, Next, how' \in {"ordinary", "bound"}
                 PROVE  pid' \notin used
      OBVIOUS
    <2>1. ASSUME NEW id, NEW n, Created(id, n) PROVE pid' \notin used
      BY <2>1 DEF Created, Construct
    <2>2. ~ \E n \in Nat, kind \in {"overrun", "full", "refused"} : Fails(n, kind)
      BY DEF Fails
    <2>3. nodeId \in Nat
      BY DEF PidInv, TypeOK
    <2>4. ~ Destory
      BY DEF Destory
    <2> QED
      BY <2>1, <2>2, <2>3, <2>4, CreateNextFree, SearchFree, BoundFree DEF Next
  <1> QED
    BY <1>1, PidInvariance, PTL DEF Spec, NoneOverwritten

(* Spawns keep off the reserved pids and inside the map while NodeId does. *)
THEOREM KeepsOff == Spec => SearchKeepsOff
  <1>1. PidInv /\ [Next]_vars
          => [nodeId % Size \notin 1..Reserved =>
                how' # "overrun" /\ (how' = "ordinary" => pid' > Reserved)]_vars
    <2> SUFFICES ASSUME PidInv, Next, nodeId % Size \notin 1..Reserved
                 PROVE  how' # "overrun" /\ (how' = "ordinary" => pid' > Reserved)
      OBVIOUS
    <2>0. nodeId \in Nat /\ nodeId > Reserved
      BY DEF PidInv, TypeOK, NextIsFree
    <2>1. CASE CreateNext
      BY <2>0, <2>1 DEF CreateNext, Construct
    <2>2. CASE CreateSearch
      <3> DEFINE over == IF nodeId % Size = 0 THEN Reserved + 1 ELSE 0
                 current == (nodeId % Size) + over
                 above == Free(current, Size)
                 below == Free(Reserved + 1, current)
      <3>1. current \in Nat /\ current > Reserved
        BY <2>0, PidAssumption
      <3>2. \A i \in above \cup below : i > Reserved
        BY <3>1, PidAssumption DEF Free, Slots
      <3>3. ASSUME NEW S, S \subseteq above \cup below, TakeFirst(S, nodeId + over)
            PROVE  how' # "overrun" /\ (how' = "ordinary" => pid' > Reserved)
        BY <3>2, <3>3 DEF TakeFirst, Construct
      <3>4. CASE Fails(nodeId + over, "full")
        BY <3>4 DEF Fails
      <3>5. ~(current <= Reserved)
        BY <3>1, PidAssumption
      <3> QED
        BY <2>2, <3>3, <3>4, <3>5 DEF CreateSearch
    <2>3. CASE CreateBound
      BY <2>3 DEF CreateBound, Construct, Fails
    <2>4. CASE Destory
      BY <2>4 DEF Destory
    <2> QED
      BY <2>1, <2>2, <2>3, <2>4 DEF Next
  <1> QED
    BY <1>1, PidInvariance, PTL DEF Spec, SearchKeepsOff

(* The map is reported full only when it is, wherever the search began.    *)
THEOREM FullIsFull == Spec => FullOnlyWhenFull
  <1>1. PidInv /\ [Next]_vars
          => [how' = "full" => \A i \in Slots : i > Reserved => i \in used]_vars
    <2> SUFFICES ASSUME PidInv, Next, how' = "full"
                 PROVE  \A i \in Slots : i > Reserved => i \in used
      OBVIOUS
    <2>1. ~ (CreateNext \/ CreateBound \/ Destory)
      BY DEF CreateNext, CreateBound, Construct, Fails, Destory
    <2>2. ~ \E id \in Slots, n \in Nat : Created(id, n)
      BY DEF Created, Construct
    <2>3. ~ \E n \in Nat : Fails(n, "overrun")
      BY DEF Fails
    <2> QED
      BY <2>1, <2>2, <2>3, SearchFree DEF Next
  <1> QED
    BY <1>1, PidInvariance, PTL DEF Spec, FullOnlyWhenFull
=============================================================================
