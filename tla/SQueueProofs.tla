---------------------------- MODULE SQueueProofs ----------------------------
(***************************************************************************)
(* Proofs about SQueue, for any threads, pools, depth and timeouts.        *)
(***************************************************************************)
EXTENDS SQueue, TLAPS, FiniteSetTheorems, SequenceTheorems

(* Counting the threads of a set when one of them joins or leaves it.      *)
LEMMA Count ==
    ASSUME NEW S \in SUBSET Threads, NEW t \in Threads
    PROVE  /\ IsFiniteSet(S) /\ Cardinality(S) \in Nat
           /\ Cardinality(S) = 0 <=> S = {}
           /\ t \in S => Cardinality(S \ {t}) = Cardinality(S) - 1
           /\ t \notin S => Cardinality(S \cup {t}) = Cardinality(S) + 1
  <1>1. IsFiniteSet(S)
    BY FS_Subset, SQueueAssumption
  <1> QED
    BY <1>1, FS_CardinalityType, FS_EmptySet, FS_AddElement, FS_RemoveElement

(* A subset has no more threads.                                           *)
LEMMA CountSubset ==
    ASSUME NEW S \in SUBSET Threads, NEW T \in SUBSET S
    PROVE  Cardinality(T) \in Nat /\ Cardinality(T) <= Cardinality(S)
  BY FS_Subset, FS_CardinalityType, SQueueAssumption

-----------------------------------------------------------------------------
(* Types *)

(* TypeOK, less the upper bounds of the pools.                             *)
Sleeps == {"no", "asleep", "woken", "expired"}

Stocks ==
    /\ catch \in Nat /\ priv \in Nat /\ pool \in Nat /\ others \in Nat /\ pages \in Nat
    /\ queue \in Seq(Nat) /\ size \in [Threads -> Nat]

Waiting ==
    /\ wat \in [Waits -> Nat]
    /\ at \in [Threads -> Where]
    /\ sleep \in [Threads -> Sleeps]
    /\ \A t \in Threads : sleep[t] # "no" => at[t] \in Waits
    /\ mode \in [Threads -> Modes]
    /\ dead \subseteq Threads

Types == Stocks /\ Waiting

LEMMA StocksStep ==
    ASSUME Types, [Next]_vars
    PROVE  Stocks'
  <1> USE DEF poolVars, Types, Stocks
  <1>1. CASE UNCHANGED <<poolVars, queue, size>>
    BY <1>1
  <1>2. ASSUME NEW t \in Threads, GiveUp(t)
        PROVE  Stocks'
    BY <1>2 DEF GiveUp
  <1>3. ASSUME NEW t \in Threads, GetNode(t)
        PROVE  Stocks'
    BY <1>3 DEF GetNode, Passes, Open, FromPool
  <1>4. ASSUME NEW t \in Threads, Allocate(t)
        PROVE  Stocks'
    BY <1>4 DEF Allocate
  <1>5. ASSUME NEW t \in Threads, DoorPut(t)
        PROVE  Stocks'
    <2>1. Append(queue, size[t]) \in Seq(Nat)
      BY AppendProperties
    <2> QED
      BY <1>5, <2>1 DEF DoorPut
  <1>6. ASSUME NEW t \in Threads, DoorGet(t)
        PROVE  Stocks'
    <2>1. queue # <<>>
      BY <1>6 DEF DoorGet, Passes, Open
    <2>2. Head(queue) \in Nat /\ Tail(queue) \in Seq(Nat)
      BY <2>1, HeadTailProperties
    <2> QED
      BY <1>6, <2>2 DEF DoorGet
  <1>7. ASSUME NEW t \in Threads, Free(t)
        PROVE  Stocks'
    BY <1>7 DEF Free, Freed
  <1>8. ASSUME NEW t \in Threads, Back(t)
        PROVE  Stocks'
    BY <1>8 DEF Back
  <1>9. ASSUME NEW t \in Threads, NEW m \in Modes, Put(t, m)
        PROVE  Stocks'
    BY <1>9, SQueueAssumption, Zenon DEF Put
  <1>10. CASE OtherPut \/ OtherGet
    BY <1>10 DEF OtherPut, OtherGet
  <1> QED
    BY <1>1, <1>2, <1>3, <1>4, <1>5, <1>6, <1>7, <1>8, <1>9, <1>10
       DEF vars, Next, Step, Hibernate, Spurious, Expire, Crash, Get

(* The two outcomes of NotifyOne: nobody is woken, or one that slept at c. *)
LEMMA NotifyEffect ==
    ASSUME Waiting, NEW c \in Waits, NEW s, Notify(c, s)
    PROVE  \/ /\ wat[c] = 0 \/ Asleep(c) = {}
              /\ sleep' = s
              /\ wat' = [wat EXCEPT ![c] = IF wat[c] = 0 THEN 0 ELSE wat[c] - 1]
           \/ /\ wat[c] > 0
              /\ \E u \in Asleep(c) : sleep' = [s EXCEPT ![u] = "woken"]
              /\ wat' = [wat EXCEPT ![c] = wat[c] - 1]
  <1>1. wat[c] \in Nat
    BY DEF Waiting
  <1>2. CASE wat[c] = 0
    BY <1>2 DEF Notify, Waiting
  <1>3. CASE wat[c] # 0
    BY <1>1, <1>3 DEF Notify
  <1> QED
    BY <1>2, <1>3

(* A thread that moves on does not sleep afterwards, and the signal it may *)
(* give goes to a thread that stays where it sleeps.                       *)
LEMMA MoveTypes ==
    ASSUME Waiting, NEW t \in Threads, NEW w \in Where, Goto(t, w), NEW c \in Waits,
           MayRun(t),
           \/ sleep' = [sleep EXCEPT ![t] = "no"] /\ wat' \in [Waits -> Nat]
           \/ Notify(c, [sleep EXCEPT ![t] = "no"]),
           UNCHANGED dead
    PROVE  Waiting'
  <1>1. at' = [at EXCEPT ![t] = w] /\ mode' \in [Threads -> Modes]
    BY DEF Goto, Waiting, Modes
  <1>2. wat' \in [Waits -> Nat]
    BY NotifyEffect DEF Waiting
  <1>3. \/ sleep' = [sleep EXCEPT ![t] = "no"]
        \/ \E u \in Asleep(c) : sleep' = [[sleep EXCEPT ![t] = "no"] EXCEPT ![u] = "woken"]
    BY NotifyEffect, Zenon
  <1>4. t \notin Asleep(c) /\ Asleep(c) \subseteq Threads /\ \A u \in Asleep(c) : at[u] = c
    BY DEF Asleep, MayRun
  <1>5. /\ sleep' \in [Threads -> Sleeps]
        /\ \A u \in Threads : sleep'[u] # "no" => u # t /\ at[u] \in Waits
    BY <1>3, <1>4 DEF Waiting, Sleeps
  <1> QED
    BY <1>1, <1>2, <1>5, Zenon DEF Waiting

LEMMA WaitingStep ==
    ASSUME Types, [Next]_vars
    PROVE  Waiting'
  <1> USE DEF poolVars, Types, Waits
  <1>1. CASE UNCHANGED <<wat, at, sleep, mode, dead>>
    BY <1>1 DEF Waiting
  <1>2. ASSUME NEW t \in Threads, Hibernate(t) \/ Spurious(t) \/ Expire(t)
        PROVE  Waiting'
    BY <1>2 DEF Hibernate, Spurious, Expire, Waiting, Sleeps
  <1>3. ASSUME NEW t \in Threads, GiveUp(t)
        PROVE  Waiting'
    <2>1. wat' \in [Waits -> Nat]
      BY <1>3 DEF GiveUp, CountOut, Waiting
    <2> QED
      BY <1>3, <2>1, MoveTypes, Zenon DEF GiveUp, Where, MayLock
  <1>4. ASSUME NEW t \in Threads, GetNode(t)
        PROVE  Waiting'
    BY <1>4, MoveTypes, Zenon DEF GetNode, Where, Passes, MayLock, Waiting
  <1>5. ASSUME NEW t \in Threads, Allocate(t) \/ Free(t)
        PROVE  Waiting'
    <2>1. sleep[t] = "no"
      BY <1>5 DEF Allocate, Free, Waiting
    <2>2. sleep' = [sleep EXCEPT ![t] = "no"] /\ UNCHANGED <<wat, dead>>
      BY <1>5, <2>1 DEF Allocate, Free, Waiting
    <2>3. \E w \in Where : Goto(t, w)
      BY <1>5 DEF Allocate, Free, Where
    <2> QED
      BY <1>5, <2>2, <2>3, MoveTypes, Zenon DEF Allocate, Free, MayLock, Waiting
  <1>6. ASSUME NEW t \in Threads, DoorPut(t)
        PROVE  Waiting'
    BY <1>6, MoveTypes DEF DoorPut, Where, Passes, MayLock
  <1>7. ASSUME NEW t \in Threads, DoorGet(t)
        PROVE  Waiting'
    BY <1>7, MoveTypes, Zenon DEF DoorGet, Where, Passes, MayLock, Waiting
  <1>8. ASSUME NEW t \in Threads, Back(t)
        PROVE  Waiting'
    <2>1. sleep[t] = "no"
      BY <1>8 DEF Back, Waiting
    <2>2. sleep = [sleep EXCEPT ![t] = "no"]
      BY <2>1 DEF Waiting
    <2>3. Notify("node", [sleep EXCEPT ![t] = "no"])
      BY <1>8, <2>2 DEF Back
    <2>4. \E w \in Where : Goto(t, w)
      BY <1>8 DEF Back, Where
    <2> QED
      BY <1>8, <2>3, <2>4, MoveTypes DEF Back, MayLock
  <1>9. ASSUME NEW t \in Threads, NEW m \in Modes, Get(t, m) \/ Put(t, m)
        PROVE  Waiting'
    BY <1>9 DEF Get, Put, Waiting, Where
  <1>10. ASSUME NEW t \in Threads, Crash(t)
        PROVE  Waiting'
    BY <1>10 DEF Crash, Waiting
  <1> QED
    BY <1>1, <1>2, <1>3, <1>4, <1>5, <1>6, <1>7, <1>8, <1>9, <1>10
       DEF vars, Next, Step, OtherPut, OtherGet

LEMMA TypesInv == Spec => []Types
  <1>1. Init => Types
    BY SQueueAssumption DEF Init, Types, Stocks, Waiting, Where, Sleeps, Modes
  <1>2. Types /\ [Next]_vars => Types'
    BY StocksStep, WaitingStep DEF Types
  <1> QED
    BY <1>1, <1>2, PTL DEF Spec

-----------------------------------------------------------------------------
(* The depth of the queue *)

(* For every depth, thread and timeout: a message is appended only by a    *)
(* thread that has just seen room under the door's lock.                   *)
THEOREM DepthIsKept == Spec => []DepthKept
  <1>1. Init => DepthKept
    BY SQueueAssumption DEF Init, DepthKept
  <1>2. ASSUME Types, DepthKept, [Next]_vars
        PROVE  DepthKept'
    <2> USE <1>2 DEF poolVars, DepthKept
    <2>1. CASE UNCHANGED queue
      BY <2>1
    <2>2. ASSUME NEW t \in Threads, DoorPut(t)
          PROVE  DepthKept'
      <3>1. Len(queue') = Len(queue) + 1 /\ Len(queue) \in Nat
        BY <2>2, AppendProperties DEF DoorPut, Types, Stocks
      <3> QED
        BY <2>2, <3>1, SQueueAssumption DEF DoorPut, Passes, Open
    <2>3. ASSUME NEW t \in Threads, DoorGet(t)
          PROVE  DepthKept'
      <3>1. Len(queue') = Len(queue) - 1 /\ Len(queue) \in Nat
        BY <2>3, HeadTailProperties DEF DoorGet, Passes, Open, Types, Stocks
      <3> QED
        BY <3>1, SQueueAssumption
    <2> QED
      BY <2>1, <2>2, <2>3
         DEF vars, Next, Step, Hibernate, Spurious, Expire, Crash, GiveUp, GetNode,
             Allocate, Free, Back, Get, Put, OtherPut, OtherGet
  <1> QED
    BY <1>1, <1>2, TypesInv, PTL DEF Spec

-----------------------------------------------------------------------------
(* The nodes *)

Holding == {"alloc", "put", "back", "read", "done"}

Moves(t, w) == at' = [at EXCEPT ![t] = w]

(* How the number of the calls that hold a node changes when t moves to w. *)
LEMMA HoldersMove ==
    ASSUME Waiting, NEW t \in Threads, NEW w, Moves(t, w)
    PROVE  /\ Cardinality(HasNode) \in Nat
           /\ Cardinality(HasNode)' = Cardinality(HasNode)
                + (IF w \in Holding THEN 1 ELSE 0)
                - (IF at[t] \in Holding THEN 1 ELSE 0)
  <1>1. HasNode \in SUBSET Threads /\ (t \in HasNode <=> at[t] \in Holding)
    BY DEF HasNode, Holding
  <1>2. HasNode' = IF w \in Holding THEN HasNode \cup {t} ELSE HasNode \ {t}
    BY DEF Moves, HasNode, Holding, Waiting
  <1> DEFINE S == HasNode
  <1> HIDE DEF S
  <1>3. /\ Cardinality(S) \in Nat
        /\ t \in S => Cardinality(S \ {t}) = Cardinality(S) - 1 /\ S \cup {t} = S
        /\ t \notin S => Cardinality(S \cup {t}) = Cardinality(S) + 1 /\ S \ {t} = S
    BY <1>1, Count, Zenon DEF S
  <1>4. Cardinality(S') = Cardinality(S)
                + (IF w \in Holding THEN 1 ELSE 0)
                - (IF at[t] \in Holding THEN 1 ELSE 0)
    <2>1. /\ t \in S <=> at[t] \in Holding
          /\ S' = IF w \in Holding THEN S \cup {t} ELSE S \ {t}
      BY <1>1, <1>2 DEF S
    <2>2. CASE at[t] \in Holding /\ w \in Holding
      <3>1. S' = S
        BY <1>3, <2>1, <2>2
      <3> QED
        BY <1>3, <2>2, <3>1
    <2>3. CASE at[t] \notin Holding /\ w \notin Holding
      <3>1. S' = S
        BY <1>3, <2>1, <2>3
      <3> QED
        BY <1>3, <2>3, <3>1
    <2>4. CASE at[t] \in Holding /\ w \notin Holding
      <3>1. Cardinality(S') = Cardinality(S) - 1
        BY <1>3, <2>1, <2>4
      <3> QED
        BY <1>3, <2>4, <3>1
    <2>5. CASE at[t] \notin Holding /\ w \in Holding
      <3>1. Cardinality(S') = Cardinality(S) + 1
        BY <1>3, <2>1, <2>5
      <3> QED
        BY <1>3, <2>5, <3>1
    <2> QED
      BY <2>2, <2>3, <2>4, <2>5
  <1> QED
    BY <1>3, <1>4 DEF S

NodeInv == NodesKept /\ OwnShare

LEMMA NodeStep ==
    ASSUME Types, NodeInv, [Next]_vars
    PROVE  NodeInv'
  <1> USE DEF poolVars, Holding
  <1> DEFINE held == Cardinality(HasNode)
             len == Len(queue)
             Sums == /\ Nodes = pool + priv + others + len + held
                     /\ priv + len + held >= catch
  <1>1. /\ held \in Nat /\ held' \in Nat /\ len \in Nat /\ len' \in Nat /\ Nodes \in Nat
        /\ catch \in Nat /\ priv \in Nat /\ pool \in Nat /\ others \in Nat
    <2>1. Cardinality(HasNode) \in Nat /\ Cardinality(HasNode') \in Nat
      <3>1. HasNode \in SUBSET Threads /\ HasNode' \in SUBSET Threads
        BY DEF HasNode
      <3> QED
        BY <3>1, CountSubset
    <2>2. Stocks /\ Stocks'
      BY StocksStep DEF Types
    <2>3. Nodes \in Nat
      BY SQueueAssumption
    <2>4. Len(queue) \in Nat /\ Len(queue') \in Nat
      BY <2>2 DEF Stocks
    <2> QED
      BY <2>1, <2>2, <2>3, <2>4 DEF Stocks
  <1>2. Sums
    BY DEF NodeInv, NodesKept, OwnShare
  <1>3. SUFFICES Sums'
    BY DEF NodeInv, NodesKept, OwnShare
  <1>4. ASSUME NEW t \in Threads, NEW w, Moves(t, w)
        PROVE  held' = held + (IF w \in Holding THEN 1 ELSE 0)
                            - (IF at[t] \in Holding THEN 1 ELSE 0)
    BY <1>4, HoldersMove DEF Types
  <1>5. CASE UNCHANGED <<poolVars, queue, at>>
    BY <1>2, <1>5 DEF HasNode
  <1> HIDE DEF held, len
  <1>6. ASSUME NEW t \in Threads, GiveUp(t) \/ Allocate(t) \/ Free(t)
        PROVE  Sums'
    <2>1. held' = held
      <3>1. PICK w : Moves(t, w) /\ (w \in Holding <=> at[t] \in Holding)
        BY <1>6 DEF GiveUp, Allocate, Free, Goto, Waits, Moves
      <3> QED
        BY <1>1, <1>4, <3>1
    <2> QED
      BY <1>2, <1>6, <2>1 DEF len, GiveUp, Allocate, Free
  <1>7. ASSUME NEW t \in Threads, GetNode(t)
        PROVE  Sums'
    <2>0. Moves(t, "alloc") /\ at[t] = "node"
      BY <1>7 DEF GetNode, Goto, Moves
    <2>1. held' = held + 1
      BY <1>1, <1>4, <2>0
    <2>2. len' = len /\ UNCHANGED <<catch, others>>
      BY <1>7 DEF GetNode, len
    <2>3. \/ priv' = priv - 1 /\ pool' = pool
          \/ priv' = priv /\ pool' = pool - 1
      BY <1>7 DEF GetNode
    <2> QED
      BY <1>1, <1>2, <2>1, <2>2, <2>3
  <1>8. ASSUME NEW t \in Threads, DoorPut(t)
        PROVE  Sums'
    <2>0. Moves(t, "idle") /\ at[t] = "put"
      BY <1>8 DEF DoorPut, Goto, Moves
    <2>1. held' = held - 1
      BY <1>1, <1>4, <2>0
    <2>2. len' = len + 1
      BY <1>8, AppendProperties DEF len, DoorPut, Types, Stocks
    <2> QED
      BY <1>1, <1>2, <1>8, <2>1, <2>2 DEF DoorPut
  <1>9. ASSUME NEW t \in Threads, DoorGet(t)
        PROVE  Sums'
    <2>0. Moves(t, "read") /\ at[t] = "get"
      BY <1>9 DEF DoorGet, Goto, Moves
    <2>1. held' = held + 1
      BY <1>1, <1>4, <2>0
    <2>2. len' = len - 1
      BY <1>9, HeadTailProperties DEF len, DoorGet, Passes, Open, Types, Stocks
    <2> QED
      BY <1>1, <1>2, <1>9, <2>1, <2>2 DEF DoorGet
  <1>10. ASSUME NEW t \in Threads, Back(t)
         PROVE  Sums'
    <2>1. held' = held - 1
      <3>1. PICK w \in {"free", "idle"} : Moves(t, w)
        BY <1>10, Zenon DEF Back, Goto, Moves
      <3>2. at[t] \in {"done", "back"}
        BY <1>10 DEF Back
      <3> QED
        BY <1>1, <1>4, <3>1, <3>2
    <2>2. len' = len /\ UNCHANGED <<catch, others>>
      BY <1>10 DEF Back, len
    <2>3. \/ priv' = priv + 1 /\ pool' = pool
          \/ priv' = priv /\ pool' = pool + 1 /\ ~(priv < catch)
      BY <1>10 DEF Back, Keep
    <2> QED
      BY <1>1, <1>2, <2>1, <2>2, <2>3
  <1>11. ASSUME NEW t \in Threads, NEW m \in Modes, Get(t, m) \/ Put(t, m)
         PROVE  Sums'
    <2>1. held' = held
      <3>1. PICK w \in {"get", "node"} : Moves(t, w)
        BY <1>11 DEF Get, Put, Moves
      <3>2. at[t] = "idle"
        BY <1>11 DEF Get, Put
      <3> QED
        BY <1>1, <1>4, <3>1, <3>2
    <2> QED
      BY <1>2, <1>11, <2>1 DEF len, Get, Put
  <1>12. CASE OtherPut \/ OtherGet
    <2>1. held' = held
      BY <1>12 DEF held, OtherPut, OtherGet, HasNode
    <2> QED
      BY <1>1, <1>2, <1>12, <2>1 DEF len, OtherPut, OtherGet
  <1> QED
    BY <1>5, <1>6, <1>7, <1>8, <1>9, <1>10, <1>11, <1>12
       DEF vars, Next, Step, Hibernate, Spurious, Expire, Crash

LEMMA NodeInvariant == Spec => []NodeInv
  <1>1. Init => NodeInv
    <2> SUFFICES ASSUME Init PROVE NodeInv
      OBVIOUS
    <2>1. HasNode = {} /\ Cardinality({}) = 0 /\ Len(queue) = 0
      BY FS_EmptySet DEF Init, HasNode
    <2>2. catch \in Nat /\ Nodes \in Nat
      BY SQueueAssumption DEF Init
    <2> QED
      BY <2>1, <2>2 DEF Init, NodeInv, NodesKept, OwnShare
  <1>2. Types /\ NodeInv /\ [Next]_vars => NodeInv'
    BY NodeStep
  <1> QED
    BY <1>1, <1>2, TypesInv, PTL DEF Spec

(* Whatever gives up, fails or is killed, and whatever the other queues    *)
(* do: every node is in one place (the node part of NothingLeaks).         *)
THEOREM NodesAreKept == Spec => []NodesKept
  <1>1. NodeInv => NodesKept
    BY DEF NodeInv
  <1> QED
    BY <1>1, NodeInvariant, PTL

(* The queue keeps its share of the nodes: CSQPrivatePooler::Put gives a   *)
(* node to the shared pool only when _Catch of them are in the private one.*)
THEOREM ShareIsKept == Spec => []OwnShare
  <1>1. NodeInv => OwnShare
    BY DEF NodeInv
  <1> QED
    BY <1>1, NodeInvariant, PTL

-----------------------------------------------------------------------------
(* The pages *)

(* The pages of one message.                                               *)
LEMMA PagesOfOne ==
    ASSUME NEW x, NEW n \in Nat
    PROVE  IsFiniteSet({x} \X (1..n)) /\ Cardinality({x} \X (1..n)) = n
  <1>1. IsFiniteSet({x}) /\ Cardinality({x}) = 1
    BY FS_Singleton
  <1>2. IsFiniteSet(1..n) /\ Cardinality(1..n) = n
    <2>1. 1 \in Int /\ n \in Int
      OBVIOUS
    <2>2. IsFiniteSet(1..n) /\ Cardinality(1..n) = IF 1 > n THEN 0 ELSE n - 1 + 1
      BY <2>1, FS_Interval
    <2> QED
      BY <2>2
  <1> DEFINE A == {x}
             B == 1..n
  <1> HIDE DEF A, B
  <1>3. IsFiniteSet(A \X B) /\ Cardinality(A \X B) = Cardinality(A) * Cardinality(B)
    BY <1>1, <1>2, FS_Product, Zenon DEF A, B
  <1> QED
    BY <1>1, <1>2, <1>3 DEF A, B

(* Finitely many messages have finitely many pages.                        *)
LEMMA PagesFinite ==
    ASSUME NEW S, IsFiniteSet(S), NEW f, \A x \in S : f[x] \in Nat
    PROVE  IsFiniteSet(PagesOf(f, S)) /\ Cardinality(PagesOf(f, S)) \in Nat
  <1> DEFINE T == {{x} \X (1..f[x]) : x \in S}
             g == [x \in S |-> {x} \X (1..f[x])]
  <1>1. g \in Surjection(S, T)
    BY Zenon DEF Surjection
  <1>2. IsFiniteSet(T)
    <2> HIDE DEF g, T
    <2> QED
      BY <1>1, FS_Surjection
  <1>3. ASSUME NEW x \in S
        PROVE  IsFiniteSet({x} \X (1..f[x]))
    <2>1. f[x] \in Nat
      OBVIOUS
    <2> QED
      BY <2>1, PagesOfOne, Zenon
  <1>4. IsFiniteSet(UNION T)
    BY <1>2, <1>3, FS_UNION, Zenon
  <1> QED
    BY <1>4, FS_CardinalityType DEF PagesOf

(* One message more.                                                       *)
LEMMA PagesAdd ==
    ASSUME NEW S, IsFiniteSet(S), NEW f, \A y \in S : f[y] \in Nat,
           NEW x, x \notin S, f[x] \in Nat
    PROVE  Cardinality(PagesOf(f, S \cup {x})) = Cardinality(PagesOf(f, S)) + f[x]
  <1> DEFINE P == PagesOf(f, S)
             Q == {x} \X (1..f[x])
  <1>1. PagesOf(f, S \cup {x}) = P \cup Q
    BY DEF PagesOf
  <1>2. P \cap Q = {}
    BY DEF PagesOf
  <1>3. IsFiniteSet(P) /\ Cardinality(P) \in Nat
    BY PagesFinite
  <1>4. IsFiniteSet(Q) /\ Cardinality(Q) = f[x]
    BY PagesOfOne, Zenon
  <1> HIDE DEF P, Q
  <1>5. Cardinality(P \cup Q) = Cardinality(P) + Cardinality(Q) - Cardinality(P \cap Q)
    BY <1>3, <1>4, FS_Union
  <1>6. Cardinality(P \cap Q) = 0
    BY <1>2, FS_EmptySet
  <1>7. Cardinality(P \cup Q) = Cardinality(P) + f[x]
    BY <1>3, <1>4, <1>5, <1>6
  <1> QED
    BY <1>1, <1>7, Zenon DEF P

(* The pages depend on nothing but the sizes of the messages.              *)
LEMMA PagesSame ==
    ASSUME NEW S, NEW f, NEW g, \A x \in S : f[x] = g[x]
    PROVE  PagesOf(f, S) = PagesOf(g, S)
  <1>1. {{x} \X (1..f[x]) : x \in S} = {{x} \X (1..g[x]) : x \in S}
    OBVIOUS
  <1> QED
    BY <1>1 DEF PagesOf

InQueue(q) == Cardinality(PagesOf(q, DOMAIN q))
InHands == Cardinality(PagesOf(size, HasPages))

(* The pages of the queue with one message more at its end.                *)
LEMMA QueueAppend ==
    ASSUME NEW q \in Seq(Nat), NEW n \in Nat
    PROVE  InQueue(q) \in Nat /\ InQueue(Append(q, n)) = InQueue(q) + n
  <1> DEFINE r == Append(q, n)
             l == Len(q)
  <1>1. /\ l \in Nat /\ DOMAIN q = 1..l /\ r \in Seq(Nat) /\ DOMAIN r = 1..(l + 1)
        /\ \A i \in 1..l : r[i] = q[i] /\ q[i] \in Nat
        /\ r[l + 1] = n
    BY AppendProperties
  <1> HIDE DEF r, l
  <1>2. 1..(l + 1) = (1..l) \cup {l + 1} /\ l + 1 \notin 1..l
    BY <1>1
  <1>3. IsFiniteSet(1..l)
    BY <1>1, FS_Interval
  <1>4. PagesOf(r, 1..l) = PagesOf(q, 1..l)
    BY <1>1, PagesSame
  <1>5. Cardinality(PagesOf(q, 1..l)) \in Nat
    BY <1>1, <1>3, PagesFinite
  <1>6. \A i \in 1..l : r[i] \in Nat
    BY <1>1
  <1>7. Cardinality(PagesOf(r, (1..l) \cup {l + 1})) = Cardinality(PagesOf(r, 1..l)) + n
    BY <1>1, <1>2, <1>3, <1>6, PagesAdd
  <1> QED
    BY <1>1, <1>2, <1>4, <1>5, <1>7, Zenon DEF InQueue, r

(* The pages of the queue without its first message: the others move up.   *)
LEMMA QueueTail ==
    ASSUME NEW q \in Seq(Nat), q # <<>>
    PROVE  /\ InQueue(q) \in Nat /\ InQueue(Tail(q)) \in Nat
           /\ InQueue(q) = InQueue(Tail(q)) + Head(q)
  <1> DEFINE r == Tail(q)
             l == Len(q)
             P == PagesOf(q, 2..l)
             R == PagesOf(r, 1..(l - 1))
             up == [p \in P |-> <<p[1] - 1, p[2]>>]
  <1>1. /\ l \in Nat \ {0} /\ DOMAIN q = 1..l /\ r \in Seq(Nat) /\ DOMAIN r = 1..(l - 1)
        /\ \A i \in 1..l : q[i] \in Nat
        /\ \A i \in 1..(l - 1) : r[i] = q[i + 1]
        /\ q[1] = Head(q)
    BY HeadTailProperties
  <1> HIDE DEF r, l
  <1>2. 1..l = (2..l) \cup {1} /\ 1 \notin 2..l /\ 2..l \subseteq 1..l
    BY <1>1
  <1>3. IsFiniteSet(2..l) /\ IsFiniteSet(1..(l - 1))
    BY <1>1, FS_Interval
  <1>4. Cardinality(PagesOf(q, (2..l) \cup {1})) = Cardinality(P) + q[1]
    <2> DEFINE S == 2..l
               x == 1
    <2>1. IsFiniteSet(S) /\ x \notin S /\ (\A i \in S : q[i] \in Nat) /\ q[x] \in Nat
      BY <1>1, <1>2, <1>3
    <2> HIDE DEF S, x
    <2>2. Cardinality(PagesOf(q, S \cup {x})) = Cardinality(PagesOf(q, S)) + q[x]
      BY <2>1, PagesAdd
    <2> QED
      BY <2>2 DEF S, x
  <1>5. \A i, k : <<i, k>> \in P <=> i \in 2..l /\ k \in 1..q[i]
    BY DEF PagesOf
  <1>6. \A i, k : <<i, k>> \in R <=> i \in 1..(l - 1) /\ k \in 1..r[i]
    BY DEF PagesOf
  <1>7. /\ \A p \in P : \E i, k : p = <<i, k>>
        /\ \A p \in R : \E i, k : p = <<i, k>>
    BY DEF PagesOf
  <1>8. IsFiniteSet(P) /\ Cardinality(P) \in Nat
    BY <1>1, <1>2, <1>3, PagesFinite
  <1> HIDE DEF P, R
  <1>9. up \in [P -> R]
    <2> SUFFICES ASSUME NEW p \in P PROVE <<p[1] - 1, p[2]>> \in R
      OBVIOUS
    <2>1. PICK i, k : p = <<i, k>>
      BY <1>7
    <2>2. i \in 2..l /\ k \in 1..q[i]
      BY <1>5, <2>1
    <2>3. i - 1 \in 1..(l - 1) /\ r[i - 1] = q[i]
      BY <1>1, <2>2
    <2> QED
      BY <1>6, <2>1, <2>2, <2>3, Zenon
  <1>10. ASSUME NEW a \in P, NEW b \in P, up[a] = up[b]
         PROVE  a = b
    <2>1. PICK i, k : a = <<i, k>>
      BY <1>7
    <2>2. PICK j, m : b = <<j, m>>
      BY <1>7
    <2>3. i \in 2..l /\ j \in 2..l
      BY <1>5, <2>1, <2>2
    <2>4. <<i - 1, k>> = <<j - 1, m>>
      BY <1>10, <2>1, <2>2
    <2> QED
      BY <1>1, <2>1, <2>2, <2>3, <2>4
  <1>11. ASSUME NEW c \in R
         PROVE  \E a \in P : up[a] = c
    <2>1. PICK i, k : c = <<i, k>>
      BY <1>7
    <2>2. i \in 1..(l - 1) /\ k \in 1..r[i]
      BY <1>6, <2>1
    <2>3. i + 1 \in 2..l /\ r[i] = q[i + 1] /\ (i + 1) - 1 = i
      BY <1>1, <2>2
    <2>4. <<i + 1, k>> \in P
      BY <1>5, <2>2, <2>3
    <2>5. up[<<i + 1, k>>] = <<(i + 1) - 1, k>>
      BY <2>4
    <2> QED
      BY <2>1, <2>3, <2>4, <2>5
  <1>12. ExistsBijection(P, R)
    <2> HIDE DEF up
    <2>1. up \in Bijection(P, R)
      BY <1>9, <1>10, <1>11 DEF Bijection, Injection, IsInjective, Surjection
    <2> QED
      BY <2>1 DEF ExistsBijection
  <1>13. Cardinality(R) = Cardinality(P)
    BY <1>8, <1>12, FS_Bijection
  <1>14. InQueue(q) = Cardinality(P) + Head(q) /\ InQueue(r) = Cardinality(R)
    BY <1>1, <1>2, <1>4, Zenon DEF InQueue, R
  <1>15. Head(q) \in Nat
    BY <1>1
  <1> QED
    BY <1>8, <1>13, <1>14, <1>15 DEF r

(* The pages in threads' hands: those of t, and those of the others.       *)
LEMMA HandsSplit ==
    ASSUME NEW S \in SUBSET Threads, NEW f \in [Threads -> Nat], NEW t \in Threads
    PROVE  /\ Cardinality(PagesOf(f, S \ {t})) \in Nat
           /\ Cardinality(PagesOf(f, S))
                = Cardinality(PagesOf(f, S \ {t})) + (IF t \in S THEN f[t] ELSE 0)
  <1> DEFINE R == S \ {t}
  <1>1. IsFiniteSet(R) /\ t \notin R /\ (\A u \in R : f[u] \in Nat) /\ f[t] \in Nat
    BY Count, FS_Subset, Zenon
  <1>2. S = IF t \in S THEN R \cup {t} ELSE R
    OBVIOUS
  <1> HIDE DEF R
  <1>3. Cardinality(PagesOf(f, R)) \in Nat
    BY <1>1, PagesFinite
  <1>4. Cardinality(PagesOf(f, R \cup {t})) = Cardinality(PagesOf(f, R)) + f[t]
    BY <1>1, PagesAdd
  <1>5. CASE t \in S
    BY <1>2, <1>3, <1>4, <1>5 DEF R
  <1>6. CASE t \notin S
    BY <1>2, <1>3, <1>6 DEF R
  <1> QED
    BY <1>5, <1>6

Carried(t) == IF t \in HasPages THEN size[t] ELSE 0

(* A step of t changes what t carries, and nothing else in threads' hands. *)
LEMMA HandsMove ==
    ASSUME Types, Types', NEW t \in Threads,
           \A u \in Threads \ {t} : at'[u] = at[u] /\ size'[u] = size[u]
    PROVE  /\ InHands \in Nat /\ InHands' \in Nat
           /\ Carried(t) \in Nat /\ Carried(t)' \in Nat
           /\ InHands' - Carried(t)' = InHands - Carried(t)
  <1> DEFINE S == HasPages \ {t}
  <1>1. HasPages \in SUBSET Threads /\ HasPages' \in SUBSET Threads
    BY DEF HasPages
  <1>2. size \in [Threads -> Nat] /\ size' \in [Threads -> Nat]
    BY DEF Types, Stocks
  <1>3. S' = S
    BY DEF HasPages
  <1>4. PagesOf(size', S) = PagesOf(size, S)
    <2>1. \A u \in S : size'[u] = size[u]
      BY <1>1
    <2> QED
      BY <2>1, PagesSame
  <1>5. /\ Cardinality(PagesOf(size, S)) \in Nat
        /\ InHands = Cardinality(PagesOf(size, S)) + Carried(t)
    BY <1>1, <1>2, HandsSplit DEF InHands, Carried
  <1>6. InHands' = Cardinality(PagesOf(size', S)) + Carried(t)'
    <2>1. Cardinality(PagesOf(size', HasPages')) = Cardinality(PagesOf(size', HasPages' \ {t}))
                                                   + (IF t \in HasPages' THEN size'[t] ELSE 0)
      BY <1>1, <1>2, HandsSplit
    <2> QED
      BY <1>3, <2>1 DEF InHands, Carried
  <1>7. Carried(t) \in Nat /\ Carried(t)' \in Nat
    BY <1>2 DEF Carried
  <1> QED
    BY <1>4, <1>5, <1>6, <1>7

(* The threads that are about to put a message have its size.              *)
Sizes == {Size[t] : t \in Threads}
Sized ==
    /\ queue \in Seq(Sizes)
    /\ \A t \in Threads : size[t] \in {0} \cup Sizes
    /\ \A t \in Threads : at[t] \in {"node", "alloc", "put"} => size[t] \in Sizes
PageInv == Sized /\ PagesKept

LEMMA SizedStep ==
    ASSUME Types, Sized, [Next]_vars
    PROVE  Sized'
  <1> USE DEF poolVars, Types, Stocks, Waiting
  <1>1. CASE UNCHANGED <<queue, at, size>>
    BY <1>1 DEF Sized
  <1>2. ASSUME NEW t \in Threads, GiveUp(t)
        PROVE  Sized'
    BY <1>2 DEF GiveUp, Goto, Sized
  <1>3. ASSUME NEW t \in Threads, GetNode(t) \/ Allocate(t) \/ Free(t) \/ Back(t)
        PROVE  Sized'
    BY <1>3, Zenon DEF GetNode, Allocate, Free, Back, Goto, Sized
  <1>4. ASSUME NEW t \in Threads, DoorPut(t)
        PROVE  Sized'
    <2>1. Append(queue, size[t]) \in Seq(Sizes)
      BY <1>4, AppendProperties, Zenon DEF DoorPut, Sized
    <2> QED
      BY <1>4, <2>1 DEF DoorPut, Goto, Sized
  <1>5. ASSUME NEW t \in Threads, DoorGet(t)
        PROVE  Sized'
    <2>1. Head(queue) \in Sizes /\ Tail(queue) \in Seq(Sizes)
      BY <1>5, HeadTailProperties DEF DoorGet, Passes, Open, Sized
    <2> QED
      BY <1>5, <2>1 DEF DoorGet, Goto, Sized
  <1>6. ASSUME NEW t \in Threads, NEW m \in Modes, Get(t, m) \/ Put(t, m)
        PROVE  Sized'
    BY <1>6, Zenon DEF Get, Put, Sized, Sizes
  <1> QED
    BY <1>1, <1>2, <1>3, <1>4, <1>5, <1>6, Zenon
       DEF vars, Next, Step, Hibernate, Spurious, Expire, Crash, OtherPut, OtherGet

LEMMA PageStep ==
    ASSUME Types, Sized, PagesKept, [Next]_vars
    PROVE  PagesKept'
  <1> USE DEF poolVars
  <1> DEFINE inq == InQueue(queue)
             Sum == Pages = pages + others + inq + InHands
             Same(t) == \A u \in Threads \ {t} : at'[u] = at[u] /\ size'[u] = size[u]
  <1>1. Types'
    BY StocksStep, WaitingStep DEF Types
  <1>2. /\ pages \in Nat /\ others \in Nat /\ pages' \in Nat /\ others' \in Nat
        /\ size \in [Threads -> Nat] /\ queue \in Seq(Nat) /\ at \in [Threads -> Where]
        /\ Pages \in Nat
    BY <1>1, SQueueAssumption, Zenon DEF Types, Stocks, Waiting
  <1>3. inq \in Nat
    BY <1>2, QueueAppend
  <1>4. Sum
    BY DEF PagesKept, InQueue, InHands
  <1>5. SUFFICES Sum'
    BY DEF PagesKept, InQueue, InHands
  <1>6. ASSUME NEW t \in Threads, Same(t)
        PROVE  /\ InHands \in Nat /\ InHands' \in Nat
               /\ Carried(t) \in Nat /\ Carried(t)' \in Nat
               /\ InHands' - Carried(t)' = InHands - Carried(t)
    BY <1>1, <1>6, HandsMove
  <1>7. CASE UNCHANGED <<pages, others, queue, at, size>>
    BY <1>4, <1>7 DEF InHands, HasPages
  <1>8. ASSUME NEW t \in Threads, UNCHANGED <<pages, others, queue>>, Same(t),
               Carried(t)' = Carried(t)
        PROVE  Sum'
    <2>1. InHands' = InHands /\ InHands \in Nat
      BY <1>6, <1>8
    <2> QED
      BY <1>4, <1>8, <2>1
  <1>9. ASSUME NEW t \in Threads, GiveUp(t) \/ GetNode(t) \/ Back(t)
        PROVE  Sum'
    <2>1. Same(t) /\ UNCHANGED <<pages, others, queue>>
      BY <1>2, <1>9 DEF GiveUp, GetNode, Back, Goto
    <2>2. CASE GiveUp(t)
      BY <1>2, <1>8, <2>1, <2>2, Zenon DEF GiveUp, Goto, Waits, Carried, HasPages
    <2>3. CASE GetNode(t)
      BY <1>2, <1>8, <2>1, <2>3, Zenon DEF GetNode, Goto, Carried, HasPages
    <2>4. CASE Back(t)
      <3>1. at[t] \in {"done", "back"} /\ size' = size
            /\ at' = [at EXCEPT ![t] = IF at[t] = "back" /\ size[t] > 0 THEN "free" ELSE "idle"]
        BY <2>4, Zenon DEF Back, Goto
      <3>2. CASE at[t] = "done"
        BY <1>2, <1>8, <2>1, <3>1, <3>2 DEF Carried, HasPages
      <3>3. CASE at[t] = "back"
        BY <1>2, <1>8, <2>1, <3>1, <3>3 DEF Carried, HasPages
      <3> QED
        BY <3>1, <3>2, <3>3
    <2> QED
      BY <1>9, <2>2, <2>3, <2>4
  <1>10. ASSUME NEW t \in Threads, Allocate(t)
         PROVE  Sum'
    <2>1. Same(t) /\ UNCHANGED <<others, queue>> /\ at[t] = "alloc" /\ Carried(t) = 0
      BY <1>2, <1>10 DEF Allocate, Goto, Carried, HasPages
    <2>2. CASE pages >= size[t]
      <3>1. pages' = pages - size[t] /\ Carried(t)' = size[t] /\ size[t] \in Nat
        BY <1>2, <1>10, <2>2 DEF Allocate, Goto, Carried, HasPages
      <3>2. InHands' = InHands + size[t] /\ InHands \in Nat
        BY <1>6, <2>1, <3>1
      <3> HIDE DEF inq
      <3>3. inq' = inq
        BY <2>1 DEF inq
      <3> QED
        BY <1>2, <1>3, <1>4, <2>1, <3>1, <3>2, <3>3
    <2>3. CASE ~(pages >= size[t])
      <3>1. pages' = pages /\ Carried(t)' = 0
        BY <1>2, <1>10, <2>3 DEF Allocate, Goto, Carried, HasPages
      <3> QED
        BY <1>8, <2>1, <3>1
    <2> QED
      BY <2>2, <2>3
  <1>11. ASSUME NEW t \in Threads, Free(t)
         PROVE  Sum'
    <2>1. Same(t) /\ UNCHANGED <<others, queue>> /\ Carried(t) = size[t] /\ Carried(t)' = 0
      BY <1>2, <1>11 DEF Free, Goto, Carried, HasPages
    <2>2. pages' = pages + size[t] /\ size[t] \in Nat
      BY <1>2, <1>11 DEF Free, Freed
    <2>3. InHands' = InHands - size[t] /\ InHands \in Nat
      BY <1>6, <2>1
    <2> HIDE DEF inq
    <2>4. inq' = inq /\ others' = others
      BY <2>1 DEF inq
    <2>5. Sum' <=> Pages = (pages + size[t]) + others + inq + (InHands - size[t])
      BY <2>2, <2>3, <2>4
    <2>6. pages \in Nat /\ others \in Nat
      BY <1>2
    <2>7. (pages + size[t]) + others + inq + (InHands - size[t])
            = pages + others + inq + InHands
      BY <1>3, <2>2, <2>3, <2>6
    <2> QED
      BY <1>4, <2>5, <2>7
  <1>12. ASSUME NEW t \in Threads, DoorPut(t)
         PROVE  Sum'
    <2>1. Same(t) /\ UNCHANGED <<pages, others>> /\ Carried(t) = size[t] /\ Carried(t)' = 0
      BY <1>2, <1>12 DEF DoorPut, Goto, Carried, HasPages
    <2>2. size[t] \in Nat /\ queue' = Append(queue, size[t])
      BY <1>2, <1>12 DEF DoorPut
    <2>3. inq' = inq + size[t]
      BY <1>2, <2>2, QueueAppend
    <2>4. InHands' = InHands - size[t] /\ InHands \in Nat
      BY <1>6, <2>1
    <2> HIDE DEF inq
    <2> QED
      BY <1>2, <1>3, <1>4, <2>1, <2>2, <2>3, <2>4
  <1>13. ASSUME NEW t \in Threads, DoorGet(t)
         PROVE  Sum'
    <2>1. /\ Same(t) /\ UNCHANGED <<pages, others>>
          /\ Carried(t) = 0 /\ Carried(t)' = Head(queue)
      BY <1>2, <1>13 DEF DoorGet, Goto, Carried, HasPages
    <2>2. queue # <<>> /\ queue' = Tail(queue)
      BY <1>13 DEF DoorGet, Passes, Open
    <2>3. inq = inq' + Head(queue) /\ inq' \in Nat
      BY <1>2, <2>2, QueueTail
    <2>4. InHands' = InHands + Head(queue) /\ InHands \in Nat /\ Head(queue) \in Nat
      BY <1>6, <2>1
    <2> HIDE DEF inq
    <2>5. Sum' <=> Pages = pages + others + inq' + (InHands + Head(queue))
      BY <2>1, <2>4
    <2>6. pages \in Nat /\ others \in Nat
      BY <1>2
    <2>7. pages + others + inq' + (InHands + Head(queue)) = pages + others + inq + InHands
      BY <2>3, <2>4, <2>6
    <2> QED
      BY <1>4, <2>5, <2>7, Zenon
  <1>14. ASSUME NEW t \in Threads, NEW m \in Modes, Get(t, m) \/ Put(t, m)
         PROVE  Sum'
    <2>1. /\ Same(t) /\ UNCHANGED <<pages, others, queue>>
          /\ Carried(t) = 0 /\ Carried(t)' = 0
      BY <1>2, <1>14 DEF Get, Put, Carried, HasPages
    <2> QED
      BY <1>8, <2>1
  <1>15. CASE OtherPut \/ OtherGet
    <2>1. UNCHANGED <<queue, InHands>>
      BY <1>15 DEF OtherPut, OtherGet, InHands, HasPages
    <2>2. InHands \in Nat
      <3>1. IsFiniteSet(HasPages) /\ \A t \in HasPages : size[t] \in Nat
        BY <1>2, SQueueAssumption, FS_Subset DEF HasPages
      <3> QED
        BY <3>1, PagesFinite DEF InHands
    <2>3. pages' + others' = pages + others
      <3>1. \/ pages' = pages - 1 /\ others' = others + 1
            \/ pages' = pages + 1 /\ others' = others - 1
        BY <1>15 DEF OtherPut, OtherGet
      <3>2. pages \in Nat /\ others \in Nat
        BY <1>2
      <3> QED
        BY <3>1, <3>2
    <2> HIDE DEF inq
    <2>4. inq' = inq
      BY <2>1 DEF inq
    <2> QED
      BY <1>2, <1>3, <1>4, <2>1, <2>2, <2>3, <2>4, Zenon
  <1> QED
    BY <1>7, <1>9, <1>10, <1>11, <1>12, <1>13, <1>14, <1>15, Zenon
       DEF vars, Next, Step, Hibernate, Spurious, Expire, Crash

LEMMA PageInvariant == Spec => []PageInv
  <1>1. Init => PageInv
    <2> SUFFICES ASSUME Init PROVE PageInv
      OBVIOUS
    <2>1. Sized
      BY DEF Init, Sized
    <2>2. HasPages = {} /\ DOMAIN queue = {}
      BY DEF Init, HasPages
    <2>3. PagesOf(queue, {}) = {} /\ PagesOf(size, {}) = {} /\ Cardinality({}) = 0
      BY FS_EmptySet DEF PagesOf
    <2>4. Pages \in Nat
      BY SQueueAssumption
    <2>5. /\ Cardinality(PagesOf(queue, DOMAIN queue)) = 0
          /\ Cardinality(PagesOf(size, HasPages)) = 0
      BY <2>2, <2>3, Zenon
    <2>6. pages = Pages /\ others = 0
      BY DEF Init
    <2> QED
      BY <2>1, <2>4, <2>5, <2>6 DEF PageInv, PagesKept
  <1>2. Types /\ PageInv /\ [Next]_vars => PageInv'
    BY SizedStep, PageStep DEF PageInv
  <1> QED
    BY <1>1, <1>2, TypesInv, PTL DEF Spec

(* The private pool holds no more than _Catch nodes, and only the three    *)
(* locks break.                                                            *)
Capped == catch \in Catches /\ priv <= catch /\ broken \subseteq {"ppl", "door", "alloc"}

LEMMA CappedInvariant == Spec => []Capped
  <1>1. Init => Capped
    BY SQueueAssumption DEF Init, Capped
  <1>2. ASSUME Types, Capped, [Next]_vars
        PROVE  Capped'
    <2> USE <1>2 DEF poolVars, Capped
    <2>1. catch \in Nat /\ priv \in Nat
      BY DEF Types, Stocks
    <2>2. CASE UNCHANGED <<catch, priv, broken>>
      BY <2>2
    <2>3. ASSUME NEW t \in Threads, GetNode(t)
          PROVE  Capped'
      BY <2>1, <2>3 DEF GetNode
    <2>4. ASSUME NEW t \in Threads, Back(t)
          PROVE  Capped'
      BY <2>1, <2>4 DEF Back, Keep
    <2>5. ASSUME NEW t \in Threads, Crash(t)
          PROVE  Capped'
      BY <2>5 DEF Crash, LockOf
    <2> QED
      BY <2>2, <2>3, <2>4, <2>5, Zenon
         DEF vars, Next, Step, Hibernate, Spurious, Expire, GiveUp, Allocate, DoorPut,
             DoorGet, Free, Get, Put, OtherPut, OtherGet
  <1> QED
    BY <1>1, <1>2, TypesInv, PTL DEF Spec

(* Whatever gives up, fails or is killed, and whatever the other queues    *)
(* do: every page is with the allocator, in a queue or in one call's hands *)
(* (CSQAllocator::Allocate and Free, and the CMQNursery of the pages), and *)
(* so is every node; the pools stay within their bounds and the queue      *)
(* keeps its share and its depth.                                          *)
THEOREM NothingIsLost == Spec => []StockKept
  <1>1. ASSUME Types, NodeInv, PageInv, Capped, DepthKept
        PROVE  StockKept
    <2> USE <1>1
    <2>1. /\ catch \in Nat /\ priv \in Nat /\ pool \in Nat /\ others \in Nat /\ pages \in Nat
          /\ Nodes \in Nat /\ Pages \in Nat
      BY SQueueAssumption DEF Types, Stocks
    <2>2. Len(queue) \in Nat /\ Cardinality(HasNode) \in Nat
      <3>1. HasNode \in SUBSET Threads
        BY DEF HasNode
      <3> QED
        BY <3>1, CountSubset DEF Types, Stocks
    <2>3. InQueue(queue) \in Nat /\ InHands \in Nat
      <3>1. queue \in Seq(Nat)
        BY DEF Types, Stocks
      <3>2. IsFiniteSet(HasPages) /\ \A t \in HasPages : size[t] \in Nat
        BY SQueueAssumption, FS_Subset DEF HasPages, Types, Stocks
      <3> QED
        BY <3>1, <3>2, QueueAppend, PagesFinite DEF InHands
    <2>4. pool <= Nodes /\ others <= Nodes
      BY <2>1, <2>2 DEF NodeInv, NodesKept
    <2>5. pages <= Pages
      <3>1. Pages = pages + others + InQueue(queue) + InHands
        BY DEF PageInv, PagesKept, InQueue, InHands
      <3> QED
        BY <2>1, <2>3, <3>1
    <2>6. priv \in 0..catch /\ pool \in 0..Nodes /\ others \in 0..Nodes /\ pages \in 0..Pages
      BY <2>1, <2>4, <2>5 DEF Capped
    <2>7. /\ queue \in Seq({Size[t] : t \in Threads})
          /\ size \in [Threads -> {0} \cup {Size[u] : u \in Threads}]
      BY DEF PageInv, Sized, Sizes, Types, Stocks
    <2>8. TypeOK
      BY <2>6, <2>7 DEF TypeOK, Types, Waiting, Sleeps, Capped
    <2> QED
      BY <2>8 DEF StockKept, NothingLeaks, NodeInv, PageInv
  <1> QED
    BY <1>1, TypesInv, NodeInvariant, PageInvariant, CappedInvariant, DepthIsKept, PTL

-----------------------------------------------------------------------------
(* Wake-ups *)

(* What a step can do to a wait: nothing that matters, let a thread take   *)
(* one, put a thread to sleep, signal a sleeper, signal nobody, or count a *)
(* thread out after its timeout.                                           *)
Fewer(c) == Asleep(c)' \subseteq Asleep(c)
Quiet(c) ==
    Fewer(c) /\ Woken(c) \subseteq Woken(c)' /\ wat'[c] = wat[c] /\ Stock(c)' <= Stock(c)
Taken(c) ==
    /\ Fewer(c) /\ wat'[c] = wat[c]
    /\ Stock(c)' <= Stock(c) - 1 \/ Stock(c)' <= 0
    /\ \E t \in Threads : Woken(c) \ {t} \subseteq Woken(c)'
Slept(c) ==
    /\ wat'[c] = wat[c] + 1 /\ Stock(c)' <= 0
    /\ \E t \in Threads : Asleep(c)' \subseteq Asleep(c) \cup {t}
Signalled(c) ==
    /\ wat[c] > 0 /\ wat'[c] = wat[c] - 1 /\ Stock(c)' <= Stock(c) + 1
    /\ \E u \in Asleep(c) :
          Asleep(c)' = Asleep(c) \ {u} /\ Woken(c) \cup {u} \subseteq Woken(c)'
Unheard(c) ==
    \/ Fewer(c) /\ wat[c] = 0 /\ wat'[c] = 0
    \/ Asleep(c) = {} /\ Asleep(c)' = {} /\ wat[c] > 0 /\ wat'[c] = wat[c] - 1
CountedOut(c) ==
    /\ Fewer(c) /\ Woken(c) \subseteq Woken(c)' /\ Stock(c)' <= Stock(c)
    /\ wat'[c] \in 0..wat[c]
    /\ \E t \in Threads : at[t] = c /\ sleep[t] = "expired" /\ sleep'[t] = "no"

StepKinds(c) ==
    Quiet(c) \/ Taken(c) \/ Slept(c) \/ Signalled(c) \/ Unheard(c) \/ CountedOut(c)

(* The sleepers and the woken when t leaves its place and U are signalled. *)
LEMMA MoveSets ==
    ASSUME Waiting, NEW t \in Threads, MayRun(t), NEW w, Moves(t, w), UNCHANGED dead,
           NEW d \in Waits, NEW U \in SUBSET Asleep(d),
           sleep' = [x \in Threads |-> IF x = t THEN "no"
                                      ELSE IF x \in U THEN "woken" ELSE sleep[x]],
           NEW c \in Waits
    PROVE  /\ Asleep(c)' = IF c = d THEN Asleep(c) \ U ELSE Asleep(c)
           /\ Woken(c)' = IF c = d THEN (Woken(c) \ {t}) \cup U ELSE Woken(c) \ {t}
           /\ t \notin Asleep(c)
  <1>1. /\ t \notin Asleep(c) /\ t \notin U /\ U \subseteq Threads
        /\ \A x \in U : at[x] = d /\ x \notin dead /\ sleep[x] = "asleep"
    BY DEF Asleep, MayRun
  <1>2. \A x \in Threads : x # t => at'[x] = at[x]
    BY DEF Moves, Waiting
  <1>3. Asleep(c)' = IF c = d THEN Asleep(c) \ U ELSE Asleep(c)
    BY <1>1, <1>2 DEF Asleep
  <1>4. Woken(c)' = IF c = d THEN (Woken(c) \ {t}) \cup U ELSE Woken(c) \ {t}
    BY <1>1, <1>2 DEF Woken
  <1> QED
    BY <1>1, <1>3, <1>4

LEMMA NotifySets ==
    ASSUME Waiting, NEW t \in Threads, NEW d \in Waits,
           Notify(d, [sleep EXCEPT ![t] = "no"]), MayRun(t)
    PROVE  \E U \in SUBSET Asleep(d) :
              /\ sleep' = [x \in Threads |-> IF x = t THEN "no"
                                            ELSE IF x \in U THEN "woken" ELSE sleep[x]]
              /\ \/ U = {} /\ (wat[d] = 0 \/ Asleep(d) = {})
                 \/ wat[d] > 0 /\ \E u \in Asleep(d) : U = {u}
              /\ wat' = [wat EXCEPT ![d] = IF wat[d] = 0 THEN 0 ELSE wat[d] - 1]
  <1> DEFINE Woke(U) == [x \in Threads |-> IF x = t THEN "no"
                                           ELSE IF x \in U THEN "woken" ELSE sleep[x]]
             P(U) == /\ sleep' = Woke(U)
                     /\ \/ U = {} /\ (wat[d] = 0 \/ Asleep(d) = {})
                        \/ wat[d] > 0 /\ \E u \in Asleep(d) : U = {u}
                     /\ wat' = [wat EXCEPT ![d] = IF wat[d] = 0 THEN 0 ELSE wat[d] - 1]
  <1> SUFFICES \E U \in SUBSET Asleep(d) : P(U)
    OBVIOUS
  <1>1. wat' = [wat EXCEPT ![d] = IF wat[d] = 0 THEN 0 ELSE wat[d] - 1]
    BY NotifyEffect
  <1>2. CASE sleep' = [sleep EXCEPT ![t] = "no"] /\ (wat[d] = 0 \/ Asleep(d) = {})
    <2>1. P({})
      BY <1>1, <1>2, Zenon DEF Waiting
    <2> QED
      BY <2>1, Zenon
  <1>3. ASSUME NEW u \in Asleep(d), wat[d] > 0,
               sleep' = [[sleep EXCEPT ![t] = "no"] EXCEPT ![u] = "woken"]
        PROVE  \E U \in SUBSET Asleep(d) : P(U)
    <2>1. u # t /\ u \in Threads
      BY DEF Asleep, MayRun
    <2>2. sleep' = Woke({u})
      BY <1>3, <2>1, Zenon DEF Waiting
    <2>3. P({u})
      BY <1>1, <1>3, <2>2, Zenon
    <2> QED
      BY <2>3, Zenon
  <1> HIDE DEF P
  <1> QED
    BY <1>2, <1>3, NotifyEffect, Zenon

(* What the kinds mean for the two properties.                             *)
Minded(c) == Asleep(c) # {} => Stock(c) <= Cardinality(Woken(c)) \/ wat[c] = 0

LEMMA KindsKeep ==
    ASSUME Waiting, NEW c \in Waits, Stock(c) \in Int, Stock(c)' \in Int,
           StepKinds(c), Minded(c)
    PROVE  /\ Minded(c)'
           /\ Undercounted(c)' /\ ~Undercounted(c) => CountedOut(c)
  <1> DEFINE A == Asleep(c)
             W == Woken(c)
             st == Stock(c)
             n == wat[c]
  <1>1. /\ A \in SUBSET Threads /\ A' \in SUBSET Threads
        /\ W \in SUBSET Threads /\ W' \in SUBSET Threads
    BY DEF Asleep, Woken
  <1>2. /\ Cardinality(A) \in Nat /\ Cardinality(A') \in Nat
        /\ Cardinality(W) \in Nat /\ Cardinality(W') \in Nat
        /\ n \in Nat /\ st \in Int /\ st' \in Int
    BY <1>1, CountSubset DEF Waiting
  <1>3. A \cap W = {}
    BY DEF Asleep, Woken
  <1> SUFFICES /\ A' # {} => st' <= Cardinality(W') \/ n' = 0
               /\ n' < Cardinality(A') /\ ~(n < Cardinality(A)) => CountedOut(c)
    BY DEF Minded, Undercounted
  <1>4. A # {} => st <= Cardinality(W) \/ n = 0
    BY DEF Minded
  <1>5. A' \subseteq A => Cardinality(A') <= Cardinality(A)
    BY <1>1, CountSubset
  <1>6. W \subseteq W' => Cardinality(W) <= Cardinality(W')
    BY <1>1, CountSubset
  <1>7. CASE Quiet(c)
    <2>1. A' \subseteq A /\ W \subseteq W' /\ n' = n /\ st' <= st
      BY <1>7 DEF Quiet, Fewer
    <2> HIDE DEF A, W, st, n
    <2> QED
      BY <1>2, <1>4, <1>5, <1>6, <2>1
  <1>8. CASE Taken(c)
    <2>1. PICK t \in Threads : /\ A' \subseteq A /\ W \ {t} \subseteq W' /\ n' = n
                               /\ st' <= st - 1 \/ st' <= 0
      BY <1>8 DEF Taken, Fewer
    <2> HIDE DEF A, W, st, n
    <2>2. Cardinality(W) <= Cardinality(W \ {t}) + 1 /\ Cardinality(W \ {t}) <= Cardinality(W')
      <3>1. Cardinality(W \ {t}) = IF t \in W THEN Cardinality(W) - 1 ELSE Cardinality(W)
        <4>1. t \notin W => W \ {t} = W
          OBVIOUS
        <4> QED
          BY <1>1, <4>1, Count, Zenon
      <3>2. Cardinality(W \ {t}) <= Cardinality(W')
        BY <1>1, <2>1, CountSubset
      <3> QED
        BY <1>2, <3>1, <3>2
    <2>3. Cardinality(W \ {t}) \in Nat
      BY <1>1, CountSubset
    <2> QED
      BY <1>2, <1>4, <1>5, <2>1, <2>2, <2>3
  <1>9. CASE Slept(c)
    <2>1. PICK t \in Threads : A' \subseteq A \cup {t} /\ n' = n + 1 /\ st' <= 0
      BY <1>9 DEF Slept
    <2> HIDE DEF A, W, st, n
    <2>2. Cardinality(A') <= Cardinality(A) + 1
      <3>1. Cardinality(A \cup {t}) \in Nat /\ Cardinality(A \cup {t}) <= Cardinality(A) + 1
        <4>1. CASE t \in A
          <5>1. A \cup {t} = A
            BY <4>1
          <5> QED
            BY <1>2, <5>1
        <4>2. CASE t \notin A
          <5>1. Cardinality(A \cup {t}) = Cardinality(A) + 1
            BY <1>1, <4>2, Count
          <5> QED
            BY <1>2, <5>1
        <4> QED
          BY <4>1, <4>2
      <3>2. Cardinality(A') <= Cardinality(A \cup {t})
        BY <1>1, <2>1, CountSubset
      <3> QED
        BY <1>2, <3>1, <3>2
    <2> QED
      BY <1>2, <2>1, <2>2
  <1>10. CASE Signalled(c)
    <2>1. PICK u \in A : /\ A' = A \ {u} /\ W \cup {u} \subseteq W'
                         /\ n > 0 /\ n' = n - 1 /\ st' <= st + 1
      BY <1>10 DEF Signalled
    <2> HIDE DEF A, W, st, n
    <2>2. Cardinality(A') = Cardinality(A) - 1
      BY <1>1, <2>1, Count
    <2>3. Cardinality(W) + 1 <= Cardinality(W')
      <3>1. u \in Threads /\ u \notin W
        BY <1>1, <1>3
      <3>2. Cardinality(W \cup {u}) = Cardinality(W) + 1
        BY <1>1, <3>1, Count
      <3>3. Cardinality(W \cup {u}) <= Cardinality(W')
        BY <1>1, <2>1, CountSubset
      <3> QED
        BY <3>2, <3>3
    <2> QED
      BY <1>2, <1>4, <2>1, <2>2, <2>3
  <1>11. CASE Unheard(c)
    <2>1. \/ A' \subseteq A /\ n = 0 /\ n' = 0
          \/ A = {} /\ A' = {} /\ n > 0 /\ n' = n - 1
      BY <1>11 DEF Unheard, Fewer
    <2>2. Cardinality({}) = 0
      BY FS_EmptySet
    <2> HIDE DEF A, W, st, n
    <2> QED
      BY <1>2, <1>5, <2>1, <2>2
  <1>12. CASE CountedOut(c)
    <2>1. A' \subseteq A /\ W \subseteq W' /\ n' \in 0..n /\ st' <= st
      BY <1>12 DEF CountedOut, Fewer
    <2> HIDE DEF A, W, st, n
    <2> QED
      BY <1>2, <1>4, <1>6, <1>12, <2>1
  <1> QED
    BY <1>7, <1>8, <1>9, <1>10, <1>11, <1>12, Zenon DEF StepKinds

(* The free places, messages and nodes, before and after.                  *)
LEMMA StockTypes ==
    ASSUME Stocks, NEW c \in Waits
    PROVE  Stock(c) \in Int
  BY SQueueAssumption DEF Stocks, Stock, Waits

(* A thread that moves on without a signal: it takes one, or it did not    *)
(* wait as a woken thread.                                                 *)
LEMMA MoveKinds ==
    ASSUME Waiting, NEW t \in Threads, MayRun(t), NEW w, Moves(t, w), UNCHANGED dead,
           NEW d \in Waits, NEW U \in SUBSET Asleep(d),
           sleep' = [x \in Threads |-> IF x = t THEN "no"
                                      ELSE IF x \in U THEN "woken" ELSE sleep[x]],
           NEW c \in Waits, c # d \/ U = {},
           wat'[c] = wat[c], Stock(c) \in Int,
           \/ at[t] = c /\ Stock(c)' \in {Stock(c) - 1, 0}
           \/ (at[t] # c \/ sleep[t] # "woken") /\ Stock(c)' = Stock(c)
    PROVE  StepKinds(c)
  <1>1. Asleep(c)' = Asleep(c) /\ Woken(c)' = Woken(c) \ {t}
    <2>1. /\ Asleep(c)' = IF c = d THEN Asleep(c) \ U ELSE Asleep(c)
          /\ Woken(c)' = IF c = d THEN (Woken(c) \ {t}) \cup U ELSE Woken(c) \ {t}
      BY MoveSets
    <2>2. CASE c = d
      <3>1. U = {}
        BY <2>2
      <3> QED
        BY <2>1, <3>1
    <2>3. CASE c # d
      BY <2>1, <2>3
    <2> QED
      BY <2>2, <2>3
  <1>2. Fewer(c)
    BY <1>1 DEF Fewer
  <1>3. CASE Stock(c)' \in {Stock(c) - 1, 0}
    <2>1. Woken(c) \ {t} \subseteq Woken(c)'
      BY <1>1
    <2>2. Stock(c)' <= Stock(c) - 1 \/ Stock(c)' <= 0
      BY <1>3
    <2> QED
      BY <1>2, <2>1, <2>2, Zenon DEF StepKinds, Taken
  <1>4. CASE (at[t] # c \/ sleep[t] # "woken") /\ Stock(c)' = Stock(c)
    <2>1. t \notin Woken(c)
      BY <1>4 DEF Woken
    <2>2. Woken(c)' = Woken(c)
      BY <1>1, <2>1
    <2>3. Quiet(c)
      BY <1>2, <1>4, <2>2 DEF Quiet
    <2> QED
      BY <2>3, Zenon DEF StepKinds
  <1> QED
    BY <1>3, <1>4

(* The wait that is signalled, by a thread that was not woken at it.       *)
LEMMA NotifyKinds ==
    ASSUME Waiting, NEW t \in Threads, MayRun(t), NEW w, Moves(t, w), UNCHANGED dead,
           NEW d \in Waits, Notify(d, [sleep EXCEPT ![t] = "no"]), at[t] # d,
           Stock(d)' <= Stock(d) + 1
    PROVE  StepKinds(d)
  <1>1. PICK U \in SUBSET Asleep(d) :
              /\ sleep' = [x \in Threads |-> IF x = t THEN "no"
                                            ELSE IF x \in U THEN "woken" ELSE sleep[x]]
              /\ \/ U = {} /\ (wat[d] = 0 \/ Asleep(d) = {})
                 \/ wat[d] > 0 /\ \E u \in Asleep(d) : U = {u}
              /\ wat' = [wat EXCEPT ![d] = IF wat[d] = 0 THEN 0 ELSE wat[d] - 1]
    BY NotifySets
  <1>2. Asleep(d)' = Asleep(d) \ U /\ Woken(d)' = (Woken(d) \ {t}) \cup U
    BY <1>1, MoveSets
  <1>3. t \notin Woken(d)
    BY DEF Woken
  <1>4. wat[d] \in Nat /\ wat'[d] = IF wat[d] = 0 THEN 0 ELSE wat[d] - 1
    BY <1>1 DEF Waiting
  <1>5. CASE U = {} /\ (wat[d] = 0 \/ Asleep(d) = {})
    <2>1. Asleep(d)' = Asleep(d)
      BY <1>2, <1>5
    <2> QED
      BY <1>4, <1>5, <2>1 DEF StepKinds, Unheard, Fewer
  <1>6. ASSUME NEW u \in Asleep(d), U = {u}, wat[d] > 0
        PROVE  StepKinds(d)
    <2>1. Asleep(d)' = Asleep(d) \ {u} /\ Woken(d) \cup {u} \subseteq Woken(d)'
      BY <1>2, <1>3, <1>6
    <2>2. wat'[d] = wat[d] - 1
      BY <1>4, <1>6
    <2>3. Signalled(d)
      BY <1>6, <2>1, <2>2, Zenon DEF Signalled
    <2> QED
      BY <2>3, Zenon DEF StepKinds
  <1> QED
    BY <1>1, <1>5, <1>6

(* A move without a signal, and a move seen from a wait that was not the   *)
(* one signalled.                                                          *)
LEMMA PlainKinds ==
    ASSUME Waiting, NEW t \in Threads, MayRun(t), NEW w, Moves(t, w), UNCHANGED dead,
           sleep' = [sleep EXCEPT ![t] = "no"],
           NEW c \in Waits, wat'[c] = wat[c], Stock(c) \in Int,
           \/ at[t] = c /\ Stock(c)' \in {Stock(c) - 1, 0}
           \/ (at[t] # c \/ sleep[t] # "woken") /\ Stock(c)' = Stock(c)
    PROVE  StepKinds(c)
  <1>1. sleep' = [x \in Threads |-> IF x = t THEN "no"
                                   ELSE IF x \in {} THEN "woken" ELSE sleep[x]]
    BY Zenon DEF Waiting
  <1>2. {} \in SUBSET Asleep(c)
    OBVIOUS
  <1> QED
    BY <1>1, <1>2, MoveKinds, Zenon

LEMMA AsideKinds ==
    ASSUME Waiting, NEW t \in Threads, MayRun(t), NEW w, Moves(t, w), UNCHANGED dead,
           NEW d \in Waits, Notify(d, [sleep EXCEPT ![t] = "no"]),
           NEW c \in Waits, c # d, Stock(c) \in Int,
           \/ at[t] = c /\ Stock(c)' \in {Stock(c) - 1, 0}
           \/ (at[t] # c \/ sleep[t] # "woken") /\ Stock(c)' = Stock(c)
    PROVE  StepKinds(c)
  <1>1. PICK U \in SUBSET Asleep(d) :
              /\ sleep' = [x \in Threads |-> IF x = t THEN "no"
                                            ELSE IF x \in U THEN "woken" ELSE sleep[x]]
              /\ wat' = [wat EXCEPT ![d] = IF wat[d] = 0 THEN 0 ELSE wat[d] - 1]
    BY NotifySets
  <1>2. wat'[c] = wat[c]
    BY <1>1 DEF Waiting
  <1> QED
    BY <1>1, <1>2, MoveKinds

LEMMA KindsStep ==
    ASSUME Types, Types', DepthKept, [Next]_vars, NEW c \in Waits
    PROVE  StepKinds(c)
  <1> USE DEF poolVars
  <1>0. Stock(c) \in Int /\ wat[c] \in Nat /\ Waiting
    BY StockTypes DEF Types, Waiting
  <1>1. CASE /\ UNCHANGED <<wat, at, sleep, priv, queue>>
             /\ dead \subseteq dead'
    <2>1. Stock(c)' = Stock(c)
      BY <1>1 DEF Stock
    <2>2. Asleep(c)' \subseteq Asleep(c) /\ Woken(c)' = Woken(c)
      BY <1>1 DEF Asleep, Woken
    <2> QED
      BY <1>0, <1>1, <2>1, <2>2 DEF StepKinds, Quiet, Fewer
  <1>2. ASSUME NEW t \in Threads, Hibernate(t)
        PROVE  StepKinds(c)
    <2>1. UNCHANGED <<at, dead, priv, queue>> /\ sleep' = [sleep EXCEPT ![t] = "asleep"]
      BY <1>2 DEF Hibernate
    <2>2. Stock(c)' = Stock(c)
      BY <2>1 DEF Stock
    <2>3. CASE at[t] = c
      <3>1. Asleep(c)' \subseteq Asleep(c) \cup {t}
        BY <2>1 DEF Asleep, Waiting, Types
      <3>2. wat'[c] = wat[c] + 1
        BY <1>2, <2>3, <1>0 DEF Hibernate, Waiting
      <3>3. Stock(c) <= 0
        <4>1. ~Open(c) /\ MaxDepth \in Nat /\ priv \in Nat /\ Len(queue) \in Nat
          BY <1>2, <2>3, SQueueAssumption DEF Hibernate, Types, Stocks
        <4>2. CASE c = "node"
          BY <4>1, <4>2 DEF Open, Stock
        <4>3. CASE c = "get"
          BY <4>1, <4>3 DEF Open, Stock
        <4>4. CASE c = "put"
          BY <4>1, <4>4 DEF Open, Stock
        <4> QED
          BY <4>2, <4>3, <4>4 DEF Waits
      <3> QED
        BY <1>0, <2>2, <3>1, <3>2, <3>3 DEF StepKinds, Slept
    <2>4. CASE at[t] # c
      <3>1. Asleep(c)' = Asleep(c) /\ Woken(c)' = Woken(c)
        BY <2>1, <2>4 DEF Asleep, Woken, Waiting, Types
      <3>2. wat'[c] = wat[c]
        BY <1>2, <2>4, <1>0 DEF Hibernate, Waiting
      <3> QED
        BY <1>0, <2>2, <3>1, <3>2 DEF StepKinds, Quiet, Fewer
    <2> QED
      BY <2>3, <2>4
  <1>3. ASSUME NEW t \in Threads, Spurious(t) \/ Expire(t)
        PROVE  StepKinds(c)
    <2>1. /\ UNCHANGED <<wat, at, dead, priv, queue>> /\ sleep[t] = "asleep"
          /\ \E v \in {"woken", "expired"} : sleep' = [sleep EXCEPT ![t] = v]
      BY <1>3, Zenon DEF Spurious, Expire, Asleep
    <2>2. Stock(c)' = Stock(c)
      BY <2>1 DEF Stock
    <2>3. Asleep(c)' \subseteq Asleep(c) /\ Woken(c) \subseteq Woken(c)'
      BY <2>1 DEF Asleep, Woken, Waiting, Types
    <2> QED
      BY <1>0, <2>1, <2>2, <2>3 DEF StepKinds, Quiet, Fewer
  <1>4. ASSUME NEW t \in Threads, NEW m \in Modes, Get(t, m) \/ Put(t, m)
        PROVE  StepKinds(c)
    <2>1. /\ UNCHANGED <<wat, sleep, dead, priv, queue>> /\ at[t] = "idle"
          /\ \E w \in Waits : at' = [at EXCEPT ![t] = w]
      BY <1>4 DEF Get, Put, Waits
    <2>2. Stock(c)' = Stock(c)
      BY <2>1 DEF Stock
    <2>3. sleep[t] = "no" /\ "idle" \notin Waits
      BY <2>1 DEF Waiting, Types, Waits
    <2>4. Asleep(c)' = Asleep(c) /\ Woken(c)' = Woken(c)
      BY <2>1, <2>3 DEF Asleep, Woken, Waiting, Types
    <2> QED
      BY <1>0, <2>1, <2>2, <2>4 DEF StepKinds, Quiet, Fewer
  <1>5. ASSUME NEW t \in Threads, GiveUp(t)
        PROVE  StepKinds(c)
    <2>1. /\ MayRun(t) /\ UNCHANGED <<dead, priv, queue>>
          /\ sleep[t] # "woken" /\ sleep' = [sleep EXCEPT ![t] = "no"]
          /\ Moves(t, IF at[t] = "put" THEN "back" ELSE "idle")
      BY <1>5 DEF GiveUp, MayLock, Goto, Moves
    <2>2. Stock(c)' = Stock(c)
      BY <2>1 DEF Stock
    <2>3. CASE wat'[c] = wat[c]
      BY <1>0, <2>1, <2>2, <2>3, PlainKinds, Zenon
    <2>4. CASE wat'[c] # wat[c]
      <3>1. at[t] = c /\ sleep[t] = "expired" /\ wat'[c] \in 0..wat[c]
        BY <1>0, <1>5, <2>4 DEF GiveUp, CountOut, Waiting
      <3>2. sleep'[t] = "no" /\ Asleep(c)' \subseteq Asleep(c) /\ Woken(c) \subseteq Woken(c)'
        BY <2>1, Zenon DEF Asleep, Woken, Moves, Waiting, Types
      <3>3. Stock(c)' <= Stock(c)
        BY <1>0, <2>2
      <3>4. CountedOut(c)
        BY <3>1, <3>2, <3>3, Zenon DEF CountedOut, Fewer
      <3> QED
        BY <3>4, Zenon DEF StepKinds
    <2> QED
      BY <2>3, <2>4
  <1>6. ASSUME NEW t \in Threads, Allocate(t) \/ Free(t)
        PROVE  StepKinds(c)
    <2>1. /\ MayRun(t) /\ UNCHANGED <<dead, priv, queue, wat, sleep>> /\ at[t] \notin Waits
          /\ \E w : Moves(t, w)
      BY <1>6 DEF Allocate, Free, MayLock, Goto, Moves, Waits
    <2>2. sleep' = [sleep EXCEPT ![t] = "no"]
      BY <2>1, Zenon DEF Waiting, Types
    <2>3. Stock(c)' = Stock(c)
      BY <2>1 DEF Stock
    <2> QED
      BY <1>0, <2>1, <2>2, <2>3, PlainKinds, Zenon
  <1>7. ASSUME NEW t \in Threads, GetNode(t)
        PROVE  StepKinds(c)
    <2>1. /\ MayRun(t) /\ UNCHANGED <<dead, queue, wat>> /\ at[t] = "node"
          /\ sleep' = [sleep EXCEPT ![t] = "no"] /\ Moves(t, "alloc")
      BY <1>7 DEF GetNode, Passes, MayLock, Goto, Moves
    <2>2. \/ priv' = priv - 1
          \/ priv' = priv /\ sleep[t] = "no"
      BY <1>7 DEF GetNode, FromPool
    <2>3. IF c = "node" THEN Stock(c)' = Stock(c) - 1 \/ (Stock(c)' = Stock(c) /\ sleep[t] = "no")
                        ELSE Stock(c)' = Stock(c)
      BY <2>1, <2>2 DEF Stock, Waits
    <2> QED
      BY <1>0, <2>1, <2>3, PlainKinds, Zenon
  <1>8. ASSUME NEW t \in Threads, DoorPut(t)
        PROVE  StepKinds(c)
    <2>1. /\ MayRun(t) /\ UNCHANGED <<dead, priv>> /\ at[t] = "put" /\ Moves(t, "idle")
          /\ Notify("get", [sleep EXCEPT ![t] = "no"]) /\ "get" \in Waits
      BY <1>8 DEF DoorPut, Passes, MayLock, Goto, Moves, Waits
    <2>2. Len(queue)' = Len(queue) + 1 /\ Len(queue) \in Nat /\ MaxDepth \in Nat
      BY <1>8, AppendProperties, SQueueAssumption DEF DoorPut, Types, Stocks
    <2>3. CASE c = "get"
      <3>1. Stock(c)' <= Stock(c) + 1
        BY <2>2, <2>3 DEF Stock
      <3> QED
        BY <1>0, <2>1, <2>3, <3>1, NotifyKinds
    <2>4. CASE c = "put"
      <3>1. Stock(c)' \in {Stock(c) - 1, 0}
        BY <2>2, <2>4 DEF Stock
      <3> QED
        BY <1>0, <2>1, <2>4, <3>1, AsideKinds
    <2>5. CASE c = "node"
      <3>1. Stock(c)' = Stock(c)
        BY <2>1, <2>5 DEF Stock
      <3> QED
        BY <1>0, <2>1, <2>5, <3>1, AsideKinds
    <2> QED
      BY <2>3, <2>4, <2>5 DEF Waits
  <1>9. ASSUME NEW t \in Threads, DoorGet(t)
        PROVE  StepKinds(c)
    <2>1. /\ MayRun(t) /\ UNCHANGED <<dead, priv>> /\ at[t] = "get" /\ Moves(t, "read")
          /\ "put" \in Waits
      BY <1>9 DEF DoorGet, Passes, MayLock, Goto, Moves, Waits
    <2>2. Len(queue)' = Len(queue) - 1 /\ Len(queue) \in Nat /\ MaxDepth \in Nat
      BY <1>9, HeadTailProperties, SQueueAssumption
         DEF DoorGet, Passes, Open, Types, Stocks
    <2>3. c = "get" => Stock(c)' = Stock(c) - 1
      BY <2>2 DEF Stock
    <2>4. c = "node" => Stock(c)' = Stock(c)
      BY <2>1 DEF Stock
    <2>5. CASE MaxDepth > 0
      <3>1. Notify("put", [sleep EXCEPT ![t] = "no"])
        BY <1>9, <2>2, <2>5 DEF DoorGet, DepthKept
      <3>2. CASE c = "put"
        <4>1. Stock(c)' <= Stock(c) + 1
          BY <2>2, <2>5, <3>2 DEF Stock
        <4> QED
          BY <1>0, <2>1, <3>1, <3>2, <4>1, NotifyKinds
      <3>3. CASE c # "put"
        <4>1. \/ at[t] = c /\ Stock(c)' = Stock(c) - 1
              \/ at[t] # c /\ Stock(c)' = Stock(c)
          BY <2>1, <2>3, <2>4, <3>3 DEF Waits
        <4> QED
          BY <1>0, <2>1, <3>1, <3>3, <4>1, AsideKinds
      <3> QED
        BY <3>2, <3>3
    <2>6. CASE ~(MaxDepth > 0)
      <3>1. sleep' = [sleep EXCEPT ![t] = "no"] /\ UNCHANGED wat
        BY <1>9, <2>6 DEF DoorGet
      <3>2. c = "put" => Stock(c)' = Stock(c)
        BY <2>2, <2>6 DEF Stock
      <3>3. \/ at[t] = c /\ Stock(c)' = Stock(c) - 1
            \/ at[t] # c /\ Stock(c)' = Stock(c)
        BY <2>1, <2>3, <2>4, <3>2 DEF Waits
      <3> QED
        BY <1>0, <2>1, <3>1, <3>3, PlainKinds, Zenon
    <2> QED
      BY <2>5, <2>6
  <1>10. ASSUME NEW t \in Threads, Back(t)
         PROVE  StepKinds(c)
    <2>1. /\ MayRun(t) /\ UNCHANGED <<dead, queue>> /\ at[t] \notin Waits
          /\ "node" \in Waits /\ Notify("node", sleep)
      BY <1>10, Zenon DEF Back, MayLock, Waits
    <2>2. PICK w : Moves(t, w)
      BY <1>10, Zenon DEF Back, Goto, Moves
    <2>3. sleep = [sleep EXCEPT ![t] = "no"]
      BY <2>1 DEF Waiting, Types
    <2>4. Notify("node", [sleep EXCEPT ![t] = "no"])
      BY <2>1, <2>3
    <2>5. CASE c = "node"
      <3>1. Stock(c)' <= Stock(c) + 1
        BY <1>10, <2>5 DEF Back, Stock, Types, Stocks
      <3> QED
        BY <1>0, <2>1, <2>2, <2>4, <2>5, <3>1, NotifyKinds
    <2>6. CASE c # "node"
      <3>1. Stock(c)' = Stock(c)
        BY <2>1, <2>6 DEF Stock, Waits
      <3> QED
        BY <1>0, <2>1, <2>2, <2>4, <2>6, <3>1, AsideKinds
    <2> QED
      BY <2>5, <2>6
  <1> QED
    BY <1>1, <1>2, <1>3, <1>4, <1>5, <1>6, <1>7, <1>8, <1>9, <1>10
       DEF vars, Next, Step, Crash, OtherPut, OtherGet

(* NoneForgotten is Minded at every wait, and a step keeps it.             *)
LEMMA MindedStep ==
    ASSUME Types, Types', DepthKept, NoneForgotten, [Next]_vars, NEW c \in Waits
    PROVE  /\ Minded(c)'
           /\ Undercounted(c)' /\ ~Undercounted(c) => CountedOut(c)
  <1>1. Stock(c) \in Int /\ Waiting /\ Minded(c)
    BY StockTypes DEF Types, NoneForgotten, Minded
  <1>2. Stock(c)' \in Int
    <2>1. priv' \in Nat /\ Len(queue') \in Nat /\ MaxDepth \in Nat
      BY SQueueAssumption DEF Types, Stocks
    <2> QED
      BY <2>1 DEF Stock, Waits
  <1>3. StepKinds(c)
    BY KindsStep
  <1> QED
    BY <1>1, <1>2, <1>3, KindsKeep

(* For any number of threads and any mix of timeouts, kills and spurious   *)
(* wake-ups, what could be taken is promised to threads already woken,     *)
(* unless _WAT stands at 0 while a thread sleeps.                          *)
THEOREM NobodyForgotten == Spec => []NoneForgotten
  <1>1. Init => NoneForgotten
    BY DEF Init, NoneForgotten, Asleep
  <1>2. ASSUME Types, Types', DepthKept, NoneForgotten, [Next]_vars
        PROVE  NoneForgotten'
    <2>1. \A c \in Waits : Minded(c)'
      BY <1>2, MindedStep
    <2> QED
      BY <2>1 DEF NoneForgotten, Minded
  <1> QED
    BY <1>1, <1>2, TypesInv, DepthIsKept, PTL DEF Spec

(* Nothing but a thread that counts itself out after its timeout makes     *)
(* _WAT smaller than the number of sleepers: not a signal, a kill, or a    *)
(* wake-up without a signal, for any number of threads.                    *)
THEOREM TimeoutUndercounts == Spec => OnlyTimeoutUndercounts
  <1>1. ASSUME Types, Types', DepthKept, NoneForgotten, [Next]_vars
        PROVE  [\A c \in Waits : Undercounted(c)' /\ ~Undercounted(c)
                  => \E t \in Threads : at[t] = c /\ sleep[t] = "expired"
                                         /\ sleep'[t] = "no"]_vars
    <2>1. ASSUME NEW c \in Waits, Undercounted(c)', ~Undercounted(c)
          PROVE  CountedOut(c)
      BY <1>1, <2>1, MindedStep
    <2> QED
      BY <2>1 DEF CountedOut
  <1> QED
    BY <1>1, TypesInv, DepthIsKept, NobodyForgotten, PTL DEF Spec, OnlyTimeoutUndercounts
=============================================================================
