---------------------------- MODULE CQueueProofs ----------------------------
(***************************************************************************)
(* Proofs about CQueue, for any set of processors and of processes.        *)
(***************************************************************************)
EXTENDS CQueue, TLAPS, FiniteSetTheorems

(* Counting the processors of a set when one of them joins or leaves it.   *)
LEMMA Counting ==
    ASSUME NEW S \in SUBSET Processors, NEW t \in Processors
    PROVE  /\ IsFiniteSet(S)
           /\ Cardinality(S) \in Nat
           /\ S # {} => Cardinality(S) > 0
           /\ Cardinality(S \cup {t}) =
                IF t \in S THEN Cardinality(S) ELSE Cardinality(S) + 1
           /\ Cardinality(S \ {t}) =
                IF t \in S THEN Cardinality(S) - 1 ELSE Cardinality(S)
  <1>1. IsFiniteSet(S)
    BY FS_Subset, QueueAssumption
  <1>2. Cardinality(S) \in Nat /\ (Cardinality(S) = 0 <=> S = {})
    BY <1>1, FS_CardinalityType, FS_EmptySet
  <1>3. Cardinality(S \cup {t}) =
          IF t \in S THEN Cardinality(S) ELSE Cardinality(S) + 1
    BY <1>1, FS_AddElement
  <1>4. Cardinality(S \ {t}) =
          IF t \in S THEN Cardinality(S) - 1 ELSE Cardinality(S)
    BY <1>1, FS_RemoveElement
  <1> QED
    BY <1>1, <1>2, <1>3, <1>4

(* The same as bounds.                                                     *)
LEMMA Bounds ==
    ASSUME NEW S \in SUBSET Processors, NEW t \in Processors
    PROVE  /\ Cardinality(S) \in Nat
           /\ Cardinality(S \cup {t}) \in Nat
           /\ Cardinality(S) <= Cardinality(S \cup {t})
           /\ Cardinality(S \cup {t}) <= Cardinality(S) + 1
           /\ Cardinality(S \ {t}) \in Nat
           /\ Cardinality(S \ {t}) <= Cardinality(S)
           /\ Cardinality(S) <= Cardinality(S \ {t}) + 1
  <1>1. S \ {t} \in SUBSET Processors /\ S \cup {t} \in SUBSET Processors
    OBVIOUS
  <1>2. /\ Cardinality(S) \in Nat
        /\ Cardinality(S \cup {t}) \in Nat
        /\ Cardinality(S \ {t}) \in Nat
    BY <1>1, Counting, Zenon
  <1>3. /\ Cardinality(S \cup {t}) =
             IF t \in S THEN Cardinality(S) ELSE Cardinality(S) + 1
        /\ Cardinality(S \ {t}) =
             IF t \in S THEN Cardinality(S) - 1 ELSE Cardinality(S)
    BY Counting
  <1> QED
    BY <1>2, <1>3

(* The variables keep their types: no step stores anything else in them,   *)
(* in particular WaitNo never drops below zero and a processor in a slice  *)
(* holds a process, so what SliceYield puts back is one.                   *)
THEOREM TypeCorrect == Spec => [](TypeOK /\ OnceInv)
  <1>1. Init => TypeOK /\ OnceInv
    <2> SUFFICES ASSUME Init PROVE TypeOK /\ OnceInv
      OBVIOUS
    <2>a. queue \in Seq(Tasks) /\ waitNo \in Nat
      BY DEF Init
    <2>b. closed \in BOOLEAN
      BY Zenon DEF Init
    <2>c. /\ pc \in [Processors -> Where]
          /\ hand \in [Processors -> Tasks \cup {NoOne}]
      BY DEF Init, Where
    <2>d. /\ mutex \in Processors \cup {NoOne}
          /\ live \subseteq Tasks
          /\ exiter \in {"idle", "close", "notify", "join", "stopped"}
      BY Zenon DEF Init
    <2>1. TypeOK
      BY Zenon, <2>a, <2>b, <2>c, <2>d DEF TypeOK
    <2>2. Len(queue) = 0 /\ 1..0 = {}
      BY DEF Init
    <2>3. OnceInv
      BY <2>2 DEF Init, OnceInv
    <2> QED
      BY <2>1, <2>3
  <1>2. TypeOK /\ OnceInv /\ [Next]_vars => TypeOK' /\ OnceInv'
    <2> SUFFICES ASSUME TypeOK, OnceInv, [Next]_vars
                 PROVE  TypeOK' /\ OnceInv'
      OBVIOUS
    <2> USE QueueAssumption DEF TypeOK, OnceInv, Where, At, Queued, Held
    <2>1. ASSUME NEW t \in Processors, GetLock(t) PROVE TypeOK' /\ OnceInv'
      BY <2>1 DEF GetLock
    <2>2. ASSUME NEW t \in Processors, GetEmpty(t) PROVE TypeOK' /\ OnceInv'
      BY <2>2 DEF GetEmpty
    <2>3. ASSUME NEW t \in Processors, GetWait(t) PROVE TypeOK' /\ OnceInv'
      BY <2>3 DEF GetWait
    <2>4. ASSUME NEW t \in Processors, GetPop(t) PROVE TypeOK' /\ OnceInv'
      BY <2>4 DEF GetPop
    <2>5. ASSUME NEW t \in Processors, GetClosed(t) PROVE TypeOK' /\ OnceInv'
      BY <2>5 DEF GetClosed
    <2>6. ASSUME NEW t \in Processors, SliceYield(t) PROVE TypeOK' /\ OnceInv'
      BY <2>6 DEF SliceYield, Put
    <2>7. ASSUME NEW t \in Processors, SliceSuspend(t) PROVE TypeOK' /\ OnceInv'
      BY <2>7 DEF SliceSuspend
    <2>8. ASSUME NEW t \in Processors, SliceDestroy(t) PROVE TypeOK' /\ OnceInv'
      BY <2>8 DEF SliceDestroy
    <2>9. ASSUME NEW t \in Processors, SpuriousWake(t) PROVE TypeOK' /\ OnceInv'
      BY <2>9 DEF SpuriousWake
    <2>10. ASSUME NEW x \in Tasks, PutTask(x) PROVE TypeOK' /\ OnceInv'
      BY <2>10 DEF PutTask, Put
    <2>11. CASE Stop
      BY <2>11, Zenon DEF Stop, CloseSet, CloseNotify, Join
    <2>12. CASE UNCHANGED vars
      BY <2>12 DEF vars
    <2> QED
      BY <2>1, <2>2, <2>3, <2>4, <2>5, <2>6, <2>7, <2>8, <2>9, <2>10, <2>11,
         <2>12 DEF Next, Step
  <1> QED
    BY <1>1, <1>2, PTL DEF Spec

(* What the counts need to know of a step: how At changes.                 *)
LEMMA Subsets ==
    /\ Awake \in SUBSET Processors /\ Sleepers \in SUBSET Processors
    /\ Awake' \in SUBSET Processors /\ Sleepers' \in SUBSET Processors
  BY DEF Awake, Sleepers, At

(* Put keeps both counts: if a processor sleeps, WaitNo is not zero, so    *)
(* one sleeper moves to the awake side with the new entry.                 *)
LEMMA PutCounts ==
    ASSUME TypeOK, MutexInv, NoLostWakeup, NEW x \in Tasks, NEW after,
           after \in [Processors -> Where],
           \A t \in Processors : after[t] # pc[t] =>
                pc[t] = "slice" /\ after[t] = "get",
           Put(x, after)
    PROVE  MutexInv' /\ NoLostWakeup'
  <1> USE DEF TypeOK, Where
  <1>1. /\ mutex = NoOne /\ mutex' = mutex
        /\ queue' = Append(queue, x) /\ Len(queue') = Len(queue) + 1
        /\ \A t \in Processors : pc[t] \notin {"test", "wait"}
    BY QueueAssumption DEF Put, MutexInv
  <1>2. CASE At("asleep") = {}
    <2>1. pc' = after
      BY <1>2 DEF Put
    <2>2. At("asleep")' = {} /\ At("wait")' = {} /\ Sleepers' = {}
      BY <2>1, <1>1, <1>2 DEF At, Sleepers
    <2>3. waitNo' \in Nat
      BY DEF Put
    <2>4. Cardinality(Sleepers') <= waitNo'
      BY <2>2, <2>3, FS_EmptySet
    <2>5. \A t \in Processors : pc'[t] \in {"test", "wait"} <=> mutex' = t
      BY <2>1, <1>1, QueueAssumption
    <2> QED
      BY <2>2, <2>4, <2>5 DEF MutexInv, NoLostWakeup
  <1>3. CASE At("asleep") # {}
    <2>1. waitNo # 0
      <3>1. Sleepers # {} /\ Cardinality(Sleepers) <= waitNo
        BY <1>3 DEF Sleepers, MutexInv
      <3>2. PICK u \in Processors : TRUE
        BY <1>3 DEF At
      <3>3. Cardinality(Sleepers) \in Nat /\ Cardinality(Sleepers) > 0
        BY <3>1, <3>2, Subsets, Counting, Zenon
      <3> QED
        BY <3>1, <3>3
    <2>2. PICK s \in At("asleep") : pc' = [after EXCEPT ![s] = "woken"]
      BY <2>1, <1>3 DEF Put
    <2>3. waitNo' = waitNo - 1
      BY <2>1 DEF Put
    <2>4. s \in Processors /\ s \in Sleepers /\ s \notin Awake
      BY <2>2 DEF At, Sleepers, Awake
    <2>5. Sleepers' = Sleepers \ {s} /\ Awake' = Awake \cup {s}
      BY <2>2, <1>1 DEF At, Sleepers, Awake
    <2>6. Cardinality(Sleepers') = Cardinality(Sleepers) - 1
      BY <2>4, <2>5, Subsets, Counting
    <2>7. Cardinality(Awake') = Cardinality(Awake) + 1
      BY <2>4, <2>5, Subsets, Counting
    <2>8. Cardinality(Sleepers) \in Nat /\ Cardinality(Awake) \in Nat
      BY <2>4, Subsets, Counting, Zenon
    <2>9. Cardinality(Sleepers') <= waitNo'
      BY <2>3, <2>6, <2>8 DEF MutexInv
    <2>10. Len(queue') <= Cardinality(Awake')
      BY <1>1, <1>3, <2>7, <2>8 DEF NoLostWakeup
    <2>11. \A t \in Processors : pc'[t] \in {"test", "wait"} <=> mutex' = t
      BY <2>2, <1>1, QueueAssumption DEF At
    <2>12. At("wait")' = {}
      BY <2>11, <1>1, QueueAssumption DEF At
    <2> QED
      BY <2>9, <2>10, <2>11, <2>12 DEF MutexInv, NoLostWakeup
  <1> QED
    BY <1>2, <1>3

(* Get and the rest of the loop keep both counts.                          *)
LEMMA StepCounts ==
    ASSUME TypeOK, OnceInv, MutexInv, NoLostWakeup, [Next]_vars
    PROVE  MutexInv' /\ NoLostWakeup'
  <1> USE DEF TypeOK, Where
  <1>1. ASSUME NEW t \in Processors, GetLock(t)
        PROVE  MutexInv' /\ NoLostWakeup'
    <2>1. Awake' = Awake \cup {t} /\ Sleepers' = Sleepers
      BY <1>1 DEF GetLock, Awake, Sleepers, At
    <2>2. At("asleep")' = At("asleep") /\ At("wait")' = At("wait")
      BY <1>1 DEF GetLock, At
    <2>3. \A u \in Processors : pc'[u] \in {"test", "wait"} <=> mutex' = u
      BY <1>1, QueueAssumption DEF GetLock, MutexInv
    <2>4. MutexInv'
      BY <1>1, <2>1, <2>2, <2>3 DEF GetLock, MutexInv
    <2>5. /\ Cardinality(Awake) \in Nat /\ Cardinality(Awake') \in Nat
          /\ Cardinality(Awake) <= Cardinality(Awake')
      BY <2>1, Subsets, Bounds, Zenon
    <2>6. queue' = queue /\ Len(queue) \in Nat
      BY <1>1 DEF GetLock
    <2> QED
      BY <2>2, <2>4, <2>5, <2>6 DEF NoLostWakeup
  <1>2. ASSUME NEW t \in Processors, GetEmpty(t)
        PROVE  MutexInv' /\ NoLostWakeup'
    <2>1. Sleepers' = Sleepers \cup {t}
      BY <1>2 DEF GetEmpty, Sleepers, At
    <2>2. \A u \in Processors : pc'[u] \in {"test", "wait"} <=> mutex' = u
      BY <1>2 DEF GetEmpty, MutexInv
    <2>a. /\ Cardinality(Sleepers) \in Nat /\ Cardinality(Sleepers') \in Nat
          /\ Cardinality(Sleepers') <= Cardinality(Sleepers) + 1
      BY <2>1, Subsets, Bounds, Zenon
    <2>b. waitNo' = waitNo + 1 /\ Cardinality(Sleepers) <= waitNo
      BY <1>2 DEF GetEmpty, MutexInv
    <2>3. Cardinality(Sleepers') <= waitNo'
      BY <2>a, <2>b
    <2>4. queue' = <<>> /\ Len(queue') = 0
      BY <1>2 DEF GetEmpty
    <2>5. Cardinality(Awake') \in Nat
      BY Subsets, Counting, Zenon
    <2> QED
      BY <2>2, <2>3, <2>4, <2>5 DEF MutexInv, NoLostWakeup
  <1>3. ASSUME NEW t \in Processors, GetWait(t)
        PROVE  MutexInv' /\ NoLostWakeup'
    <2>1. Sleepers' = Sleepers /\ Awake' = Awake
      BY <1>3 DEF GetWait, Sleepers, Awake, At
    <2>2. \A u \in Processors : pc'[u] \in {"test", "wait"} <=> mutex' = u
      BY <1>3, QueueAssumption DEF GetWait, MutexInv
    <2>3. queue' = <<>> /\ Len(queue') = 0 /\ waitNo' = waitNo
      BY <1>3 DEF GetWait, MutexInv, At
    <2>4. Cardinality(Awake') \in Nat /\ Cardinality(Sleepers') <= waitNo'
      BY <1>3, <2>1, <2>3, Subsets, Counting, Zenon DEF MutexInv
    <2> QED
      BY <2>2, <2>3, <2>4 DEF MutexInv, NoLostWakeup
  <1>4. ASSUME NEW t \in Processors, GetPop(t)
        PROVE  MutexInv' /\ NoLostWakeup'
    <2>1. Sleepers' = Sleepers /\ Awake' = Awake \ {t} /\ t \in Awake
      BY <1>4 DEF GetPop, Sleepers, Awake, At
    <2>2. \A u \in Processors : pc'[u] \in {"test", "wait"} <=> mutex' = u
      BY <1>4, QueueAssumption DEF GetPop, MutexInv
    <2>3. At("wait")' = {}
      BY <2>2, <1>4, QueueAssumption DEF GetPop, At
    <2>4. Len(queue') = Len(queue) - 1 /\ waitNo' = waitNo
      BY <1>4 DEF GetPop
    <2>5. At("asleep")' = At("asleep")
      BY <1>4 DEF GetPop, At
    <2>6. Len(queue) \in Nat
      OBVIOUS
    <2>7. /\ Cardinality(Awake) \in Nat /\ Cardinality(Awake') \in Nat
          /\ Cardinality(Awake) <= Cardinality(Awake') + 1
      BY <2>1, Subsets, Bounds, Zenon
    <2>8. Cardinality(Sleepers') <= waitNo'
      BY <2>1, <2>4 DEF MutexInv
    <2>9. NoLostWakeup'
      BY <2>4, <2>5, <2>6, <2>7 DEF NoLostWakeup
    <2> QED
      BY <2>2, <2>3, <2>8, <2>9 DEF MutexInv
  <1>5. ASSUME NEW t \in Processors, GetClosed(t)
        PROVE  MutexInv' /\ NoLostWakeup'
    <2>1. Sleepers' = Sleepers
      BY <1>5 DEF GetClosed, Sleepers, At
    <2>2. \A u \in Processors : pc'[u] \in {"test", "wait"} <=> mutex' = u
      BY <1>5, QueueAssumption DEF GetClosed, MutexInv
    <2>3. queue' = <<>> /\ Len(queue') = 0 /\ waitNo' = waitNo
      BY <1>5 DEF GetClosed
    <2>4. Cardinality(Awake') \in Nat
      BY <1>5, Subsets, Counting, Zenon
    <2> QED
      BY <2>1, <2>2, <2>3, <2>4 DEF MutexInv, NoLostWakeup
  <1>6. ASSUME NEW t \in Processors, SliceYield(t)
        PROVE  MutexInv' /\ NoLostWakeup'
    <2>1. hand[t] \in Tasks /\ pc[t] = "slice"
      BY <1>6 DEF SliceYield, OnceInv
    <2> DEFINE after == [pc EXCEPT ![t] = "get"]
    <2>2. /\ after \in [Processors -> Where]
          /\ \A u \in Processors : after[u] # pc[u] =>
               pc[u] = "slice" /\ after[u] = "get"
      BY <2>1
    <2>3. Put(hand[t], after)
      BY <1>6 DEF SliceYield
    <2> HIDE DEF after
    <2> QED
      BY <2>1, <2>2, <2>3, PutCounts
  <1>7. ASSUME NEW t \in Processors, SliceSuspend(t) \/ SliceDestroy(t)
        PROVE  MutexInv' /\ NoLostWakeup'
    <2>1. Sleepers' = Sleepers /\ Awake' = Awake /\ At("asleep")' = At("asleep")
          /\ At("wait")' = At("wait")
      BY <1>7 DEF SliceSuspend, SliceDestroy, Sleepers, Awake, At
    <2>2. \A u \in Processors : pc'[u] \in {"test", "wait"} <=> mutex' = u
      BY <1>7 DEF SliceSuspend, SliceDestroy, MutexInv
    <2>3. queue' = queue /\ waitNo' = waitNo
      BY <1>7 DEF SliceSuspend, SliceDestroy
    <2> QED
      BY <2>1, <2>2, <2>3 DEF MutexInv, NoLostWakeup
  <1>8. ASSUME NEW t \in Processors, SpuriousWake(t)
        PROVE  MutexInv' /\ NoLostWakeup'
    <2>1. Sleepers' = Sleepers \ {t} /\ Awake' = Awake \cup {t}
          /\ At("asleep")' \subseteq At("asleep") /\ At("wait")' = At("wait")
      BY <1>8 DEF SpuriousWake, Sleepers, Awake, At
    <2>2. \A u \in Processors : pc'[u] \in {"test", "wait"} <=> mutex' = u
      BY <1>8 DEF SpuriousWake, MutexInv
    <2>3. queue' = queue /\ waitNo' = waitNo /\ Len(queue) \in Nat
      BY <1>8 DEF SpuriousWake
    <2>4. /\ Cardinality(Sleepers) \in Nat /\ Cardinality(Sleepers') \in Nat
          /\ Cardinality(Sleepers') <= Cardinality(Sleepers)
      BY <2>1, Subsets, Bounds, Zenon
    <2>5. /\ Cardinality(Awake) \in Nat /\ Cardinality(Awake') \in Nat
          /\ Cardinality(Awake) <= Cardinality(Awake')
      BY <2>1, Subsets, Bounds, Zenon
    <2>6. Cardinality(Sleepers') <= waitNo'
      BY <2>3, <2>4 DEF MutexInv
    <2>7. NoLostWakeup'
      BY <2>1, <2>3, <2>5 DEF NoLostWakeup
    <2> QED
      BY <2>1, <2>2, <2>3, <2>6, <2>7 DEF MutexInv
  <1>9. ASSUME NEW x \in Tasks, PutTask(x)
        PROVE  MutexInv' /\ NoLostWakeup'
    <2>1. Put(x, pc)
      BY <1>9 DEF PutTask
    <2> QED
      BY <2>1, PutCounts
  <1>10. CASE CloseSet \/ Join \/ UNCHANGED vars
    <2>1. Sleepers' = Sleepers /\ Awake' = Awake /\ At("asleep")' = At("asleep")
          /\ At("wait")' = At("wait")
      BY <1>10 DEF CloseSet, Join, vars, Sleepers, Awake, At
    <2> QED
      BY <1>10, <2>1 DEF CloseSet, Join, vars, MutexInv, NoLostWakeup
  <1>11. CASE CloseNotify
    <2>1. At("asleep")' = {} /\ At("wait")' = At("wait")
          /\ Sleepers' \in SUBSET Sleepers
      BY <1>11 DEF CloseNotify, Sleepers, At
    <2>2. \A u \in Processors : pc'[u] \in {"test", "wait"} <=> mutex' = u
      BY <1>11 DEF CloseNotify, MutexInv
    <2>3. queue' = queue /\ waitNo' = waitNo
      BY <1>11 DEF CloseNotify
    <2>4. IsFiniteSet(Sleepers) /\ Cardinality(Sleepers) \in Nat
      BY Subsets, FS_Subset, FS_CardinalityType, QueueAssumption
    <2>5. Cardinality(Sleepers') <= Cardinality(Sleepers)
          /\ Cardinality(Sleepers') \in Nat
      BY <2>1, <2>4, FS_Subset, FS_CardinalityType
    <2> QED
      BY <2>1, <2>2, <2>3, <2>4, <2>5 DEF MutexInv, NoLostWakeup
  <1> QED
    BY <1>1, <1>2, <1>3, <1>4, <1>5, <1>6, <1>7, <1>8, <1>9, <1>10, <1>11
    DEF Next, Step, Stop

(* For any number of processors, no wake-up is ever lost: while one sleeps *)
(* there are as many on their way to the queue as it has entries.          *)
THEOREM WakeupsAreNotLost == Spec => []NoLostWakeup
  <1>1. Init => MutexInv /\ NoLostWakeup
    <2> SUFFICES ASSUME Init PROVE MutexInv /\ NoLostWakeup
      OBVIOUS
    <2>1. At("asleep") = {} /\ At("wait") = {} /\ Sleepers = {}
      BY DEF Init, At, Sleepers
    <2>2. Cardinality(Sleepers) = 0
      BY <2>1, FS_EmptySet
    <2> QED
      BY <2>1, <2>2, QueueAssumption DEF Init, MutexInv, NoLostWakeup
  <1>2. TypeOK /\ OnceInv /\ MutexInv /\ NoLostWakeup /\ [Next]_vars
            => MutexInv' /\ NoLostWakeup'
    BY StepCounts
  <1> QED
    BY <1>1, <1>2, TypeCorrect, PTL DEF Spec

(* The queue is closed only after the last process is gone, so no Put ever *)
(* meets a closed queue.                                                   *)
THEOREM ClosedOnlyWhenDone == Spec => []CloseAfterLast
  <1>1. TypeOK /\ OnceInv => CloseAfterLast
    BY DEF TypeOK, OnceInv, CloseAfterLast, At
  <1> QED
    BY <1>1, TypeCorrect, PTL
=============================================================================
