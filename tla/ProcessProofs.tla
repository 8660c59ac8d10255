---------------------------- MODULE ProcessProofs ----------------------------
(***************************************************************************)
(* Proofs about Process, for any processes, processors, devices and calls. *)
(***************************************************************************)
EXTENDS Process, TLAPS

IInv == /\ TypeOK
        /\ WorkInv
        /\ LockInv
        /\ IntLockInv
        /\ MapLockInv
        /\ AnsweredIsMapped
        /\ NoStrandedMsg /\ PutInv
        /\ InboxInv

(* A step of t leaves the other threads where they are.                    *)
Others(t) ==
    \A u \in Threads \ {t} : /\ pc'[u] = pc[u] /\ run'[u] = run[u]
                             /\ tgt'[u] = tgt[u] /\ victim'[u] = victim[u]

(* The sender a message carries.                                           *)
LEMMA FromIsSender ==
    ASSUME NEW t \in Threads, ThreadTypes, Work(t), pc[t] \in SendPlaces
    PROVE  From(t) \in Senders
  BY ProcessAssumption, Zenon DEF From, Senders, Threads, ThreadTypes, Work

(* In a slice the processor owns the process's _IntLock, so nobody hands   *)
(* it a message.                                                           *)
LEMMA SliceOwns ==
    ASSUME NEW t \in Processors, IInv, pc[t] \in SlicePlaces
    PROVE  /\ run[t] \in Pids /\ run[t] \in Senders
           /\ intLock[run[t]] = t /\ status[run[t]] # "RECV_RETURN"
  <1>1. t \in Threads /\ Work(t)
    BY Zenon DEF IInv, WorkInv, Threads
  <1>2. run[t] \in Pids /\ run[t] \in Senders
    BY <1>1, Zenon DEF IInv, TypeOK, ThreadTypes, Work, Senders
  <1>3. IntLockOf(t) = run[t]
    BY Zenon DEF IntLockOf, SlicePlaces
  <1>4. intLock[run[t]] = t
    BY <1>1, <1>2, <1>3, Zenon DEF IInv, IntLockInv
  <1> QED
    BY <1>2, <1>4, Zenon DEF IInv, InboxInv

(* The node starts with its first process in the queue and every thread at *)
(* home.                                                                   *)
LEMMA InitHolds == Init => IInv
  <1> SUFFICES ASSUME Init PROVE IInv
    OBVIOUS
  <1> USE ProcessAssumption
  <1>1. NodeTypes /\ LockTypes /\ BusTypes
    BY DEF Init, NodeTypes, LockTypes, BusTypes, States
  <1>2. MsgTypes
    BY DEF Init, MsgTypes
  <1>3. ThreadTypes
    BY Zenon DEF Init, ThreadTypes, Home, Places
  <1>4. \A t \in Threads : /\ pc[t] = IF t \in Processors THEN "get" ELSE "idle"
                           /\ run[t] = Nil /\ tgt[t] = Nil /\ victim[t] = Nil
    BY Zenon DEF Init, Home
  <1>5. WorkInv
    BY <1>4, Zenon
       DEF WorkInv, Work, SlicePlaces, DestroyPlaces, SendPlaces, RespPlaces
  <1>6. LockInv /\ IntLockInv
    BY <1>4, Zenon DEF Init, LockInv, LockOf, IntLockInv, IntLockOf
  <1>7. MapLockInv
    BY <1>4, Zenon DEF Init, MapLockInv, Reads, Writes, SendPlaces, RespPlaces
  <1>8. AnsweredIsMapped /\ PutInv
    BY <1>4, Zenon DEF AnsweredIsMapped, PutInv
  <1>9. NoStrandedMsg /\ InboxInv
    BY DEF Init, NoStrandedMsg, InboxInv
  <1> QED
    BY <1>1, <1>2, <1>3, <1>5, <1>6, <1>7, <1>8, <1>9, Zenon DEF IInv, TypeOK

(* Every step of every thread keeps the invariant.                         *)
LEMMA StepKeeps == IInv /\ [Next]_vars => IInv'
  (* A step of one thread leaves the work of the others alone.               *)
  <1>WorkStep.
        ASSUME NEW t \in Threads, WorkInv, Others(t), Work(t)'
        PROVE  WorkInv'
    BY <1>WorkStep, Zenon DEF WorkInv, Work, Others
  (* LockInv when no _Lock changes hands.                                    *)
  <1>LockKept.
        ASSUME NEW t \in Threads, LockInv, Others(t),
               lock' = lock, LockOf(t)' = LockOf(t)
        PROVE  LockInv'
    BY <1>LockKept DEF LockInv, LockOf, Others
  (* LockInv when a thread takes a process's _Lock.                          *)
  <1>LockTaken.
        ASSUME NEW t \in Threads, NEW q \in Pids, LockTypes, LockInv, Others(t),
               lock[q] = Nil, lock' = [lock EXCEPT ![q] = t],
               LockOf(t) = Nil, LockOf(t)' = q
        PROVE  LockInv'
    BY <1>LockTaken, ProcessAssumption DEF LockInv, LockOf, Others, LockTypes
  (* LockInv when a thread releases a process's _Lock.                       *)
  <1>LockDropped.
        ASSUME NEW t \in Threads, NEW q \in Pids, LockTypes, LockInv, Others(t),
               lock' = [lock EXCEPT ![q] = Nil],
               LockOf(t) = q, LockOf(t)' = Nil
        PROVE  LockInv'
    BY <1>LockDropped, ProcessAssumption DEF LockInv, LockOf, Others, LockTypes
  (* IntLockInv when no _IntLock changes hands.                              *)
  <1>IntLockKept.
        ASSUME NEW t \in Threads, IntLockInv, Others(t),
               intLock' = intLock, IntLockOf(t)' = IntLockOf(t)
        PROVE  IntLockInv'
    BY <1>IntLockKept DEF IntLockInv, IntLockOf, Others
  (* IntLockInv when a thread takes a process's _IntLock.                    *)
  <1>IntLockTaken.
        ASSUME NEW t \in Threads, NEW q \in Pids, LockTypes, IntLockInv, Others(t),
               intLock[q] = Nil, intLock' = [intLock EXCEPT ![q] = t],
               IntLockOf(t) = Nil, IntLockOf(t)' = q
        PROVE  IntLockInv'
    BY <1>IntLockTaken, ProcessAssumption DEF IntLockInv, IntLockOf, Others, LockTypes
  (* IntLockInv when a thread releases a process's _IntLock.                 *)
  <1>IntLockDropped.
        ASSUME NEW t \in Threads, NEW q \in Pids, LockTypes, IntLockInv, Others(t),
               intLock' = [intLock EXCEPT ![q] = Nil],
               IntLockOf(t) = q, IntLockOf(t)' = Nil
        PROVE  IntLockInv'
    BY <1>IntLockDropped, ProcessAssumption DEF IntLockInv, IntLockOf, Others, LockTypes
  (* MapLockInv when ProcessMapLock is not touched.                          *)
  <1>MapKept. ASSUME NEW t \in Threads, MapLockInv, Others(t),
                     readers' = readers, writer' = writer,
                     Reads(t)' <=> Reads(t), Writes(t)' <=> Writes(t)
              PROVE  MapLockInv'
    BY <1>MapKept, Zenon DEF MapLockInv, Reads, Writes, Others
  (* MapLockInv when a thread takes ProcessMapLock for reading.              *)
  <1>MapRead. ASSUME NEW t \in Threads, MapLockInv, Others(t),
                     writer = Nil, readers' = readers \cup {t}, writer' = writer,
                     Reads(t)', Writes(t)' <=> Writes(t)
              PROVE  MapLockInv'
    BY <1>MapRead, Zenon DEF MapLockInv, Reads, Writes, Others
  (* MapLockInv when a reader releases ProcessMapLock.                       *)
  <1>MapReadDone.
        ASSUME NEW t \in Threads, MapLockInv, Others(t), LockTypes,
               readers' = readers \ {t}, writer' = writer,
               ~Reads(t)', Writes(t)' <=> Writes(t)
        PROVE  MapLockInv'
    BY <1>MapReadDone, Zenon DEF MapLockInv, Reads, Writes, Others
  (* Messages: nothing is put, and no process begins to wait for one.        *)
  <1>NothingStranded.
        ASSUME NEW t \in Threads, ThreadTypes, WorkInv, NoStrandedMsg, PutInv, Others(t),
               pc'[t] # "put", chan' = chan,
               \A p \in Pids : status'[p] = "RECV_WAIT" => status[p] = "RECV_WAIT"
        PROVE  NoStrandedMsg' /\ PutInv'
    <2> USE <1>NothingStranded
    <2>1. NoStrandedMsg'
      BY Zenon DEF NoStrandedMsg
    <2>2. \A u \in Threads : pc'[u] = "put" => pc[u] = "put" /\ tgt'[u] = tgt[u] /\ tgt[u] \in Pids
      BY ProcessAssumption, Zenon DEF Others, WorkInv, Work, SendPlaces, ThreadTypes
    <2>3. PutInv'
      BY <2>2 DEF PutInv
    <2> QED
      BY <2>1, <2>3, Zenon
  (* Hand-overs: none is made, and where one is pending nothing happens.     *)
  <1>InboxKept.
        ASSUME InboxInv, inbox' = inbox,
               \A p \in Pids :
                   /\ \/ status'[p] = status[p]
                      \/ status[p] # "RECV_RETURN" /\ status'[p] # "RECV_RETURN"
                   /\ intLock'[p] \in Processors => intLock[p] \in Processors
        PROVE  InboxInv'
    BY <1>InboxKept, Zenon DEF InboxInv
  (* MapLockInv when a thread takes ProcessMapLock for writing.              *)
  <1>MapWrite.
        ASSUME NEW t \in Threads, MapLockInv, Others(t),
               writer = Nil, readers = {}, writer' = t, readers' = readers,
               ~Reads(t)', Writes(t)'
        PROVE  MapLockInv'
    BY <1>MapWrite, ProcessAssumption, Zenon DEF MapLockInv, Reads, Writes, Others
  (* MapLockInv when the writer releases ProcessMapLock.                     *)
  <1>MapWriteDone.
        ASSUME NEW t \in Threads, MapLockInv, Others(t),
               Writes(t), writer' = Nil, readers' = readers,
               ~Reads(t)', ~Writes(t)'
        PROVE  MapLockInv'
    BY <1>MapWriteDone, ProcessAssumption, Zenon DEF MapLockInv, Reads, Writes, Others
  (* While one thread holds the write lock no other uses a process it looked *)
  (* up in the map.                                                          *)
  <1>WriterIsAlone.
        ASSUME NEW t \in Threads, WorkInv, MapLockInv, Writes(t)
        PROVE  \A u \in Threads : tgt[u] = Nil
    <2> USE <1>WriterIsAlone
    <2>1. readers = {}
      BY ProcessAssumption, Zenon DEF MapLockInv
    <2>2. \A u \in Threads : ~Reads(u)
      BY <2>1, Zenon DEF MapLockInv
    <2> QED
      BY <2>2, Zenon DEF Reads, WorkInv, Work
  (* The first half of a send, by any thread that may begin one.             *)
  <1>SendLockStep.
        ASSUME NEW t \in Threads, NEW q \in Pids \cup {Nil}, IInv, SendLock(t, q),
               pc[t] \in {"slice", "exitMsg", "idle"},
               UNCHANGED <<node, nodeCount, status, tick, killed, parent, chan, inbox,
                           run, victim, arg>>
        PROVE  /\ NodeTypes' /\ LockTypes' /\ ThreadTypes'
               /\ WorkInv' /\ LockInv' /\ IntLockInv' /\ MapLockInv'
               /\ AnsweredIsMapped' /\ NoStrandedMsg' /\ PutInv' /\ InboxInv'
    <2> USE <1>SendLockStep
    <2> USE ProcessAssumption DEF IInv, TypeOK
    <2>1. Work(t)
      BY Zenon DEF WorkInv
    <2>2. NodeTypes'
      BY Zenon DEF NodeTypes
    <2>3. LockTypes'
      BY DEF LockTypes, SendLock
    <2>4. AfterSend(t) = IF pc[t] = "exitMsg" THEN "unlink" ELSE pc[t]
      BY <2>1, Zenon
         DEF AfterSend, Home, Work, SlicePlaces, DestroyPlaces, SendPlaces, RespPlaces
    <2>5. Others(t)
      BY Zenon DEF SendLock, Goto, Others, ThreadTypes
    <2>6. InboxInv'
      BY <1>InboxKept, Zenon DEF SendLock
    <2>7. CASE Mapped(q)
      <3>1. /\ pc'[t] = "send" /\ tgt'[t] = q /\ q \in Pids
            /\ run'[t] = run[t] /\ victim'[t] = victim[t]
        BY <2>7, Zenon DEF SendLock, Goto, Mapped, ThreadTypes
      <3>2. ThreadTypes'
        BY <3>1 DEF SendLock, Goto, ThreadTypes, Places, SendPlaces
      <3>3. WorkInv'
        BY <2>1, <2>5, <3>1, <1>WorkStep, Zenon
           DEF Work, SlicePlaces, DestroyPlaces, SendPlaces, RespPlaces
      <3>4. LockOf(t) = Nil /\ LockOf(t)' = q
        BY <3>1, Zenon DEF LockOf, SendPlaces
      <3>5. LockInv'
        BY <2>5, <2>7, <3>1, <3>4, <1>LockTaken, Zenon DEF SendLock
      <3>6. IntLockInv'
        BY <2>5, <3>1, <1>IntLockKept, Zenon DEF SendLock, IntLockOf
      <3>7. MapLockInv'
        BY <2>5, <2>7, <3>1, <1>MapRead, Zenon DEF SendLock, Reads, Writes, SendPlaces
      <3>8. AnsweredIsMapped'
        BY <2>5, <2>7, <3>1 DEF AnsweredIsMapped, Mapped, Others
      <3>9. NoStrandedMsg' /\ PutInv'
        BY <2>5, <3>1, <1>NothingStranded, Zenon
      <3> QED
        BY <2>2, <2>3, <2>6, <3>2, <3>3, <3>5, <3>6, <3>7, <3>8, <3>9, Zenon
    <2>8. CASE ~Mapped(q)
      <3>1. /\ pc'[t] = AfterSend(t) /\ tgt'[t] = tgt[t]
            /\ run'[t] = run[t] /\ victim'[t] = victim[t]
        BY <2>8, Zenon DEF SendLock, Goto, ThreadTypes
      <3>2. ThreadTypes'
        BY <2>4, <2>8, Zenon DEF SendLock, Goto, ThreadTypes, Places, DestroyPlaces
      <3>3. WorkInv'
        BY <2>1, <2>4, <2>5, <3>1, <1>WorkStep, Zenon
           DEF Work, SlicePlaces, DestroyPlaces, SendPlaces, RespPlaces
      <3>4. LockInv'
        BY <2>4, <2>5, <2>8, <3>1, <1>LockKept, Zenon DEF SendLock, LockOf, SendPlaces
      <3>5. IntLockInv'
        BY <2>4, <2>5, <3>1, <1>IntLockKept, Zenon DEF SendLock, IntLockOf
      <3>6. MapLockInv'
        BY <2>4, <2>5, <2>8, <3>1, <1>MapKept, Zenon
           DEF SendLock, Reads, Writes, SendPlaces, RespPlaces
      <3>7. AnsweredIsMapped'
        BY <2>5, <3>1 DEF AnsweredIsMapped, Others
      <3>8. NoStrandedMsg' /\ PutInv'
        BY <2>4, <2>5, <3>1, <1>NothingStranded, Zenon
      <3> QED
        BY <2>2, <2>3, <2>6, <3>2, <3>3, <3>4, <3>5, <3>6, <3>7, <3>8, Zenon
    <2> QED
      BY <2>7, <2>8, Zenon
  (* The processor's fetch of a task keeps IInv.                             *)
  <1>GetTaskKeeps.
        ASSUME NEW t \in Processors, IInv, GetTask(t)
        PROVE  IInv'
    <2> USE <1>GetTaskKeeps
    <2> USE ProcessAssumption DEF IInv, TypeOK
    <2>1. /\ t \in Threads /\ Work(t) /\ pc[t] = "get"
          /\ pc'[t] = "resume" /\ run'[t] = Head(ready)
          /\ tgt'[t] = tgt[t] /\ victim'[t] = victim[t]
          /\ Others(t)
      BY Zenon DEF GetTask, At, Goto, Others, WorkInv, ThreadTypes, Threads
    <2>2. Head(ready) \in Pids /\ Tail(ready) \in Seq(Pids)
      BY DEF GetTask, BusTypes
    <2>3. ThreadTypes'
      BY <2>1, <2>2, Zenon DEF GetTask, Goto, ThreadTypes, Places
    <2>4. NodeTypes'
      BY <2>1, <2>2, Zenon DEF GetTask, NodeTypes, procVars
    <2>5. MsgTypes'
      BY <2>1, <2>2, Zenon DEF GetTask, MsgTypes, procVars
    <2>6. LockTypes'
      BY <2>1, <2>2, Zenon DEF GetTask, LockTypes, lockVars
    <2>7. BusTypes'
      BY <2>1, <2>2, Zenon DEF GetTask, BusTypes
    <2>8. Work(t)'
      BY <2>1, <2>2, Zenon DEF Work, DestroyPlaces, SendPlaces, RespPlaces
    <2>9. WorkInv'
      BY <2>1, <2>8, <1>WorkStep, Zenon
    <2>10. LockInv'
      BY <2>1, <2>2, <1>LockKept, Zenon DEF GetTask, LockOf, SendPlaces, lockVars
    <2>11. IntLockInv'
      BY <2>1, <2>2, <1>IntLockKept, Zenon DEF GetTask, IntLockOf, Work, lockVars
    <2>12. MapLockInv'
      BY <2>1, <2>2, <1>MapKept, Zenon
         DEF GetTask, Reads, Writes, SendPlaces, RespPlaces, lockVars
    <2>13. AnsweredIsMapped'
      BY <2>1, Zenon DEF GetTask, AnsweredIsMapped, procVars
    <2>14. NoStrandedMsg' /\ PutInv'
      BY <2>1, <2>2, <1>NothingStranded, Zenon DEF GetTask, procVars
    <2>15. InboxInv'
      BY <2>1, <2>2, <1>InboxKept, Zenon DEF GetTask, procVars, lockVars
    <2> QED
      BY <2>2, <2>3, <2>4, <2>5, <2>6, <2>7, <2>8, <2>9, <2>10, <2>11, <2>12, <2>13,
        <2>14, <2>15, Zenon
  (* The start of a slice keeps IInv.                                        *)
  <1>ResumeKeeps.
        ASSUME NEW t \in Processors, IInv, Resume(t)
        PROVE  IInv'
    <2> USE <1>ResumeKeeps
    <2> USE ProcessAssumption DEF IInv, TypeOK
    <2>1. /\ t \in Threads /\ Work(t) /\ pc[t] = "resume"
          /\ pc'[t] = "slice" /\ run'[t] = run[t]
          /\ tgt'[t] = tgt[t] /\ victim'[t] = victim[t]
          /\ Others(t)
      BY Zenon DEF Resume, At, Goto, Others, WorkInv, ThreadTypes, Threads
    <2>2. run[t] \in Pids
      BY <2>1, Zenon DEF Work, ThreadTypes
    <2>3. ThreadTypes'
      BY <2>1, <2>2, Zenon DEF Resume, Goto, ThreadTypes, SlicePlaces, Places
    <2>4. NodeTypes'
      BY <2>1, <2>2 DEF Resume, NodeTypes, States
    <2>5. MsgTypes'
      BY <2>1, <2>2 DEF Resume, MsgTypes
    <2>6. LockTypes'
      BY <2>1, <2>2, Zenon DEF Resume, LockTypes
    <2>7. BusTypes'
      BY <2>1, <2>2, Zenon DEF Resume, BusTypes, busVars
    <2>8. Work(t)'
      BY <2>1, <2>2, Zenon DEF Work, DestroyPlaces, SendPlaces, RespPlaces
    <2>9. WorkInv'
      BY <2>1, <2>8, <1>WorkStep, Zenon
    <2>10. LockInv'
      BY <2>1, <2>2, <1>LockKept, Zenon DEF Resume, LockOf, SendPlaces
    <2>11. /\ IntLockOf(t) = Nil /\ IntLockOf(t)' = run[t]
          /\ run[t] \in Pids
      BY <2>1, <2>2, Zenon DEF IntLockOf
    <2>12. IntLockInv'
      BY <2>1, <2>11, <1>IntLockTaken, Zenon DEF Resume
    <2>13. MapLockInv'
      BY <2>1, <2>2, <1>MapKept, Zenon DEF Resume, Reads, Writes, SendPlaces, RespPlaces
    <2>14. AnsweredIsMapped'
      BY <2>1, Zenon DEF Resume, AnsweredIsMapped
    <2>15. NoStrandedMsg' /\ PutInv'
      BY <2>1, <2>2, <1>NothingStranded, Zenon DEF Resume, NodeTypes
    <2>16. InboxInv'
      BY <2>1, <2>2 DEF Resume, InboxInv, NodeTypes, MsgTypes
    <2> QED
      BY <2>2, <2>3, <2>4, <2>5, <2>6, <2>7, <2>8, <2>9, <2>10, <2>11, <2>12, <2>13,
        <2>14, <2>15, <2>16, Zenon
  (* The return of a program keeps IInv.                                     *)
  <1>ResumeReturnedKeeps.
        ASSUME NEW t \in Processors, IInv, ResumeReturned(t)
        PROVE  IInv'
    <2> USE <1>ResumeReturnedKeeps
    <2> USE ProcessAssumption DEF IInv, TypeOK
    <2>1. /\ t \in Threads /\ Work(t) /\ pc[t] = "slice"
          /\ pc'[t] = "destroy" /\ run'[t] = Nil
          /\ tgt'[t] = tgt[t] /\ victim'[t] = run[t]
          /\ Others(t)
      BY Zenon DEF ResumeReturned, At, Goto, Others, WorkInv, ThreadTypes, Threads
    <2>2. /\ run[t] \in Pids /\ run[t] \in Senders
          /\ intLock[run[t]] = t /\ status[run[t]] # "RECV_RETURN"
      BY <2>1, SliceOwns, Zenon DEF SlicePlaces
    <2>3. ThreadTypes'
      BY <2>1, <2>2, Zenon
         DEF ResumeReturned, Goto, ThreadTypes, DestroyPlaces, Places
    <2>4. NodeTypes'
      BY <2>1, <2>2, Zenon DEF ResumeReturned, NodeTypes, States
    <2>5. MsgTypes'
      BY <2>1, <2>2, Zenon DEF ResumeReturned, MsgTypes
    <2>6. LockTypes'
      BY <2>1, <2>2, Zenon DEF ResumeReturned, LockTypes
    <2>7. BusTypes'
      BY <2>1, <2>2, Zenon DEF ResumeReturned, BusTypes, busVars
    <2>8. Work(t)'
      BY <2>1, <2>2, Zenon DEF Work, SlicePlaces, SendPlaces, RespPlaces
    <2>9. WorkInv'
      BY <2>1, <2>8, <1>WorkStep, Zenon
    <2>10. LockInv'
      BY <2>1, <2>2, <1>LockKept, Zenon DEF ResumeReturned, LockOf, SendPlaces
    <2>11. /\ IntLockOf(t) = run[t] /\ IntLockOf(t)' = Nil
          /\ run[t] \in Pids
      BY <2>1, <2>2, Zenon DEF IntLockOf
    <2>12. IntLockInv'
      BY <2>1, <2>11, <1>IntLockDropped, Zenon DEF ResumeReturned
    <2>13. MapLockInv'
      BY <2>1, <2>2, <1>MapKept, Zenon
         DEF ResumeReturned, Reads, Writes, SendPlaces, RespPlaces
    <2>14. AnsweredIsMapped'
      BY <2>1, Zenon DEF ResumeReturned, AnsweredIsMapped
    <2>15. NoStrandedMsg' /\ PutInv'
      BY <2>1, <2>2, <1>NothingStranded, Zenon DEF ResumeReturned, NodeTypes
    <2>16. InboxInv'
      BY <2>1, <2>2, <1>InboxKept, Zenon DEF ResumeReturned, NodeTypes, LockTypes
    <2> QED
      BY <2>2, <2>3, <2>4, <2>5, <2>6, <2>7, <2>8, <2>9, <2>10, <2>11, <2>12, <2>13,
        <2>14, <2>15, <2>16, Zenon
  (* The scheduler's test after a slice keeps IInv.                          *)
  <1>AfterResumeKeeps.
        ASSUME NEW t \in Processors, IInv, AfterResume(t)
        PROVE  IInv'
    <2> USE <1>AfterResumeKeeps
    <2> USE ProcessAssumption DEF IInv, TypeOK
    <2>1. /\ t \in Threads /\ Work(t) /\ pc[t] = "after"
          /\ pc'[t] = "get" /\ run'[t] = Nil
          /\ tgt'[t] = tgt[t] /\ victim'[t] = victim[t]
          /\ Others(t)
      BY Zenon DEF AfterResume, At, Goto, Others, WorkInv, ThreadTypes, Threads
    <2>2. run[t] \in Pids
      BY <2>1, Zenon DEF Work, ThreadTypes
    <2>3. ThreadTypes'
      BY <2>1, <2>2, Zenon DEF AfterResume, Goto, ThreadTypes, Places
    <2>4. NodeTypes'
      BY <2>1, <2>2, Zenon DEF AfterResume, NodeTypes, procVars
    <2>5. MsgTypes'
      BY <2>1, <2>2, Zenon DEF AfterResume, MsgTypes, procVars
    <2>6. LockTypes'
      BY <2>1, <2>2, Zenon DEF AfterResume, LockTypes, lockVars
    <2>7. BusTypes'
      BY <2>1, <2>2 DEF AfterResume, BusTypes
    <2>8. Work(t)'
      BY <2>1, <2>2, Zenon
         DEF Work, SlicePlaces, DestroyPlaces, SendPlaces, RespPlaces
    <2>9. WorkInv'
      BY <2>1, <2>8, <1>WorkStep, Zenon
    <2>10. LockInv'
      BY <2>1, <2>2, <1>LockKept, Zenon DEF AfterResume, LockOf, SendPlaces, lockVars
    <2>11. IntLockInv'
      BY <2>1, <2>2, <1>IntLockKept, Zenon DEF AfterResume, IntLockOf, lockVars
    <2>12. MapLockInv'
      BY <2>1, <2>2, <1>MapKept, Zenon
         DEF AfterResume, Reads, Writes, SendPlaces, RespPlaces, lockVars
    <2>13. AnsweredIsMapped'
      BY <2>1, Zenon DEF AfterResume, AnsweredIsMapped, procVars
    <2>14. NoStrandedMsg' /\ PutInv'
      BY <2>1, <2>2, <1>NothingStranded, Zenon DEF AfterResume, procVars
    <2>15. InboxInv'
      BY <2>1, <2>2, <1>InboxKept, Zenon DEF AfterResume, procVars, lockVars
    <2> QED
      BY <2>2, <2>3, <2>4, <2>5, <2>6, <2>7, <2>8, <2>9, <2>10, <2>11, <2>12, <2>13,
        <2>14, <2>15, Zenon
  (* The start of a receive keeps IInv.                                      *)
  <1>RecieveKeeps.
        ASSUME NEW t \in Processors, NEW c \in {"recv", "recvTimeout"}, IInv, Recieve(t, c)
        PROVE  IInv'
    <2> USE <1>RecieveKeeps
    <2> USE ProcessAssumption DEF IInv, TypeOK
    <2>1. /\ t \in Threads /\ Work(t) /\ pc[t] = "slice"
          /\ pc'[t] = c /\ run'[t] = run[t]
          /\ tgt'[t] = tgt[t] /\ victim'[t] = victim[t]
          /\ Others(t)
      BY Zenon DEF Recieve, Call, At, Goto, Others, WorkInv, ThreadTypes, Threads
    <2>2. /\ run[t] \in Pids /\ run[t] \in Senders
          /\ intLock[run[t]] = t /\ status[run[t]] # "RECV_RETURN"
      BY <2>1, SliceOwns, Zenon DEF SlicePlaces
    <2>3. ThreadTypes'
      BY <2>1, <2>2, Zenon DEF Recieve, Goto, ThreadTypes, SlicePlaces, Places
    <2>4. NodeTypes'
      BY <2>1, <2>2, Zenon DEF Recieve, NodeTypes
    <2>5. MsgTypes'
      BY <2>1, <2>2 DEF Recieve, Call, MsgTypes
    <2>6. LockTypes'
      BY <2>1, <2>2, Zenon DEF Recieve, LockTypes
    <2>7. BusTypes'
      BY <2>1, <2>2, Zenon DEF Recieve, BusTypes, busVars
    <2>8. Work(t)'
      BY <2>1, <2>2, Zenon
         DEF Work, SlicePlaces, DestroyPlaces, SendPlaces, RespPlaces
    <2>9. WorkInv'
      BY <2>1, <2>8, <1>WorkStep, Zenon
    <2>10. /\ LockOf(t) = Nil /\ LockOf(t)' = run[t]
          /\ run[t] \in Pids
      BY <2>1, <2>2, Zenon DEF LockOf, SendPlaces
    <2>11. LockInv'
      BY <2>1, <2>10, <1>LockTaken, Zenon DEF Recieve
    <2>12. IntLockInv'
      BY <2>1, <2>2, <1>IntLockKept, Zenon DEF Recieve, IntLockOf
    <2>13. MapLockInv'
      BY <2>1, <2>2, <1>MapRead, Zenon DEF Recieve, Reads, Writes
    <2>14. AnsweredIsMapped'
      BY <2>1, Zenon DEF Recieve, AnsweredIsMapped
    <2>15. NoStrandedMsg' /\ PutInv'
      BY <2>1, <2>2, <1>NothingStranded, Zenon DEF Recieve
    <2>16. InboxInv'
      BY <2>1, <2>2, <1>InboxKept, Zenon DEF Recieve
    <2> QED
      BY <2>2, <2>3, <2>4, <2>5, <2>6, <2>7, <2>8, <2>9, <2>10, <2>11, <2>12, <2>13,
        <2>14, <2>15, <2>16, Zenon
  (* The trap into a device keeps IInv.                                      *)
  <1>InterruptKeeps.
        ASSUME NEW t \in Processors, NEW c \in {"request", "requestTimeout", "write", "return",
                                 "sleep", "signal"}, IInv, Interrupt(t, c)
        PROVE  IInv'
    <2> USE <1>InterruptKeeps
    <2> USE ProcessAssumption DEF IInv, TypeOK
    <2>1. /\ t \in Threads /\ Work(t) /\ pc[t] = "slice"
          /\ pc'[t] = c /\ run'[t] = run[t]
          /\ tgt'[t] = tgt[t] /\ victim'[t] = victim[t]
          /\ Others(t)
      BY Zenon DEF Interrupt, Call, At, Goto, Others, WorkInv, ThreadTypes, Threads
    <2>2. /\ run[t] \in Pids /\ run[t] \in Senders
          /\ intLock[run[t]] = t /\ status[run[t]] # "RECV_RETURN"
      BY <2>1, SliceOwns, Zenon DEF SlicePlaces
    <2>3. ThreadTypes'
      BY <2>1, <2>2, Zenon DEF Interrupt, Goto, ThreadTypes, SlicePlaces, Places
    <2>4. NodeTypes'
      BY <2>1, <2>2, Zenon DEF Interrupt, NodeTypes, States
    <2>5. MsgTypes'
      BY <2>1, <2>2 DEF Interrupt, Call, MsgTypes
    <2>6. LockTypes'
      BY <2>1, <2>2, Zenon DEF Interrupt, LockTypes, lockVars
    <2>7. BusTypes'
      BY <2>1, <2>2, Zenon DEF Interrupt, BusTypes, busVars
    <2>8. Work(t)'
      BY <2>1, <2>2, Zenon
         DEF Work, SlicePlaces, DestroyPlaces, SendPlaces, RespPlaces
    <2>9. WorkInv'
      BY <2>1, <2>8, <1>WorkStep, Zenon
    <2>10. LockInv'
      BY <2>1, <2>2, <1>LockKept, Zenon DEF Interrupt, LockOf, SendPlaces, lockVars
    <2>11. IntLockInv'
      BY <2>1, <2>2, <1>IntLockKept, Zenon DEF Interrupt, IntLockOf, lockVars
    <2>12. MapLockInv'
      BY <2>1, <2>2, <1>MapKept, Zenon
         DEF Interrupt, Reads, Writes, SendPlaces, RespPlaces, lockVars
    <2>13. AnsweredIsMapped'
      BY <2>1, Zenon DEF Interrupt, AnsweredIsMapped
    <2>14. NoStrandedMsg' /\ PutInv'
      BY <2>1, <2>2, <1>NothingStranded, Zenon DEF Interrupt, NodeTypes
    <2>15. InboxInv'
      BY <2>1, <2>2, <1>InboxKept, Zenon DEF Interrupt, NodeTypes, lockVars
    <2> QED
      BY <2>2, <2>3, <2>4, <2>5, <2>6, <2>7, <2>8, <2>9, <2>10, <2>11, <2>12, <2>13,
        <2>14, <2>15, Zenon
  (* A request answered at once keeps IInv.                                  *)
  <1>IntReturnKeeps.
        ASSUME NEW t \in Processors, IInv, IntReturn(t)
        PROVE  IInv'
    <2> USE <1>IntReturnKeeps
    <2> USE ProcessAssumption DEF IInv, TypeOK
    <2>1. /\ t \in Threads /\ Work(t) /\ pc[t] = "return"
          /\ pc'[t] = "slice" /\ run'[t] = run[t]
          /\ tgt'[t] = tgt[t] /\ victim'[t] = victim[t]
          /\ Others(t)
      BY Zenon DEF IntReturn, At, Goto, Others, WorkInv, ThreadTypes, Threads
    <2>2. /\ run[t] \in Pids /\ run[t] \in Senders
          /\ intLock[run[t]] = t /\ status[run[t]] # "RECV_RETURN"
      BY <2>1, SliceOwns, Zenon DEF SlicePlaces
    <2>3. ThreadTypes'
      BY <2>1, <2>2, Zenon DEF IntReturn, Goto, ThreadTypes, SlicePlaces, Places
    <2>4. NodeTypes'
      BY <2>1, <2>2, Zenon DEF IntReturn, NodeTypes, States
    <2>5. MsgTypes'
      BY <2>1, <2>2, Zenon DEF IntReturn, MsgTypes
    <2>6. LockTypes'
      BY <2>1, <2>2, Zenon DEF IntReturn, LockTypes, lockVars
    <2>7. BusTypes'
      BY <2>1, <2>2, Zenon DEF IntReturn, BusTypes, busVars
    <2>8. Work(t)'
      BY <2>1, <2>2, Zenon
         DEF Work, SlicePlaces, DestroyPlaces, SendPlaces, RespPlaces
    <2>9. WorkInv'
      BY <2>1, <2>8, <1>WorkStep, Zenon
    <2>10. LockInv'
      BY <2>1, <2>2, <1>LockKept, Zenon DEF IntReturn, LockOf, SendPlaces, lockVars
    <2>11. IntLockInv'
      BY <2>1, <2>2, <1>IntLockKept, Zenon DEF IntReturn, IntLockOf, lockVars
    <2>12. MapLockInv'
      BY <2>1, <2>2, <1>MapKept, Zenon
         DEF IntReturn, Reads, Writes, SendPlaces, RespPlaces, lockVars
    <2>13. AnsweredIsMapped'
      BY <2>1, Zenon DEF IntReturn, AnsweredIsMapped
    <2>14. NoStrandedMsg' /\ PutInv'
      BY <2>1, <2>2, <1>NothingStranded, Zenon DEF IntReturn, NodeTypes
    <2>15. InboxInv'
      BY <2>1, <2>2, <1>InboxKept, Zenon DEF IntReturn, NodeTypes, lockVars
    <2> QED
      BY <2>2, <2>3, <2>4, <2>5, <2>6, <2>7, <2>8, <2>9, <2>10, <2>11, <2>12, <2>13,
        <2>14, <2>15, Zenon
  (* A request a device takes keeps IInv.                                    *)
  <1>IntRequestKeeps.
        ASSUME NEW t \in Processors, IInv, IntRequest(t)
        PROVE  IInv'
    <2> USE <1>IntRequestKeeps
    <2> USE ProcessAssumption DEF IInv, TypeOK
    <2>1. /\ t \in Threads /\ Work(t) /\ pc[t] \in {"request", "requestTimeout", "write"}
          /\ pc'[t] = "yielded" /\ run'[t] = run[t]
          /\ tgt'[t] = tgt[t] /\ victim'[t] = victim[t]
          /\ Others(t)
      BY Zenon DEF IntRequest, At, Goto, Others, WorkInv, ThreadTypes, Threads
    <2>2. /\ run[t] \in Pids /\ run[t] \in Senders
          /\ intLock[run[t]] = t /\ status[run[t]] # "RECV_RETURN"
      BY <2>1, SliceOwns, Zenon DEF SlicePlaces
    <2>3. tick[run[t]] \in Nat
      BY <2>2, Zenon DEF NodeTypes
    <2>4. ThreadTypes'
      BY <2>1, <2>2, Zenon DEF IntRequest, Goto, ThreadTypes, SlicePlaces, Places
    <2>5. NodeTypes'
      BY <2>1, <2>2, Zenon DEF IntRequest, NodeTypes, States, Waits
    <2>6. MsgTypes'
      BY <2>1, <2>2, Zenon DEF IntRequest, MsgTypes
    <2>7. LockTypes'
      BY <2>1, <2>2, Zenon DEF IntRequest, LockTypes, lockVars
    <2>8. BusTypes'
      BY <2>1, <2>2, <2>3 DEF IntRequest, BusTypes
    <2>9. Work(t)'
      BY <2>1, <2>2, Zenon
         DEF Work, SlicePlaces, DestroyPlaces, SendPlaces, RespPlaces
    <2>10. WorkInv'
      BY <2>1, <2>9, <1>WorkStep, Zenon
    <2>11. LockInv'
      BY <2>1, <2>2, <1>LockKept, Zenon DEF IntRequest, LockOf, SendPlaces, lockVars
    <2>12. IntLockInv'
      BY <2>1, <2>2, <1>IntLockKept, Zenon DEF IntRequest, IntLockOf, lockVars
    <2>13. MapLockInv'
      BY <2>1, <2>2, <1>MapKept, Zenon
         DEF IntRequest, Reads, Writes, SendPlaces, RespPlaces, lockVars
    <2>14. AnsweredIsMapped'
      BY <2>1, Zenon DEF IntRequest, AnsweredIsMapped
    <2>15. NoStrandedMsg' /\ PutInv'
      BY <2>1, <2>2, <1>NothingStranded, Zenon DEF IntRequest, NodeTypes
    <2>16. InboxInv'
      BY <2>1, <2>2, <1>InboxKept, Zenon DEF IntRequest, NodeTypes, lockVars
    <2> QED
      BY <2>2, <2>3, <2>4, <2>5, <2>6, <2>7, <2>8, <2>9, <2>10, <2>11, <2>12, <2>13,
        <2>14, <2>15, <2>16, Zenon
  (* A sleep or a signal keeps IInv.                                         *)
  <1>IntTimerKeeps.
        ASSUME NEW t \in Processors, IInv, IntTimer(t)
        PROVE  IInv'
    <2> USE <1>IntTimerKeeps
    <2> USE ProcessAssumption DEF IInv, TypeOK
    <2>1. /\ t \in Threads /\ Work(t) /\ pc[t] \in {"sleep", "signal"}
          /\ pc'[t] = "yielded" /\ run'[t] = run[t]
          /\ tgt'[t] = tgt[t] /\ victim'[t] = victim[t]
          /\ Others(t)
      BY Zenon
         DEF IntTimer, TIMER, SIGNAL, At, Goto, Others, WorkInv, ThreadTypes, Threads
    <2>2. /\ run[t] \in Pids /\ run[t] \in Senders
          /\ intLock[run[t]] = t /\ status[run[t]] # "RECV_RETURN"
      BY <2>1, SliceOwns, Zenon DEF SlicePlaces
    <2>3. tick[run[t]] \in Nat
      BY <2>2, Zenon DEF NodeTypes
    <2>4. ThreadTypes'
      BY <2>1, <2>2, Zenon
         DEF IntTimer, TIMER, SIGNAL, Goto, ThreadTypes, SlicePlaces, Places
    <2>5. NodeTypes'
      BY <2>1, <2>2, Zenon DEF IntTimer, TIMER, SIGNAL, NodeTypes, States, Waits
    <2>6. MsgTypes'
      BY <2>1, <2>2, Zenon DEF IntTimer, TIMER, SIGNAL, MsgTypes
    <2>7. LockTypes'
      BY <2>1, <2>2, Zenon DEF IntTimer, TIMER, SIGNAL, LockTypes, lockVars
    <2>8. BusTypes'
      BY <2>1, <2>2, <2>3 DEF IntTimer, TIMER, SIGNAL, BusTypes
    <2>9. Work(t)'
      BY <2>1, <2>2, Zenon
         DEF Work, SlicePlaces, DestroyPlaces, SendPlaces, RespPlaces
    <2>10. WorkInv'
      BY <2>1, <2>9, <1>WorkStep, Zenon
    <2>11. LockInv'
      BY <2>1, <2>2, <1>LockKept, Zenon
         DEF IntTimer, TIMER, SIGNAL, LockOf, SendPlaces, lockVars
    <2>12. IntLockInv'
      BY <2>1, <2>2, <1>IntLockKept, Zenon
         DEF IntTimer, TIMER, SIGNAL, IntLockOf, lockVars
    <2>13. MapLockInv'
      BY <2>1, <2>2, <1>MapKept, Zenon
         DEF IntTimer, TIMER, SIGNAL, Reads, Writes, SendPlaces, RespPlaces, lockVars
    <2>14. AnsweredIsMapped'
      BY <2>1, Zenon DEF IntTimer, TIMER, SIGNAL, AnsweredIsMapped
    <2>15. NoStrandedMsg' /\ PutInv'
      BY <2>1, <2>2, <1>NothingStranded, Zenon DEF IntTimer, TIMER, SIGNAL, NodeTypes
    <2>16. InboxInv'
      BY <2>1, <2>2, <1>InboxKept, Zenon DEF IntTimer, TIMER, SIGNAL, NodeTypes, lockVars
    <2> QED
      BY <2>2, <2>3, <2>4, <2>5, <2>6, <2>7, <2>8, <2>9, <2>10, <2>11, <2>12, <2>13,
        <2>14, <2>15, <2>16, Zenon
  (* The yield of a program keeps IInv.                                      *)
  <1>ResumeYieldedKeeps.
        ASSUME NEW t \in Processors, IInv, ResumeYielded(t)
        PROVE  IInv'
    <2> USE <1>ResumeYieldedKeeps
    <2> USE ProcessAssumption DEF IInv, TypeOK
    <2>1. /\ t \in Threads /\ Work(t) /\ pc[t] = "yielded"
          /\ pc'[t] = (IF killed[run[t]] THEN "destroy" ELSE "after")
          /\ run'[t] = (IF killed[run[t]] THEN Nil ELSE run[t])
          /\ tgt'[t] = tgt[t] /\ victim'[t] = (IF killed[run[t]] THEN run[t] ELSE victim[t])
          /\ Others(t)
      BY Zenon DEF ResumeYielded, At, Goto, Others, WorkInv, ThreadTypes, Threads
    <2>2. /\ run[t] \in Pids /\ run[t] \in Senders
          /\ intLock[run[t]] = t /\ status[run[t]] # "RECV_RETURN"
      BY <2>1, SliceOwns, Zenon DEF SlicePlaces
    <2>3. ThreadTypes'
      <3>1. CASE killed[run[t]]
        BY <2>2, <3>1 DEF ResumeYielded, Goto, ThreadTypes, Places, DestroyPlaces
      <3>2. CASE ~killed[run[t]]
        BY <2>2, <3>2, Zenon DEF ResumeYielded, Goto, ThreadTypes, Places
      <3> QED
        BY <3>1, <3>2, Zenon
    <2>4. NodeTypes'
      BY <2>1, <2>2, Zenon DEF ResumeYielded, NodeTypes, States
    <2>5. MsgTypes'
      BY <2>1, <2>2, Zenon DEF ResumeYielded, MsgTypes
    <2>6. LockTypes'
      BY <2>1, <2>2, Zenon DEF ResumeYielded, LockTypes
    <2>7. BusTypes'
      BY <2>1, <2>2, Zenon DEF ResumeYielded, BusTypes, busVars
    <2>8. Work(t)'
      BY <2>1, <2>2, Zenon
         DEF Work, SlicePlaces, DestroyPlaces, SendPlaces, RespPlaces
    <2>9. WorkInv'
      BY <2>1, <2>8, <1>WorkStep, Zenon
    <2>10. LockInv'
      BY <2>1, <2>2, <1>LockKept, Zenon DEF ResumeYielded, LockOf, SendPlaces
    <2>11. /\ IntLockOf(t) = run[t] /\ IntLockOf(t)' = Nil
          /\ run[t] \in Pids
      BY <2>1, <2>2, Zenon DEF IntLockOf
    <2>12. IntLockInv'
      BY <2>1, <2>11, <1>IntLockDropped, Zenon DEF ResumeYielded
    <2>13. MapLockInv'
      BY <2>1, <2>2, <1>MapKept, Zenon
         DEF ResumeYielded, Reads, Writes, SendPlaces, RespPlaces
    <2>14. AnsweredIsMapped'
      BY <2>1, Zenon DEF ResumeYielded, AnsweredIsMapped
    <2>15. NoStrandedMsg' /\ PutInv'
      BY <2>1, <2>2, <1>NothingStranded, Zenon DEF ResumeYielded, NodeTypes
    <2>16. InboxInv'
      BY <2>1, <2>2, <1>InboxKept, Zenon DEF ResumeYielded, NodeTypes, LockTypes
    <2> QED
      BY <2>2, <2>3, <2>4, <2>5, <2>6, <2>7, <2>8, <2>9, <2>10, <2>11, <2>12, <2>13,
        <2>14, <2>15, <2>16, Zenon
  (* The test of SendMsg keeps IInv.                                         *)
  <1>SendTestKeeps.
        ASSUME NEW t \in Threads, IInv, SendTest(t)
        PROVE  IInv'
    <2> USE <1>SendTestKeeps
    <2> USE ProcessAssumption DEF IInv, TypeOK
    <2>1. /\ t \in Threads /\ Work(t) /\ pc[t] = "send"
          /\ pc'[t] = "put" /\ run'[t] = run[t]
          /\ tgt'[t] = tgt[t] /\ victim'[t] = victim[t]
          /\ Others(t)
      BY Zenon DEF SendTest, At, Goto, Others, WorkInv, ThreadTypes
    <2>2. tgt[t] \in Pids
      BY <2>1, Zenon DEF Work, ThreadTypes, SendPlaces
    <2>3. ThreadTypes'
      BY <2>1, <2>2, Zenon DEF SendTest, Goto, ThreadTypes, SendPlaces, Places
    <2>4. NodeTypes'
      BY <2>1, <2>2, Zenon DEF SendTest, NodeTypes, procVars
    <2>5. MsgTypes'
      BY <2>1, <2>2, Zenon DEF SendTest, MsgTypes, procVars
    <2>6. LockTypes'
      BY <2>1, <2>2, Zenon DEF SendTest, LockTypes, lockVars
    <2>7. BusTypes'
      BY <2>1, <2>2, Zenon DEF SendTest, BusTypes, busVars
    <2>8. Work(t)'
      BY <2>1, <2>2, Zenon
         DEF Work, SlicePlaces, DestroyPlaces, SendPlaces, RespPlaces
    <2>9. WorkInv'
      BY <2>1, <2>8, <1>WorkStep, Zenon
    <2>10. LockInv'
      BY <2>1, <2>2, <1>LockKept, Zenon DEF SendTest, LockOf, SendPlaces, lockVars
    <2>11. IntLockInv'
      BY <2>1, <2>2, <1>IntLockKept, Zenon DEF SendTest, IntLockOf, lockVars
    <2>12. MapLockInv'
      BY <2>1, <2>2, <1>MapKept, Zenon DEF SendTest, Reads, Writes, SendPlaces, lockVars
    <2>13. AnsweredIsMapped'
      BY <2>1, Zenon DEF SendTest, AnsweredIsMapped, procVars
    <2>14. NoStrandedMsg' /\ PutInv'
      BY <2>1, <2>2, Zenon DEF SendTest, NoStrandedMsg, PutInv, Others, procVars
    <2>15. InboxInv'
      BY <2>1, <2>2, <1>InboxKept, Zenon DEF SendTest, procVars, lockVars
    <2> QED
      BY <2>2, <2>3, <2>4, <2>5, <2>6, <2>7, <2>8, <2>9, <2>10, <2>11, <2>12, <2>13,
        <2>14, <2>15, Zenon
  (* The hand-over of a message keeps IInv.                                  *)
  <1>SendHandOverKeeps.
        ASSUME NEW t \in Threads, IInv, SendHandOver(t)
        PROVE  IInv'
    <2> USE <1>SendHandOverKeeps
    <2> USE ProcessAssumption DEF IInv, TypeOK
    <2>1. /\ t \in Threads /\ Work(t) /\ pc[t] = "send"
          /\ pc'[t] = AfterSend(t) /\ run'[t] = run[t]
          /\ tgt'[t] = Nil /\ victim'[t] = victim[t]
          /\ Others(t)
      BY Zenon DEF SendHandOver, SendUnlock, At, Goto, Others, WorkInv, ThreadTypes
    <2>2. tgt[t] \in Pids
      BY <2>1, Zenon DEF Work, ThreadTypes, SendPlaces
    <2>3. From(t) \in Senders
      BY <2>1, FromIsSender, Zenon DEF SendPlaces
    <2>4. AfterSend(t) = IF victim[t] # Nil THEN "unlink"
                         ELSE IF run[t] # Nil THEN "slice" ELSE "idle"
      BY <2>1, Zenon DEF AfterSend, Home, Work, SendPlaces
    <2>5. ThreadTypes'
      BY <2>1, <2>2, <2>3, <2>4, Zenon
         DEF SendHandOver, SendUnlock, Goto, ThreadTypes, SlicePlaces, DestroyPlaces,
             Places
    <2>6. NodeTypes'
      BY <2>1, <2>2, Zenon DEF SendHandOver, SendUnlock, NodeTypes, States
    <2>7. MsgTypes'
      BY <2>1, <2>2, <2>3, <2>4 DEF SendHandOver, SendUnlock, MsgTypes
    <2>8. LockTypes'
      BY <2>1, <2>2, Zenon DEF SendHandOver, SendUnlock, LockTypes
    <2>9. BusTypes'
      BY <2>2 DEF SendHandOver, BusTypes
    <2>10. Work(t)'
      BY <2>1, <2>2, <2>3, <2>4, Zenon
         DEF Work, SlicePlaces, DestroyPlaces, SendPlaces, RespPlaces
    <2>11. WorkInv'
      BY <2>1, <2>10, <1>WorkStep, Zenon
    <2>12. /\ LockOf(t) = tgt[t] /\ LockOf(t)' = Nil
          /\ tgt[t] \in Pids
      BY <2>1, <2>2, <2>3, <2>4, Zenon DEF LockOf, SendPlaces
    <2>13. LockInv'
      BY <2>1, <2>12, <1>LockDropped, Zenon DEF SendHandOver, SendUnlock
    <2>14. IntLockInv'
      BY <2>1, <2>2, <2>3, <2>4, <1>IntLockKept, Zenon
         DEF SendHandOver, SendUnlock, IntLockOf
    <2>15. MapLockInv'
      BY <2>1, <2>2, <2>3, <2>4, <1>MapReadDone, Zenon
         DEF SendHandOver, SendUnlock, Reads, Writes, SendPlaces, RespPlaces
    <2>16. AnsweredIsMapped'
      BY <2>1, Zenon DEF SendHandOver, SendUnlock, AnsweredIsMapped, Others
    <2>17. NoStrandedMsg' /\ PutInv'
      BY <2>1, <2>2, <2>3, <2>4, <1>NothingStranded, Zenon
         DEF SendHandOver, SendUnlock, NodeTypes
    <2>18. /\ inbox' = [inbox EXCEPT ![tgt[t]] = <<From(t)>>]
          /\ status' = [status EXCEPT ![tgt[t]] = "RECV_RETURN"]
          /\ intLock[tgt[t]] = Nil /\ intLock' = intLock
      BY Zenon DEF SendHandOver
    <2>19. InboxInv'
      BY <2>2, <2>18 DEF InboxInv, NodeTypes, Threads
    <2> QED
      BY <2>2, <2>3, <2>4, <2>5, <2>6, <2>7, <2>8, <2>9, <2>10, <2>11, <2>12, <2>13,
        <2>14, <2>15, <2>16, <2>17, <2>18, <2>19, Zenon
  (* The put of a message keeps IInv.                                        *)
  <1>SendPutKeeps.
        ASSUME NEW t \in Threads, IInv, SendPut(t)
        PROVE  IInv'
    <2> USE <1>SendPutKeeps
    <2> USE ProcessAssumption DEF IInv, TypeOK
    <2>1. /\ t \in Threads /\ Work(t) /\ pc[t] = "put"
          /\ pc'[t] = AfterSend(t) /\ run'[t] = run[t]
          /\ tgt'[t] = Nil /\ victim'[t] = victim[t]
          /\ Others(t)
      BY Zenon DEF SendPut, SendUnlock, At, Goto, Others, WorkInv, ThreadTypes
    <2>2. tgt[t] \in Pids
      BY <2>1, Zenon DEF Work, ThreadTypes, SendPlaces
    <2>3. From(t) \in Senders
      BY <2>1, FromIsSender, Zenon DEF SendPlaces
    <2>4. AfterSend(t) = IF victim[t] # Nil THEN "unlink"
                         ELSE IF run[t] # Nil THEN "slice" ELSE "idle"
      BY <2>1, Zenon DEF AfterSend, Home, Work, SendPlaces
    <2>5. ThreadTypes'
      BY <2>1, <2>2, <2>3, <2>4, Zenon
         DEF SendPut, SendUnlock, Goto, ThreadTypes, SlicePlaces, DestroyPlaces,
             Places
    <2>6. NodeTypes'
      BY <2>1, <2>2, Zenon DEF SendPut, SendUnlock, NodeTypes
    <2>7. MsgTypes'
      BY <2>1, <2>2, <2>3, <2>4 DEF SendPut, SendUnlock, MsgTypes
    <2>8. LockTypes'
      BY <2>1, <2>2, Zenon DEF SendPut, SendUnlock, LockTypes
    <2>9. BusTypes'
      BY <2>1, <2>2, Zenon DEF SendPut, SendUnlock, BusTypes, busVars
    <2>10. Work(t)'
      BY <2>1, <2>2, <2>3, <2>4, Zenon
         DEF Work, SlicePlaces, DestroyPlaces, SendPlaces, RespPlaces
    <2>11. WorkInv'
      BY <2>1, <2>10, <1>WorkStep, Zenon
    <2>12. /\ LockOf(t) = tgt[t] /\ LockOf(t)' = Nil
          /\ tgt[t] \in Pids
      BY <2>1, <2>2, <2>3, <2>4, Zenon DEF LockOf, SendPlaces
    <2>13. LockInv'
      BY <2>1, <2>12, <1>LockDropped, Zenon DEF SendPut, SendUnlock
    <2>14. IntLockInv'
      BY <2>1, <2>2, <2>3, <2>4, <1>IntLockKept, Zenon DEF SendPut, SendUnlock, IntLockOf
    <2>15. MapLockInv'
      BY <2>1, <2>2, <2>3, <2>4, <1>MapReadDone, Zenon
         DEF SendPut, SendUnlock, Reads, Writes, SendPlaces, RespPlaces
    <2>16. AnsweredIsMapped'
      BY <2>1, Zenon DEF SendPut, SendUnlock, AnsweredIsMapped, Others
    <2>17. NoStrandedMsg'
      BY <2>1, <2>2, Zenon DEF SendPut, NoStrandedMsg, PutInv, MsgTypes
    <2>18. PutInv'
      BY <2>1, <2>4, Zenon DEF SendPut, PutInv, Others
    <2>19. InboxInv'
      BY <2>1, <2>2, <1>InboxKept, Zenon DEF SendPut, SendUnlock
    <2> QED
      BY <2>2, <2>3, <2>4, <2>5, <2>6, <2>7, <2>8, <2>9, <2>10, <2>11, <2>12, <2>13,
        <2>14, <2>15, <2>16, <2>17, <2>18, <2>19, Zenon
  (* A receive that finds a message keeps IInv.                              *)
  <1>RecieveMsgKeeps.
        ASSUME NEW t \in Processors, IInv, RecieveMsg(t)
        PROVE  IInv'
    <2> USE <1>RecieveMsgKeeps
    <2> USE ProcessAssumption DEF IInv, TypeOK
    <2>1. /\ t \in Threads /\ Work(t) /\ pc[t] \in {"recv", "recvTimeout"}
          /\ pc'[t] = "slice" /\ run'[t] = run[t]
          /\ tgt'[t] = tgt[t] /\ victim'[t] = victim[t]
          /\ Others(t)
      BY Zenon DEF RecieveMsg, At, Goto, Others, WorkInv, ThreadTypes, Threads
    <2>2. /\ run[t] \in Pids /\ run[t] \in Senders
          /\ intLock[run[t]] = t /\ status[run[t]] # "RECV_RETURN"
      BY <2>1, SliceOwns, Zenon DEF SlicePlaces
    <2>3. chan[run[t]] \in Seq(Senders) /\ chan[run[t]] # <<>>
      BY <2>2, Zenon DEF RecieveMsg, MsgTypes
    <2>4. Tail(chan[run[t]]) \in Seq(Senders)
      BY <2>3
    <2>5. ThreadTypes'
      BY <2>1, <2>2, Zenon DEF RecieveMsg, Goto, ThreadTypes, SlicePlaces, Places
    <2>6. NodeTypes'
      BY <2>1, <2>2, Zenon DEF RecieveMsg, NodeTypes
    <2>7. MsgTypes'
      BY <2>1, <2>2, <2>3, <2>4, Zenon DEF RecieveMsg, MsgTypes
    <2>8. LockTypes'
      BY <2>1, <2>2, Zenon DEF RecieveMsg, LockTypes
    <2>9. BusTypes'
      BY <2>1, <2>2, Zenon DEF RecieveMsg, BusTypes, busVars
    <2>10. Work(t)'
      BY <2>1, <2>2, Zenon
         DEF Work, SlicePlaces, DestroyPlaces, SendPlaces, RespPlaces
    <2>11. WorkInv'
      BY <2>1, <2>10, <1>WorkStep, Zenon
    <2>12. /\ LockOf(t) = run[t] /\ LockOf(t)' = Nil
          /\ run[t] \in Pids
      BY <2>1, <2>2, Zenon DEF LockOf, SendPlaces
    <2>13. LockInv'
      BY <2>1, <2>12, <1>LockDropped, Zenon DEF RecieveMsg
    <2>14. IntLockInv'
      BY <2>1, <2>2, <1>IntLockKept, Zenon DEF RecieveMsg, IntLockOf
    <2>15. MapLockInv'
      BY <2>1, <2>2, <1>MapReadDone, Zenon
         DEF RecieveMsg, Reads, Writes, SendPlaces, RespPlaces
    <2>16. AnsweredIsMapped'
      BY <2>1, Zenon DEF RecieveMsg, AnsweredIsMapped
    <2>17. NoStrandedMsg'
      BY <2>1, <2>2, Zenon DEF RecieveMsg, NoStrandedMsg, MsgTypes
    <2>18. PutInv'
      BY <2>1, Zenon DEF RecieveMsg, PutInv, Others
    <2>19. InboxInv'
      BY <2>1, <2>2, <1>InboxKept, Zenon DEF RecieveMsg
    <2> QED
      BY <2>2, <2>3, <2>4, <2>5, <2>6, <2>7, <2>8, <2>9, <2>10, <2>11, <2>12, <2>13,
        <2>14, <2>15, <2>16, <2>17, <2>18, <2>19, Zenon
  (* A receive that has to wait keeps IInv.                                  *)
  <1>RecieveWaitKeeps.
        ASSUME NEW t \in Processors, IInv, RecieveWait(t)
        PROVE  IInv'
    <2> USE <1>RecieveWaitKeeps
    <2> USE ProcessAssumption DEF IInv, TypeOK
    <2>1. /\ t \in Threads /\ Work(t) /\ pc[t] \in {"recv", "recvTimeout"}
          /\ pc'[t] = "yielded" /\ run'[t] = run[t]
          /\ tgt'[t] = tgt[t] /\ victim'[t] = victim[t]
          /\ Others(t)
      BY Zenon DEF RecieveWait, At, Goto, Others, WorkInv, ThreadTypes, Threads
    <2>2. /\ run[t] \in Pids /\ run[t] \in Senders
          /\ intLock[run[t]] = t /\ status[run[t]] # "RECV_RETURN"
      BY <2>1, SliceOwns, Zenon DEF SlicePlaces
    <2>3. tick[run[t]] \in Nat
      BY <2>2, Zenon DEF NodeTypes
    <2>4. \A u \in Threads : pc[u] = "put" => tgt[u] \in Pids /\ tgt[u] # run[t]
      BY <2>1, <2>2 DEF LockInv, LockOf, WorkInv, Work, ThreadTypes, SendPlaces
    <2>5. ThreadTypes'
      BY <2>1, <2>2, Zenon DEF RecieveWait, Goto, ThreadTypes, SlicePlaces, Places
    <2>6. NodeTypes'
      BY <2>1, <2>2, Zenon DEF RecieveWait, NodeTypes, States, Waits
    <2>7. MsgTypes'
      BY <2>1, <2>2, Zenon DEF RecieveWait, MsgTypes
    <2>8. LockTypes'
      BY <2>1, <2>2, Zenon DEF RecieveWait, LockTypes
    <2>9. BusTypes'
      BY <2>1, <2>2, <2>3, <2>4 DEF RecieveWait, BusTypes
    <2>10. Work(t)'
      BY <2>1, <2>2, Zenon
         DEF Work, SlicePlaces, DestroyPlaces, SendPlaces, RespPlaces
    <2>11. WorkInv'
      BY <2>1, <2>10, <1>WorkStep, Zenon
    <2>12. /\ LockOf(t) = run[t] /\ LockOf(t)' = Nil
          /\ run[t] \in Pids
      BY <2>1, <2>2, Zenon DEF LockOf, SendPlaces
    <2>13. LockInv'
      BY <2>1, <2>12, <1>LockDropped, Zenon DEF RecieveWait
    <2>14. IntLockInv'
      BY <2>1, <2>2, <1>IntLockKept, Zenon DEF RecieveWait, IntLockOf
    <2>15. MapLockInv'
      BY <2>1, <2>2, <1>MapReadDone, Zenon
         DEF RecieveWait, Reads, Writes, SendPlaces, RespPlaces
    <2>16. AnsweredIsMapped'
      BY <2>1, Zenon DEF RecieveWait, AnsweredIsMapped
    <2>17. NoStrandedMsg'
      BY <2>1, <2>2, Zenon DEF RecieveWait, NoStrandedMsg, NodeTypes
    <2>18. PutInv'
      BY <2>1, <2>2, <2>4 DEF RecieveWait, PutInv, Others
    <2>19. InboxInv'
      BY <2>1, <2>2, <1>InboxKept, Zenon DEF RecieveWait, NodeTypes
    <2> QED
      BY <2>2, <2>3, <2>4, <2>5, <2>6, <2>7, <2>8, <2>9, <2>10, <2>11, <2>12, <2>13,
        <2>14, <2>15, <2>16, <2>17, <2>18, <2>19, Zenon
  (* The creation of a process keeps IInv.                                   *)
  <1>SpawnKeeps.
        ASSUME NEW t \in Processors, IInv, Spawn(t)
        PROVE  IInv'
    <2> USE <1>SpawnKeeps
    <2> USE ProcessAssumption DEF IInv, TypeOK
    <2>1. /\ t \in Threads /\ Work(t) /\ pc[t] = "slice"
          /\ pc'[t] = pc[t] /\ run'[t] = run[t]
          /\ tgt'[t] = tgt[t] /\ victim'[t] = victim[t]
          /\ Others(t)
      BY Zenon DEF Spawn, Call, At, Others, WorkInv, Threads, threadVars
    <2>2. /\ run[t] \in Pids /\ run[t] \in Senders
          /\ intLock[run[t]] = t /\ status[run[t]] # "RECV_RETURN"
      BY <2>1, SliceOwns, Zenon DEF SlicePlaces
    <2>3. ThreadTypes'
      BY <2>1, <2>2, Zenon DEF Spawn, ThreadTypes, threadVars
    <2>4. NodeTypes'
      BY <2>1, <2>2 DEF Spawn, NodeTypes
    <2>5. MsgTypes'
      BY <2>2 DEF Spawn, Call, MsgTypes
    <2>6. LockTypes'
      BY <2>1, <2>2, Zenon DEF Spawn, LockTypes, lockVars
    <2>7. BusTypes'
      BY DEF Spawn, BusTypes
    <2>8. Work(t)'
      BY <2>1, <2>2, Zenon DEF Work
    <2>9. WorkInv'
      BY <2>1, <2>8, <1>WorkStep, Zenon
    <2>10. LockInv'
      BY <2>1, <2>2, <1>LockKept, Zenon DEF Spawn, LockOf, lockVars
    <2>11. IntLockInv'
      BY <2>1, <2>2, <1>IntLockKept, Zenon DEF Spawn, IntLockOf, lockVars
    <2>12. MapLockInv'
      BY <2>1, <2>2, <1>MapKept, Zenon DEF Spawn, Reads, Writes, lockVars
    <2>13. AnsweredIsMapped'
      BY <2>1, Zenon DEF Spawn, AnsweredIsMapped, NodeTypes, ThreadTypes, threadVars
    <2>14. NoStrandedMsg' /\ PutInv'
      BY <2>1, <2>2, <1>NothingStranded, Zenon DEF Spawn
    <2>15. InboxInv'
      BY <2>1, <2>2, <1>InboxKept, Zenon DEF Spawn, lockVars
    <2> QED
      BY <2>2, <2>3, <2>4, <2>5, <2>6, <2>7, <2>8, <2>9, <2>10, <2>11, <2>12, <2>13,
        <2>14, <2>15, Zenon
  (* The call of kill keeps IInv.                                            *)
  <1>KillKeeps.
        ASSUME NEW t \in Processors, IInv, Kill(t)
        PROVE  IInv'
    <2> USE <1>KillKeeps
    <2> USE ProcessAssumption DEF IInv, TypeOK
    <2>1. /\ t \in Threads /\ Work(t) /\ pc[t] = "slice"
          /\ pc'[t] = "destroy" /\ run'[t] = run[t]
          /\ tgt'[t] = tgt[t] /\ victim'[t] \in Pids
          /\ Others(t)
      BY Zenon DEF Kill, Call, At, Goto, Others, WorkInv, ThreadTypes, Threads
    <2>2. /\ run[t] \in Pids /\ run[t] \in Senders
          /\ intLock[run[t]] = t /\ status[run[t]] # "RECV_RETURN"
      BY <2>1, SliceOwns, Zenon DEF SlicePlaces
    <2>3. ThreadTypes'
      BY <2>1, <2>2, Zenon DEF Kill, Goto, ThreadTypes, DestroyPlaces, Places
    <2>4. NodeTypes'
      BY <2>1, <2>2, Zenon DEF Kill, NodeTypes
    <2>5. MsgTypes'
      BY <2>1, <2>2 DEF Kill, Call, MsgTypes
    <2>6. LockTypes'
      BY <2>1, <2>2, Zenon DEF Kill, LockTypes, lockVars
    <2>7. BusTypes'
      BY <2>1, <2>2, Zenon DEF Kill, BusTypes, busVars
    <2>8. Work(t)'
      BY <2>1, <2>2, Zenon DEF Work, SlicePlaces, SendPlaces, RespPlaces
    <2>9. WorkInv'
      BY <2>1, <2>8, <1>WorkStep, Zenon
    <2>10. LockInv'
      BY <2>1, <2>2, <1>LockKept, Zenon DEF Kill, LockOf, SendPlaces, lockVars
    <2>11. IntLockInv'
      BY <2>1, <2>2, <1>IntLockKept, Zenon DEF Kill, IntLockOf, lockVars
    <2>12. MapLockInv'
      BY <2>1, <2>2, <1>MapKept, Zenon
         DEF Kill, Reads, Writes, SendPlaces, RespPlaces, lockVars
    <2>13. AnsweredIsMapped'
      BY <2>1, Zenon DEF Kill, AnsweredIsMapped
    <2>14. NoStrandedMsg' /\ PutInv'
      BY <2>1, <2>2, <1>NothingStranded, Zenon DEF Kill
    <2>15. InboxInv'
      BY <2>1, <2>2, <1>InboxKept, Zenon DEF Kill, lockVars
    <2> QED
      BY <2>2, <2>3, <2>4, <2>5, <2>6, <2>7, <2>8, <2>9, <2>10, <2>11, <2>12, <2>13,
        <2>14, <2>15, Zenon
  (* The test of Destory keeps IInv.                                         *)
  <1>DestroyTestKeeps.
        ASSUME NEW t \in Processors, IInv, DestroyTest(t)
        PROVE  IInv'
    <2> USE <1>DestroyTestKeeps
    <2> USE ProcessAssumption DEF IInv, TypeOK
    <2>1. /\ t \in Threads /\ Work(t) /\ pc[t] = "destroy"
          /\ pc'[t] \in {"get", "slice", "exitMsg", "setKilled"}
          /\ pc'[t] = "get" => run[t] = Nil /\ victim'[t] = Nil
          /\ pc'[t] = "slice" => run[t] # Nil /\ victim'[t] = Nil
          /\ pc'[t] \in {"exitMsg", "setKilled"} => victim'[t] = victim[t]
          /\ run'[t] = run[t]
          /\ tgt'[t] = tgt[t] /\ victim'[t] \in Pids \cup {Nil}
          /\ Others(t)
      BY Zenon
         DEF DestroyTest, DestroyDone, At, Goto, Others, WorkInv, ThreadTypes, Threads
    <2>2. ThreadTypes'
      BY <2>1, Zenon
         DEF DestroyTest, DestroyDone, Goto, ThreadTypes, SlicePlaces, DestroyPlaces,
             Places
    <2>3. NodeTypes'
      BY <2>1, Zenon DEF DestroyTest, DestroyDone, NodeTypes, procVars
    <2>4. MsgTypes'
      BY <2>1, Zenon DEF DestroyTest, DestroyDone, MsgTypes, procVars
    <2>5. LockTypes'
      BY <2>1, Zenon DEF DestroyTest, DestroyDone, LockTypes, lockVars
    <2>6. BusTypes'
      BY <2>1, Zenon DEF DestroyTest, DestroyDone, BusTypes, busVars
    <2>7. Work(t)'
      BY <2>1, Zenon DEF Work, SlicePlaces, DestroyPlaces, SendPlaces, RespPlaces
    <2>8. WorkInv'
      BY <2>1, <2>7, <1>WorkStep, Zenon
    <2>9. LockInv'
      BY <2>1, <1>LockKept, Zenon
         DEF DestroyTest, DestroyDone, LockOf, SendPlaces, lockVars
    <2>10. IntLockInv'
      BY <2>1, <1>IntLockKept, Zenon DEF DestroyTest, DestroyDone, IntLockOf, lockVars
    <2>11. MapLockInv'
      BY <2>1, <1>MapKept, Zenon
         DEF DestroyTest, DestroyDone, Reads, Writes, SendPlaces, RespPlaces, lockVars
    <2>12. AnsweredIsMapped'
      BY <2>1, Zenon DEF DestroyTest, DestroyDone, AnsweredIsMapped, procVars
    <2>13. NoStrandedMsg' /\ PutInv'
      BY <2>1, <1>NothingStranded, Zenon DEF DestroyTest, DestroyDone, procVars
    <2>14. InboxInv'
      BY <2>1, <1>InboxKept, Zenon DEF DestroyTest, DestroyDone, procVars, lockVars
    <2> QED
      BY <2>2, <2>3, <2>4, <2>5, <2>6, <2>7, <2>8, <2>9, <2>10, <2>11, <2>12, <2>13,
        <2>14, Zenon
  (* The mark of a running victim keeps IInv.                                *)
  <1>SetKilledKeeps.
        ASSUME NEW t \in Processors, IInv, SetKilled(t)
        PROVE  IInv'
    <2> USE <1>SetKilledKeeps
    <2> USE ProcessAssumption DEF IInv, TypeOK
    <2>1. /\ t \in Threads /\ Work(t) /\ pc[t] = "setKilled"
          /\ pc'[t] = (IF run[t] = Nil THEN "get" ELSE "slice") /\ run'[t] = run[t]
          /\ tgt'[t] = tgt[t] /\ victim'[t] = Nil
          /\ Others(t)
      BY Zenon
         DEF SetKilled, DestroyDone, At, Goto, Others, WorkInv, ThreadTypes, Threads
    <2>2. killed' \in [Pids -> BOOLEAN]
      BY Zenon DEF SetKilled, NodeTypes
    <2>3. ThreadTypes'
      BY <2>1, <2>2, Zenon
         DEF SetKilled, DestroyDone, Goto, ThreadTypes, SlicePlaces, Places
    <2>4. NodeTypes'
      BY <2>1, <2>2, Zenon DEF SetKilled, DestroyDone, NodeTypes
    <2>5. MsgTypes'
      BY <2>1, <2>2, Zenon DEF SetKilled, DestroyDone, MsgTypes
    <2>6. LockTypes'
      BY <2>1, <2>2, Zenon DEF SetKilled, DestroyDone, LockTypes, lockVars
    <2>7. BusTypes'
      BY <2>1, <2>2, Zenon DEF SetKilled, DestroyDone, BusTypes, busVars
    <2>8. Work(t)'
      BY <2>1, <2>2, Zenon
         DEF Work, SlicePlaces, DestroyPlaces, SendPlaces, RespPlaces
    <2>9. WorkInv'
      BY <2>1, <2>8, <1>WorkStep, Zenon
    <2>10. LockInv'
      BY <2>1, <2>2, <1>LockKept, Zenon
         DEF SetKilled, DestroyDone, LockOf, SendPlaces, lockVars
    <2>11. IntLockInv'
      BY <2>1, <2>2, <1>IntLockKept, Zenon
         DEF SetKilled, DestroyDone, IntLockOf, lockVars
    <2>12. MapLockInv'
      BY <2>1, <2>2, <1>MapKept, Zenon
         DEF SetKilled, DestroyDone, Reads, Writes, SendPlaces, RespPlaces, lockVars
    <2>13. AnsweredIsMapped'
      BY <2>1, Zenon DEF SetKilled, DestroyDone, AnsweredIsMapped
    <2>14. NoStrandedMsg' /\ PutInv'
      BY <2>1, <2>2, <1>NothingStranded, Zenon DEF SetKilled, DestroyDone
    <2>15. InboxInv'
      BY <2>1, <2>2, <1>InboxKept, Zenon DEF SetKilled, DestroyDone, lockVars
    <2> QED
      BY <2>2, <2>3, <2>4, <2>5, <2>6, <2>7, <2>8, <2>9, <2>10, <2>11, <2>12, <2>13,
        <2>14, <2>15, Zenon
  (* Destory's wait for the map keeps IInv.                                  *)
  <1>WriteLockKeeps.
        ASSUME NEW t \in Processors, IInv, WriteLock(t)
        PROVE  IInv'
    <2> USE <1>WriteLockKeeps
    <2> USE ProcessAssumption DEF IInv, TypeOK
    <2>1. /\ t \in Threads /\ Work(t) /\ pc[t] = "unlink"
          /\ pc'[t] = "unmap" /\ run'[t] = run[t]
          /\ tgt'[t] = tgt[t] /\ victim'[t] = victim[t]
          /\ Others(t)
      BY Zenon DEF WriteLock, At, Goto, Others, WorkInv, ThreadTypes, Threads
    <2>2. ThreadTypes'
      BY <2>1, Zenon DEF WriteLock, Goto, ThreadTypes, DestroyPlaces, Places
    <2>3. NodeTypes'
      BY <2>1, Zenon DEF WriteLock, NodeTypes, procVars
    <2>4. MsgTypes'
      BY <2>1, Zenon DEF WriteLock, MsgTypes, procVars
    <2>5. LockTypes'
      BY <2>1, Zenon DEF WriteLock, LockTypes
    <2>6. BusTypes'
      BY <2>1, Zenon DEF WriteLock, BusTypes, busVars
    <2>7. Work(t)'
      BY <2>1, Zenon DEF Work, SlicePlaces, DestroyPlaces, SendPlaces, RespPlaces
    <2>8. WorkInv'
      BY <2>1, <2>7, <1>WorkStep, Zenon
    <2>9. LockInv'
      BY <2>1, <1>LockKept, Zenon DEF WriteLock, LockOf, SendPlaces
    <2>10. IntLockInv'
      BY <2>1, <1>IntLockKept, Zenon DEF WriteLock, IntLockOf
    <2>11. MapLockInv'
      BY <2>1, <1>MapWrite, Zenon DEF WriteLock, Reads, Writes, SendPlaces, RespPlaces
    <2>12. AnsweredIsMapped'
      BY <2>1, Zenon DEF WriteLock, AnsweredIsMapped, procVars
    <2>13. NoStrandedMsg' /\ PutInv'
      BY <2>1, <1>NothingStranded, Zenon DEF WriteLock, procVars
    <2>14. InboxInv'
      BY <2>1, <1>InboxKept, Zenon DEF WriteLock, procVars
    <2> QED
      BY <2>2, <2>3, <2>4, <2>5, <2>6, <2>7, <2>8, <2>9, <2>10, <2>11, <2>12, <2>13,
        <2>14, Zenon
  (* Destory's removal from the map keeps IInv.                              *)
  <1>UnmapKeeps.
        ASSUME NEW t \in Processors, IInv, Unmap(t)
        PROVE  IInv'
    <2> USE <1>UnmapKeeps
    <2> USE ProcessAssumption DEF IInv, TypeOK
    <2>1. /\ t \in Threads /\ Work(t) /\ pc[t] = "unmap"
          /\ pc'[t] = "delete" /\ run'[t] = run[t]
          /\ tgt'[t] = tgt[t] /\ victim'[t] = victim[t]
          /\ Others(t)
      BY Zenon DEF Unmap, At, Goto, Others, WorkInv, ThreadTypes, Threads
    <2>2. \A u \in Threads : tgt[u] = Nil
      BY <2>1, <1>WriterIsAlone, Zenon DEF Writes
    <2>3. ThreadTypes'
      BY <2>1, <2>2, Zenon DEF Unmap, Goto, ThreadTypes, DestroyPlaces, Places
    <2>4. NodeTypes'
      BY <2>1, <2>2, Zenon DEF Unmap, NodeTypes
    <2>5. MsgTypes'
      BY <2>1, <2>2, Zenon DEF Unmap, MsgTypes
    <2>6. LockTypes'
      BY <2>1, <2>2, Zenon DEF Unmap, LockTypes, lockVars
    <2>7. BusTypes'
      BY <2>1, <2>2, Zenon DEF Unmap, BusTypes, busVars
    <2>8. Work(t)'
      BY <2>1, <2>2, Zenon
         DEF Work, SlicePlaces, DestroyPlaces, SendPlaces, RespPlaces
    <2>9. WorkInv'
      BY <2>1, <2>8, <1>WorkStep, Zenon
    <2>10. LockInv'
      BY <2>1, <2>2, <1>LockKept, Zenon DEF Unmap, LockOf, lockVars
    <2>11. IntLockInv'
      BY <2>1, <2>2, <1>IntLockKept, Zenon DEF Unmap, IntLockOf, lockVars
    <2>12. MapLockInv'
      BY <2>1, <2>2, <1>MapKept, Zenon
         DEF Unmap, Reads, Writes, SendPlaces, RespPlaces, lockVars
    <2>13. AnsweredIsMapped'
      BY <2>1, <2>2, Zenon DEF AnsweredIsMapped, Others
    <2>14. NoStrandedMsg' /\ PutInv'
      BY <2>1, <2>2, <1>NothingStranded, Zenon DEF Unmap
    <2>15. InboxInv'
      BY <2>1, <2>2, <1>InboxKept, Zenon DEF Unmap, lockVars
    <2> QED
      BY <2>2, <2>3, <2>4, <2>5, <2>6, <2>7, <2>8, <2>9, <2>10, <2>11, <2>12, <2>13,
        <2>14, <2>15, Zenon
  (* The deletion of a process keeps IInv.                                   *)
  <1>DeleteKeeps.
        ASSUME NEW t \in Processors, IInv, Delete(t)
        PROVE  IInv'
    <2> USE <1>DeleteKeeps
    <2> USE ProcessAssumption DEF IInv, TypeOK
    <2>1. /\ t \in Threads /\ Work(t) /\ pc[t] = "delete"
          /\ pc'[t] = (IF run[t] = Nil THEN "get" ELSE "slice") /\ run'[t] = run[t]
          /\ tgt'[t] = tgt[t] /\ victim'[t] = Nil
          /\ Others(t)
      BY Zenon
         DEF Delete, DestroyDone, At, Goto, Others, WorkInv, ThreadTypes, Threads
    <2>2. \A u \in Threads : tgt[u] = Nil
      BY <2>1, <1>WriterIsAlone, Zenon DEF Writes
    <2>3. victim[t] \in Pids
      BY <2>1, Zenon DEF Work, ThreadTypes, DestroyPlaces
    <2>4. nodeCount' \in Int /\ node' = [node EXCEPT ![victim[t]] = "freed"]
      BY DEF Delete
    <2>5. ThreadTypes'
      BY <2>1, <2>2, <2>3, <2>4, Zenon
         DEF Delete, DestroyDone, Goto, ThreadTypes, SlicePlaces, Places
    <2>6. NodeTypes'
      BY <2>3, <2>4, Zenon DEF Delete, NodeTypes
    <2>7. MsgTypes'
      BY <2>3 DEF Delete, MsgTypes
    <2>8. LockTypes'
      BY <2>1, <2>2, <2>3, <2>4, Zenon DEF Delete, DestroyDone, LockTypes
    <2>9. BusTypes'
      BY <2>1, <2>2, <2>3, <2>4, Zenon DEF Delete, DestroyDone, BusTypes, busVars
    <2>10. Work(t)'
      BY <2>1, <2>2, <2>3, <2>4, Zenon
         DEF Work, SlicePlaces, DestroyPlaces, SendPlaces, RespPlaces
    <2>11. WorkInv'
      BY <2>1, <2>10, <1>WorkStep, Zenon
    <2>12. LockInv'
      BY <2>1, <2>2, <2>3, <2>4, <1>LockKept, Zenon DEF Delete, DestroyDone, LockOf
    <2>13. IntLockInv'
      BY <2>1, <2>2, <2>3, <2>4, <1>IntLockKept, Zenon DEF Delete, DestroyDone, IntLockOf
    <2>14. MapLockInv'
      BY <2>1, <1>MapWriteDone, Zenon DEF Delete, Reads, Writes, SendPlaces, RespPlaces
    <2>15. AnsweredIsMapped'
      BY <2>1, <2>2, Zenon DEF AnsweredIsMapped, Others
    <2>16. NoStrandedMsg'
      BY Zenon DEF Delete, NoStrandedMsg, MsgTypes
    <2>17. PutInv'
      BY <2>1, <2>2, Zenon DEF Delete, PutInv, Others, WorkInv
    <2>18. /\ \A p \in Pids : inbox'[p] = <<>> \/ inbox'[p] = inbox[p]
           /\ status' = status /\ intLock' = intLock
      BY Zenon DEF Delete, MsgTypes
    <2>19. InboxInv'
      BY <2>18 DEF InboxInv
    <2> QED
      BY <2>2, <2>3, <2>4, <2>5, <2>6, <2>7, <2>8, <2>9, <2>10, <2>11, <2>12, <2>13,
        <2>14, <2>15, <2>16, <2>17, <2>18, <2>19, Zenon
  (* The firing of a signal timer keeps IInv.                                *)
  <1>TimerSignalKeeps.
        ASSUME NEW ev \in timers, IInv, TimerSignal(ev)
        PROVE  IInv'
    <2> USE <1>TimerSignalKeeps
    <2> USE ProcessAssumption DEF IInv, TypeOK
    <2>1. /\ Clock \in Threads /\ Work(Clock) /\ pc[Clock] = "idle"
          /\ pc'[Clock] = pc[Clock] /\ run'[Clock] = run[Clock]
          /\ tgt'[Clock] = tgt[Clock] /\ victim'[Clock] = victim[Clock]
          /\ Others(Clock)
      BY Zenon DEF TimerSignal, Fire, At, Others, WorkInv, Threads, threadVars
    <2>2. ev[1] \in Pids
      BY Zenon DEF TimerSignal, BusTypes
    <2>3. Append(ready, ev[1]) \in Seq(Pids)
      BY <2>2 DEF BusTypes
    <2>4. ThreadTypes'
      BY <2>1, <2>2, <2>3, Zenon DEF TimerSignal, ThreadTypes, threadVars
    <2>5. NodeTypes'
      BY <2>1, <2>2, <2>3, Zenon DEF TimerSignal, Wake, NodeTypes, States
    <2>6. MsgTypes'
      BY <2>1, <2>2, <2>3, Zenon DEF TimerSignal, MsgTypes
    <2>7. LockTypes'
      BY <2>1, <2>2, <2>3, Zenon DEF TimerSignal, LockTypes, lockVars
    <2>8. BusTypes'
      BY <2>1, <2>2, <2>3, Zenon DEF TimerSignal, Fire, Wake, BusTypes
    <2>9. Work(Clock)'
      BY <2>1, <2>2, <2>3, Zenon DEF Work
    <2>10. WorkInv'
      BY <2>1, <2>9, <1>WorkStep, Zenon
    <2>11. LockInv'
      BY <2>1, <2>2, <2>3, <1>LockKept, Zenon DEF TimerSignal, LockOf, lockVars
    <2>12. IntLockInv'
      BY <2>1, <2>2, <2>3, <1>IntLockKept, Zenon DEF TimerSignal, IntLockOf, lockVars
    <2>13. MapLockInv'
      BY <2>1, <2>2, <2>3, <1>MapKept, Zenon DEF TimerSignal, Reads, Writes, lockVars
    <2>14. AnsweredIsMapped'
      BY <2>1, Zenon DEF TimerSignal, Wake, AnsweredIsMapped, Others, threadVars
    <2>15. NoStrandedMsg' /\ PutInv'
      BY <2>1, <2>2, <2>3, <1>NothingStranded, Zenon DEF TimerSignal, Wake, NodeTypes
    <2>16. InboxInv'
      BY <2>1, <2>2, <2>3, <1>InboxKept DEF TimerSignal, Wake, NodeTypes, Waits, lockVars
    <2> QED
      BY <2>2, <2>3, <2>4, <2>5, <2>6, <2>7, <2>8, <2>9, <2>10, <2>11, <2>12, <2>13,
        <2>14, <2>15, <2>16, Zenon
  (* The end of a sleep keeps IInv.                                          *)
  <1>SleepOverKeeps.
        ASSUME NEW ev \in timers, IInv, SleepOver(ev)
        PROVE  IInv'
    <2> USE <1>SleepOverKeeps
    <2> USE ProcessAssumption DEF IInv, TypeOK
    <2>1. /\ Clock \in Threads /\ Work(Clock) /\ pc[Clock] = "idle"
          /\ pc'[Clock] = pc[Clock] /\ run'[Clock] = run[Clock]
          /\ tgt'[Clock] = tgt[Clock] /\ victim'[Clock] = victim[Clock]
          /\ Others(Clock)
      BY Zenon DEF SleepOver, Fire, Response, At, Others, WorkInv, Threads, threadVars
    <2>2. ev[1] \in Pids
      BY Zenon DEF TimerSignal, BusTypes
    <2>3. Append(ready, ev[1]) \in Seq(Pids)
      BY <2>2 DEF BusTypes
    <2>4. ThreadTypes'
      BY <2>1, <2>2, <2>3, Zenon DEF SleepOver, Response, ThreadTypes, threadVars
    <2>5. NodeTypes'
      BY <2>1, <2>2, <2>3, Zenon DEF SleepOver, Response, Wake, NodeTypes, States
    <2>6. MsgTypes'
      BY <2>1, <2>2, <2>3, Zenon DEF SleepOver, Response, MsgTypes
    <2>7. LockTypes'
      BY <2>1, <2>2, <2>3, Zenon DEF SleepOver, Response, LockTypes, lockVars
    <2>8. BusTypes'
      BY <2>1, <2>2, <2>3, Zenon DEF SleepOver, Fire, Response, Wake, BusTypes
    <2>9. Work(Clock)'
      BY <2>1, <2>2, <2>3, Zenon DEF Work
    <2>10. WorkInv'
      BY <2>1, <2>9, <1>WorkStep, Zenon
    <2>11. LockInv'
      BY <2>1, <2>2, <2>3, <1>LockKept, Zenon DEF SleepOver, Response, LockOf, lockVars
    <2>12. IntLockInv'
      BY <2>1, <2>2, <2>3, <1>IntLockKept, Zenon
         DEF SleepOver, Response, IntLockOf, lockVars
    <2>13. MapLockInv'
      BY <2>1, <2>2, <2>3, <1>MapKept, Zenon
         DEF SleepOver, Response, Reads, Writes, lockVars
    <2>14. AnsweredIsMapped'
      BY <2>1, Zenon DEF SleepOver, Fire, Response, AnsweredIsMapped, Others
    <2>15. NoStrandedMsg' /\ PutInv'
      BY <2>1, <2>2, <2>3, <1>NothingStranded, Zenon
         DEF SleepOver, Response, Wake, NodeTypes
    <2>16. InboxInv'
      BY <2>1, <2>2, <2>3, <1>InboxKept
         DEF SleepOver, Response, Wake, NodeTypes, Waits, lockVars
    <2> QED
      BY <2>2, <2>3, <2>4, <2>5, <2>6, <2>7, <2>8, <2>9, <2>10, <2>11, <2>12, <2>13,
        <2>14, <2>15, <2>16, Zenon
  (* The answer to a write keeps IInv.                                       *)
  <1>WriteDoneKeeps.
        ASSUME NEW d \in Devices, NEW r \in requests, IInv, WriteDone(d, r)
        PROVE  IInv'
    <2> USE <1>WriteDoneKeeps
    <2> USE ProcessAssumption DEF IInv, TypeOK
    <2>1. /\ d \in Threads /\ Work(d) /\ pc[d] = "idle"
          /\ pc'[d] = pc[d] /\ run'[d] = run[d]
          /\ tgt'[d] = tgt[d] /\ victim'[d] = victim[d]
          /\ Others(d)
      BY Zenon DEF WriteDone, Response, At, Others, WorkInv, Threads, threadVars
    <2>2. r[1] \in Pids /\ r[2] \in Nat
      BY Zenon DEF BusTypes
    <2>3. Append(ready, r[1]) \in Seq(Pids)
      BY <2>2 DEF BusTypes
    <2>4. ThreadTypes'
      BY <2>1, <2>2, <2>3, Zenon DEF WriteDone, Response, ThreadTypes, threadVars
    <2>5. NodeTypes'
      BY <2>1, <2>2, <2>3, Zenon DEF WriteDone, Response, Wake, NodeTypes, States
    <2>6. MsgTypes'
      BY <2>1, <2>2, <2>3, Zenon DEF WriteDone, Response, MsgTypes
    <2>7. LockTypes'
      BY <2>1, <2>2, <2>3, Zenon DEF WriteDone, Response, LockTypes, lockVars
    <2>8. BusTypes'
      BY <2>1, <2>2, <2>3, Zenon DEF WriteDone, Response, Wake, BusTypes
    <2>9. Work(d)'
      BY <2>1, <2>2, <2>3, Zenon DEF Work
    <2>10. WorkInv'
      BY <2>1, <2>9, <1>WorkStep, Zenon
    <2>11. LockInv'
      BY <2>1, <2>2, <2>3, <1>LockKept, Zenon DEF WriteDone, Response, LockOf, lockVars
    <2>12. IntLockInv'
      BY <2>1, <2>2, <2>3, <1>IntLockKept, Zenon
         DEF WriteDone, Response, IntLockOf, lockVars
    <2>13. MapLockInv'
      BY <2>1, <2>2, <2>3, <1>MapKept, Zenon
         DEF WriteDone, Response, Reads, Writes, lockVars
    <2>14. AnsweredIsMapped'
      BY <2>1, Zenon DEF WriteDone, Response, AnsweredIsMapped, threadVars
    <2>15. NoStrandedMsg' /\ PutInv'
      BY <2>1, <2>2, <2>3, <1>NothingStranded, Zenon
         DEF WriteDone, Response, Wake, NodeTypes
    <2>16. InboxInv'
      BY <2>1, <2>2, <2>3, <1>InboxKept, Zenon
         DEF WriteDone, Response, Wake, NodeTypes, Waits, lockVars
    <2> QED
      BY <2>2, <2>3, <2>4, <2>5, <2>6, <2>7, <2>8, <2>9, <2>10, <2>11, <2>12, <2>13,
        <2>14, <2>15, <2>16, Zenon
  (* The lock of an answered process keeps IInv.                             *)
  <1>ResponseExIntKeeps.
        ASSUME NEW d \in Devices, IInv, ResponseExInt(d)
        PROVE  IInv'
    <2> USE <1>ResponseExIntKeeps
    <2> USE ProcessAssumption DEF IInv, TypeOK
    <2>1. /\ d \in Threads /\ Work(d) /\ pc[d] = "respInt"
          /\ pc'[d] = "respLock" /\ run'[d] = run[d]
          /\ tgt'[d] = tgt[d] /\ victim'[d] = victim[d]
          /\ Others(d)
      BY Zenon DEF ResponseExInt, At, Goto, Others, WorkInv, ThreadTypes, Threads
    <2>2. ThreadTypes'
      BY <2>1, Zenon DEF ResponseExInt, Goto, ThreadTypes, RespPlaces, Places
    <2>3. NodeTypes'
      BY <2>1, Zenon DEF ResponseExInt, NodeTypes, procVars
    <2>4. MsgTypes'
      BY <2>1, Zenon DEF ResponseExInt, MsgTypes, procVars
    <2>5. LockTypes'
      BY <2>1, Zenon DEF ResponseExInt, LockTypes
    <2>6. BusTypes'
      BY <2>1, Zenon DEF ResponseExInt, BusTypes, busVars
    <2>7. Work(d)'
      BY <2>1, Zenon DEF Work, RespPlaces
    <2>8. WorkInv'
      BY <2>1, <2>7, <1>WorkStep, Zenon
    <2>9. LockInv'
      BY <2>1, <1>LockKept, Zenon DEF ResponseExInt, LockOf, SendPlaces
    <2>10. /\ IntLockOf(d) = Nil /\ IntLockOf(d)' = tgt[d]
          /\ tgt[d] \in Pids
      BY <2>1, Zenon DEF IntLockOf, Work, ThreadTypes
    <2>11. IntLockInv'
      BY <2>1, <2>10, <1>IntLockTaken, Zenon DEF ResponseExInt
    <2>12. MapLockInv'
      BY <2>1, <1>MapKept, Zenon DEF ResponseExInt, Reads, Writes, RespPlaces
    <2>13. AnsweredIsMapped'
      BY <2>1, Zenon DEF ResponseExInt, AnsweredIsMapped, procVars
    <2>14. NoStrandedMsg' /\ PutInv'
      BY <2>1, <1>NothingStranded, Zenon DEF ResponseExInt, procVars
    <2>15. InboxInv'
      BY <2>1, <1>InboxKept, Zenon DEF ResponseExInt, LockTypes, procVars
    <2> QED
      BY <2>2, <2>3, <2>4, <2>5, <2>6, <2>7, <2>8, <2>9, <2>10, <2>11, <2>12, <2>13,
        <2>14, <2>15, Zenon
  (* The wake-up of an answered process keeps IInv.                          *)
  <1>ResponseExWakeKeeps.
        ASSUME NEW d \in Devices, IInv, ResponseExWake(d)
        PROVE  IInv'
    <2> USE <1>ResponseExWakeKeeps
    <2> USE ProcessAssumption DEF IInv, TypeOK
    <2>1. /\ d \in Threads /\ Work(d) /\ pc[d] = "respLock"
          /\ pc'[d] = "idle" /\ run'[d] = run[d]
          /\ tgt'[d] = Nil /\ victim'[d] = victim[d]
          /\ Others(d)
      BY Zenon DEF ResponseExWake, At, Goto, Others, WorkInv, ThreadTypes, Threads
    <2>2. tgt[d] \in Pids
      BY <2>1, Zenon DEF Work, ThreadTypes
    <2>3. Append(ready, tgt[d]) \in Seq(Pids)
      BY <2>2 DEF BusTypes
    <2>4. ThreadTypes'
      BY <2>1, <2>2, <2>3, Zenon DEF ResponseExWake, Goto, ThreadTypes, Places
    <2>5. NodeTypes'
      BY <2>1, <2>2, <2>3, Zenon DEF ResponseExWake, Wake, NodeTypes, States
    <2>6. MsgTypes'
      BY <2>1, <2>2, <2>3, Zenon DEF ResponseExWake, MsgTypes
    <2>7. LockTypes'
      BY <2>1, <2>2, <2>3, Zenon DEF ResponseExWake, LockTypes
    <2>8. BusTypes'
      BY <2>1, <2>2, <2>3, Zenon DEF ResponseExWake, Wake, BusTypes
    <2>9. Work(d)'
      BY <2>1, <2>2, <2>3, Zenon DEF Work, SendPlaces, RespPlaces
    <2>10. WorkInv'
      BY <2>1, <2>9, <1>WorkStep, Zenon
    <2>11. LockInv'
      BY <2>1, <2>2, <2>3, <1>LockKept, Zenon DEF ResponseExWake, LockOf, SendPlaces
    <2>12. /\ IntLockOf(d) = tgt[d] /\ IntLockOf(d)' = Nil
          /\ tgt[d] \in Pids
      BY <2>1, <2>2, <2>3, Zenon DEF IntLockOf, Work
    <2>13. IntLockInv'
      BY <2>1, <2>12, <1>IntLockDropped, Zenon DEF ResponseExWake
    <2>14. MapLockInv'
      BY <2>1, <2>2, <2>3, <1>MapReadDone, Zenon
         DEF ResponseExWake, Reads, Writes, SendPlaces, RespPlaces
    <2>15. AnsweredIsMapped'
      BY <2>1, Zenon DEF ResponseExWake, AnsweredIsMapped, Others
    <2>16. NoStrandedMsg' /\ PutInv'
      BY <2>1, <2>2, <2>3, <1>NothingStranded, Zenon DEF ResponseExWake, Wake, NodeTypes
    <2>17. /\ inbox' = inbox /\ intLock' = [intLock EXCEPT ![tgt[d]] = Nil]
           /\ \/ status' = status
              \/ /\ status[tgt[d]] \in Waits
                 /\ status' = [status EXCEPT ![tgt[d]] = "INT_RESP"]
      BY Zenon DEF ResponseExWake, Wake
    <2>18. /\ inbox' = inbox
           /\ \A p \in Pids :
                 /\ \/ status'[p] = status[p]
                    \/ status[p] # "RECV_RETURN" /\ status'[p] # "RECV_RETURN"
                 /\ intLock'[p] \in Processors => intLock[p] \in Processors
      BY <2>2, <2>17, Zenon DEF NodeTypes, LockTypes, Waits, Threads
    <2>19. InboxInv'
      BY <2>18, <1>InboxKept, Zenon
    <2> QED
      BY <2>2, <2>3, <2>4, <2>5, <2>6, <2>7, <2>8, <2>9, <2>10, <2>11, <2>12, <2>13,
        <2>14, <2>15, <2>16, <2>17, <2>18, <2>19, Zenon
  (* glr.send takes the locks of its receiver, or finds no process.          *)
  <1>SendKeeps.
        ASSUME NEW t \in Processors, IInv, Send(t)
        PROVE  IInv'
    <2> USE <1>SendKeeps
    <2>1. /\ t \in Threads /\ pc[t] = "slice"
          /\ calls' = [calls EXCEPT ![run[t]] = @ + 1] /\ busVars' = busVars
          /\ UNCHANGED <<node, nodeCount, status, tick, killed, parent, chan, inbox,
                         run, victim, arg>>
      BY Zenon DEF Send, Call, At, Threads
    <2>2. PICK q \in Pids : SendLock(t, q)
      BY Zenon DEF Send
    <2>3. run[t] \in Senders
      BY <2>1, SliceOwns, Zenon DEF SlicePlaces
    <2>4. MsgTypes' /\ BusTypes'
      BY <2>1, <2>3 DEF IInv, TypeOK, MsgTypes, BusTypes, busVars
    <2> QED
      BY <2>1, <2>2, <2>4, <1>SendLockStep, Zenon DEF IInv, TypeOK
  (* So does the exit message of Destory, ...                                *)
  <1>SendExitMsgKeeps.
        ASSUME NEW t \in Processors, IInv, SendExitMsg(t)
        PROVE  IInv'
    <2> USE <1>SendExitMsgKeeps
    <2>1. /\ t \in Threads /\ pc[t] = "exitMsg" /\ victim[t] \in Pids
          /\ procVars' = procVars /\ busVars' = busVars
          /\ UNCHANGED <<run, victim, arg>>
      BY Zenon
         DEF SendExitMsg, At, Threads, IInv, TypeOK, WorkInv, Work, ThreadTypes,
             DestroyPlaces
    <2>2. PICK q \in Pids \cup {Nil} : SendLock(t, q)
      BY <2>1, Zenon DEF SendExitMsg, IInv, TypeOK, NodeTypes
    <2>3. MsgTypes' /\ BusTypes'
      BY <2>1, Zenon DEF IInv, TypeOK, MsgTypes, BusTypes, busVars, procVars
    <2> QED
      BY <2>1, <2>2, <2>3, <1>SendLockStep, Zenon DEF IInv, TypeOK, procVars
  (* ... the timeout message of a signal ...                                 *)
  <1>SendTimeoutMsgKeeps.
        ASSUME NEW ev \in timers, IInv, SendTimeoutMsg(ev)
        PROVE  IInv'
    <2> USE <1>SendTimeoutMsgKeeps
    <2>1. /\ Clock \in Threads /\ pc[Clock] = "idle" /\ ev[1] \in Pids
          /\ procVars' = procVars
          /\ timers' = timers \ {ev} /\ UNCHANGED <<ready, requests, run, victim, arg>>
      BY Zenon DEF SendTimeoutMsg, Fire, At, Threads, IInv, TypeOK, BusTypes
    <2>2. SendLock(Clock, ev[1])
      BY Zenon DEF SendTimeoutMsg
    <2>3. MsgTypes' /\ BusTypes'
      BY <2>1, Zenon DEF IInv, TypeOK, MsgTypes, BusTypes, procVars
    <2> QED
      BY <2>1, <2>2, <2>3, <1>SendLockStep, Zenon DEF IInv, TypeOK, procVars
  (* ... and the message a device brings from elsewhere.                     *)
  <1>DeviceSendKeeps.
        ASSUME NEW d \in Devices, IInv, DeviceSend(d)
        PROVE  IInv'
    <2> USE <1>DeviceSendKeeps
    <2>1. /\ d \in Threads /\ d \in Senders /\ pc[d] = "idle"
          /\ calls' = [calls EXCEPT ![d] = @ + 1] /\ busVars' = busVars
          /\ UNCHANGED <<node, nodeCount, status, tick, killed, parent, chan, inbox,
                         run, victim, arg>>
      BY Zenon DEF DeviceSend, At, Threads, Senders
    <2>2. PICK q \in Pids : SendLock(d, q)
      BY Zenon DEF DeviceSend
    <2>3. MsgTypes' /\ BusTypes'
      BY <2>1 DEF IInv, TypeOK, MsgTypes, BusTypes, busVars
    <2> QED
      BY <2>1, <2>2, <2>3, <1>SendLockStep, Zenon DEF IInv, TypeOK
  (* Bus::ResponseEx begins: it holds the map while it answers, or drops the *)
  (* answer.                                                                 *)
  <1>ResponseExTickKeeps.
        ASSUME NEW d \in Devices, NEW r \in requests, IInv, ResponseExTick(d, r)
        PROVE  IInv'
    <2> USE <1>ResponseExTickKeeps
    <2> USE ProcessAssumption DEF IInv, TypeOK
    <2>1. /\ d \in Threads /\ Work(d) /\ pc[d] = "idle"
          /\ run' = run /\ victim' = victim /\ procVars' = procVars
          /\ lock' = lock /\ intLock' = intLock /\ writer' = writer /\ Others(d)
      BY Zenon DEF ResponseExTick, At, Goto, Threads, Others, WorkInv, ThreadTypes
    <2>2. r[1] \in Pids /\ r[2] \in Nat
      BY Zenon DEF BusTypes
    <2>3. NodeTypes' /\ MsgTypes'
      BY <2>1, Zenon DEF NodeTypes, MsgTypes, procVars
    <2>4. BusTypes'
      BY Zenon DEF ResponseExTick, BusTypes
    <2>5. LockTypes'
      BY <2>1, Zenon DEF ResponseExTick, LockTypes
    <2>6. InboxInv'
      BY <2>1, Zenon DEF InboxInv, procVars
    <2>7. CASE Mapped(r[1]) /\ tick[r[1]] = r[2]
      <3>1. /\ pc'[d] = "respInt" /\ tgt'[d] = r[1] /\ readers' = readers \cup {d}
            /\ writer = Nil
        BY <2>1, <2>7, Zenon DEF ResponseExTick, Goto, ThreadTypes
      <3>2. ThreadTypes'
        BY <2>1, <2>2, <2>7 DEF ResponseExTick, Goto, ThreadTypes, Places, RespPlaces
      <3>3. WorkInv'
        BY <2>1, <2>2, <3>1, <1>WorkStep, Zenon DEF Work, RespPlaces
      <3>4. LockInv'
        BY <2>1, <3>1, <1>LockKept, Zenon DEF LockOf, SendPlaces
      <3>5. IntLockInv'
        BY <2>1, <3>1, <1>IntLockKept, Zenon DEF IntLockOf
      <3>6. MapLockInv'
        BY <2>1, <3>1, <1>MapRead, Zenon DEF Reads, Writes, RespPlaces
      <3>7. AnsweredIsMapped'
        BY <2>1, <2>7, <3>1, Zenon DEF AnsweredIsMapped, Mapped, Others, procVars
      <3>8. NoStrandedMsg' /\ PutInv'
        BY <2>1, <3>1, <1>NothingStranded, Zenon DEF procVars
      <3> QED
        BY <2>3, <2>4, <2>5, <2>6, <3>2, <3>3, <3>4, <3>5, <3>6, <3>7, <3>8, Zenon
    <2>8. CASE ~(Mapped(r[1]) /\ tick[r[1]] = r[2])
      <3>1. UNCHANGED threadVars /\ UNCHANGED lockVars
        BY <2>1, <2>8, Zenon DEF ResponseExTick, threadVars, lockVars
      <3>2. ThreadTypes' /\ WorkInv' /\ LockInv' /\ IntLockInv' /\ MapLockInv'
        BY <3>1
           DEF threadVars, lockVars, ThreadTypes, WorkInv, Work, LockInv, LockOf,
               IntLockInv, IntLockOf, MapLockInv, Reads, Writes
      <3>3. AnsweredIsMapped' /\ NoStrandedMsg' /\ PutInv'
        BY <2>1, <3>1, Zenon
           DEF threadVars, procVars, AnsweredIsMapped, NoStrandedMsg, PutInv
      <3> QED
        BY <2>3, <2>4, <2>5, <2>6, <3>2, <3>3, Zenon
    <2> QED
      BY <2>7, <2>8, Zenon
  <1> SUFFICES ASSUME IInv, [Next]_vars PROVE IInv'
    OBVIOUS
  <1>1. CASE UNCHANGED vars
    <2>1. TypeOK' = TypeOK /\ WorkInv' = WorkInv /\ LockInv' = LockInv
      BY <1>1
         DEF vars, procVars, lockVars, busVars, threadVars, TypeOK, NodeTypes,
             MsgTypes, LockTypes, BusTypes, ThreadTypes, WorkInv, Work, LockInv,
             LockOf
    <2>2. IntLockInv'
      BY <1>1, Zenon DEF vars, lockVars, threadVars, IInv, IntLockInv, IntLockOf
    <2>3. MapLockInv' /\ AnsweredIsMapped'
      BY <1>1, Zenon
         DEF vars, procVars, lockVars, threadVars, IInv, MapLockInv, Reads, Writes,
             AnsweredIsMapped
    <2>4. NoStrandedMsg' = NoStrandedMsg /\ PutInv' = PutInv /\ InboxInv' = InboxInv
      BY <1>1, Zenon
         DEF vars, procVars, lockVars, threadVars, NoStrandedMsg, PutInv, InboxInv
    <2> QED
      BY <2>1, <2>2, <2>3, <2>4, Zenon DEF IInv
  <1>2. ASSUME NEW t \in Threads, Sending(t) PROVE IInv'
    BY <1>2, <1>SendHandOverKeeps, <1>SendTestKeeps, <1>SendPutKeeps, Zenon DEF Sending
  <1>3. ASSUME NEW t \in Processors, Slice(t) PROVE IInv'
    BY <1>3, <1>SendKeeps, <1>SpawnKeeps, <1>KillKeeps, <1>RecieveKeeps, <1>RecieveMsgKeeps,
      <1>RecieveWaitKeeps, <1>InterruptKeeps, <1>IntReturnKeeps, <1>IntRequestKeeps,
      <1>IntTimerKeeps, Zenon
       DEF Slice
  <1>4. ASSUME NEW t \in Processors, Destroy(t) PROVE IInv'
    BY <1>4, <1>DestroyTestKeeps, <1>SetKilledKeeps, <1>SendExitMsgKeeps, <1>WriteLockKeeps,
      <1>UnmapKeeps, <1>DeleteKeeps, Zenon
       DEF Destroy
  <1>5. ASSUME NEW t \in Processors, Processor(t) PROVE IInv'
    BY <1>2, <1>3, <1>4, <1>5, <1>GetTaskKeeps, <1>ResumeKeeps, <1>ResumeYieldedKeeps,
      <1>ResumeReturnedKeeps, <1>AfterResumeKeeps, Zenon
       DEF Processor, Threads
  <1>6. ASSUME ClockStep PROVE IInv'
    BY <1>2, <1>6, <1>TimerSignalKeeps, <1>SleepOverKeeps, <1>SendTimeoutMsgKeeps, Zenon
       DEF ClockStep, Threads
  <1>7. ASSUME NEW d \in Devices, DeviceStep(d) PROVE IInv'
    BY <1>2, <1>7, <1>ResponseExTickKeeps, <1>WriteDoneKeeps, <1>ResponseExIntKeeps,
      <1>ResponseExWakeKeeps, <1>DeviceSendKeeps, Zenon
       DEF DeviceStep, Threads
  <1> QED
    BY <1>1, <1>5, <1>6, <1>7, Zenon DEF Next

(* IInv holds initially and every step keeps it.                           *)
LEMMA Invariance == Spec => []IInv
  BY InitHolds, StepKeeps, PTL DEF Spec

-----------------------------------------------------------------------------
(* In every node the queue, the channels, the timers, the locks and the    *)
(* threads' places hold values of their types.                             *)
THEOREM TypeCorrect == Spec => []TypeOK
  <1>1. IInv => TypeOK
    BY Zenon DEF IInv
  <1> QED
    BY <1>1, Invariance, PTL

(* No send, receive, timeout or answer, in any order, leaves a message     *)
(* behind a receiver in RECV_WAIT.                                         *)
THEOREM NeverStranded == Spec => []NoStrandedMsg
  <1>1. IInv => NoStrandedMsg
    BY Zenon DEF IInv
  <1> QED
    BY <1>1, Invariance, PTL

(* Destory never takes a process out of the map while a thread sends to it *)
(* or answers it.                                                          *)
THEOREM AnsweredStaysMapped == Spec => []AnsweredIsMapped
  <1>1. IInv => AnsweredIsMapped
    BY Zenon DEF IInv
  <1> QED
    BY <1>1, Invariance, PTL

-----------------------------------------------------------------------------
(* An empty first part does not change a concatenation.                    *)
LEMMA EmptyPrefix ==
    ASSUME NEW S, NEW c \in Seq(S)
    PROVE  <<>> \o c = c
  OBVIOUS

(* What a process has to receive: a message handed over, then its channel; *)
(* and the processes that are deleted.                                     *)
Boxes == [p \in Pids |-> inbox[p] \o chan[p]]
Ended == {p \in Pids : node[p] = "freed"}

BoxKept == Boxes' = Boxes /\ Ended' = Ended

(* Every step of a node is a step of its mailboxes, or none.               *)
LEMMA BoxStep == IInv /\ [Next]_vars => Box!Next \/ BoxKept
  (* Identities of sequences behind the refinement.                          *)
  <1>AppendInside.
        ASSUME NEW S, NEW s \in Seq(S), NEW c \in Seq(S), NEW m \in S
        PROVE  s \o Append(c, m) = Append(s \o c, m)
    BY <1>AppendInside
  (* One message in front of a sequence: the tail is the sequence.           *)
  <1>TakeInside.
        ASSUME NEW S, NEW s \in Seq(S), NEW c \in Seq(S), s # <<>>, Len(s) <= 1
        PROVE  s \o c # <<>> /\ Tail(s \o c) = c
    <2> USE <1>TakeInside
    <2>1. Len(s) \in Nat /\ Len(s) > 0
      OBVIOUS
    <2>2. Len(s) = 1
      <3>1. \A n \in Nat : n > 0 /\ n <= 1 => n = 1
        OBVIOUS
      <3> QED
        BY <2>1, <3>1, Zenon
    <2>3. s = <<s[1]>> /\ s[1] \in S
      BY <2>2
    <2>4. \A m \in S : <<m>> \o c # <<>> /\ Tail(<<m>> \o c) = c
      OBVIOUS
    <2> QED
      BY <2>3, <2>4, Zenon
  (* Messages move only in Resume, Recieve, SendMsg and Destory.             *)
  <1>NoneMoves.
        ASSUME inbox' = inbox, chan' = chan, node' = node
        PROVE  BoxKept
    BY <1>NoneMoves DEF BoxKept, Boxes, Ended
  (* Spawn and the first half of Destory change the map's entry of a process *)
  (* that is not deleted, and move no message.                               *)
  <1>NoneEnds.
        ASSUME IInv, NEW q \in Pids, node[q] # "freed",
               NEW v, v # "freed", node' = [node EXCEPT ![q] = v],
               inbox' = inbox, chan' = chan
        PROVE  BoxKept
    BY <1>NoneEnds DEF BoxKept, Boxes, Ended, IInv, TypeOK
  (* What a thread that goes on works on is not deleted.                     *)
  <1>UsedIsLive.
        ASSUME NEW t \in Threads, NEW p \in Pids, ~Dangling,
               \/ p = run[t] \/ p = tgt[t]
               \/ p = victim[t] /\ pc[t] # "destroy"
        PROVE  p \notin Ended /\ node[p] # "freed"
    BY <1>UsedIsLive DEF Dangling, Uses, Ended
  (* A slice begins by taking the message that was handed over, if any.      *)
  <1>ResumeTakes.
        ASSUME NEW t \in Processors, IInv, Resume(t)
        PROVE  Box!Next \/ BoxKept
    <2> USE <1>ResumeTakes
    <2>1. /\ run[t] \in Pids
          /\ inbox' = [inbox EXCEPT ![run[t]] = <<>>] /\ chan' = chan
      BY Zenon DEF Resume, At, IInv, TypeOK, ThreadTypes, WorkInv, Work, Threads
    <2>2. /\ inbox \in [Pids -> Seq(Senders)] /\ chan \in [Pids -> Seq(Senders)]
          /\ Len(inbox[run[t]]) <= 1
      BY <2>1, Zenon DEF IInv, TypeOK, MsgTypes, InboxInv
    <2>3. <<>> \o chan[run[t]] = chan[run[t]]
      BY <2>1, <2>2, EmptyPrefix, Zenon
    <2> run[t] \notin Ended /\ Ended' = Ended /\ node' = node
      BY <2>1, <1>UsedIsLive DEF Resume, At, Threads, Ended
    <2>4. CASE inbox[run[t]] = <<>>
      BY <2>1, <2>2, <2>4, <1>NoneMoves
    <2>5. CASE inbox[run[t]] # <<>>
      <3> inbox[run[t]] \in Seq(Senders) /\ chan[run[t]] \in Seq(Senders)
        BY <2>1, <2>2, Zenon
      <3>1. /\ inbox[run[t]] \o chan[run[t]] # <<>>
            /\ Tail(inbox[run[t]] \o chan[run[t]]) = chan[run[t]]
        BY <2>2, <2>5, <1>TakeInside, Zenon
      <3>2. Boxes' = [Boxes EXCEPT ![run[t]] = chan[run[t]]]
        BY <2>1, <2>2, <2>3, Zenon DEF Boxes
      <3>3. Boxes[run[t]] = inbox[run[t]] \o chan[run[t]]
        BY <2>1, Zenon DEF Boxes
      <3>4. Boxes[run[t]] # <<>> /\ Boxes' = [Boxes EXCEPT ![run[t]] = Tail(@)]
        BY <3>1, <3>2, <3>3, Zenon
      <3> QED
        BY <2>1, <3>4, Zenon DEF Box!Next, Box!Take, Boxes, Ended
    <2> QED
      BY <2>4, <2>5, Zenon
  (* A receive that finds a message takes the oldest one.                    *)
  <1>RecieveTakes.
        ASSUME NEW t \in Processors, IInv, RecieveMsg(t)
        PROVE  Box!Next
    <2> USE <1>RecieveTakes
    <2>1. run[t] \in Pids /\ status[run[t]] # "RECV_RETURN"
      BY SliceOwns, Zenon DEF RecieveMsg, At, SlicePlaces
    <2>2. /\ chan' = [chan EXCEPT ![run[t]] = Tail(@)] /\ inbox' = inbox
          /\ chan[run[t]] # <<>>
      BY Zenon DEF RecieveMsg
    <2>3. chan \in [Pids -> Seq(Senders)] /\ inbox[run[t]] = <<>>
      BY <2>1, Zenon DEF IInv, TypeOK, MsgTypes, InboxInv
    <2>4. /\ <<>> \o chan[run[t]] = chan[run[t]]
          /\ <<>> \o Tail(chan[run[t]]) = Tail(chan[run[t]])
      BY <2>1, <2>2, <2>3, EmptyPrefix
    <2>5. Boxes[run[t]] = chan[run[t]]
      BY <2>1, <2>3, <2>4, Zenon DEF Boxes
    <2>6. Boxes' = [Boxes EXCEPT ![run[t]] = Tail(@)]
      BY <2>1, <2>2, <2>3, <2>4, <2>5, Zenon DEF Boxes
    <2>7. run[t] \notin Ended /\ Ended' = Ended
      BY <2>1, <1>UsedIsLive DEF RecieveMsg, At, Threads, Ended
    <2> QED
      BY <2>1, <2>2, <2>5, <2>6, <2>7, Zenon DEF Box!Next, Box!Take, Boxes, Ended
  (* A message that is handed over or put becomes the youngest one.          *)
  <1>SendAccepted.
        ASSUME NEW t \in Threads, IInv, SendHandOver(t) \/ SendPut(t)
        PROVE  Box!Next
    <2> USE <1>SendAccepted
    <2>1. tgt[t] \in Pids /\ From(t) \in Senders
      <3>1. pc[t] \in SendPlaces
        BY Zenon DEF SendHandOver, SendPut, At, SendPlaces
      <3>2. ThreadTypes /\ Work(t)
        BY Zenon DEF IInv, TypeOK, WorkInv
      <3> QED
        BY <3>1, <3>2, FromIsSender, Zenon DEF ThreadTypes, Work
    <2>2. chan \in [Pids -> Seq(Senders)] /\ inbox \in [Pids -> Seq(Senders)]
      BY Zenon DEF IInv, TypeOK, MsgTypes
    <2>3. Boxes' = [Boxes EXCEPT ![tgt[t]] = Append(@, From(t))]
      <3>1. CASE SendHandOver(t)
        <4>1. /\ inbox' = [inbox EXCEPT ![tgt[t]] = <<From(t)>>] /\ chan' = chan
              /\ chan[tgt[t]] = <<>> /\ status[tgt[t]] = "RECV_WAIT"
          BY <3>1, Zenon DEF SendHandOver
        <4>2. inbox[tgt[t]] = <<>>
          BY <2>1, <4>1, Zenon DEF IInv, InboxInv
        <4>3. <<From(t)>> \o <<>> = Append(<<>> \o <<>>, From(t))
          BY <2>1
        <4> QED
          BY <2>1, <2>2, <4>1, <4>2, <4>3, Zenon DEF Boxes
      <3>2. CASE SendPut(t)
        <4>1. chan' = [chan EXCEPT ![tgt[t]] = Append(@, From(t))] /\ inbox' = inbox
          BY <3>2, Zenon DEF SendPut
        <4>2. inbox[tgt[t]] \o Append(chan[tgt[t]], From(t))
                = Append(inbox[tgt[t]] \o chan[tgt[t]], From(t))
          BY <2>1, <2>2, <1>AppendInside
        <4> QED
          BY <2>1, <2>2, <4>1, <4>2, Zenon DEF Boxes
      <3> QED
        BY <3>1, <3>2, Zenon
    <2>4. tgt[t] \notin Ended /\ Ended' = Ended
      BY <2>1, <1>UsedIsLive DEF SendHandOver, SendPut, At, Ended
    <2> QED
      BY <2>1, <2>3, <2>4, Zenon DEF Box!Next, Box!Accept, Boxes, Ended
  (* The deletion of a process closes its mailbox.                           *)
  <1>DeleteEnds.
        ASSUME NEW t \in Processors, IInv, Delete(t)
        PROVE  Box!Next
    <2> USE <1>DeleteEnds
    <2>1. /\ victim[t] \in Pids
          /\ chan' = [chan EXCEPT ![victim[t]] = <<>>]
          /\ inbox' = [inbox EXCEPT ![victim[t]] = <<>>]
      BY DEF Delete, At, IInv, TypeOK, ThreadTypes, WorkInv, Work, Threads,
             DestroyPlaces
    <2>2. chan \in [Pids -> Seq(Senders)] /\ inbox \in [Pids -> Seq(Senders)]
      BY DEF IInv, TypeOK, MsgTypes
    <2>3. <<>> \o <<>> = <<>>
      OBVIOUS
    <2>4. Boxes' = [Boxes EXCEPT ![victim[t]] = <<>>]
      BY <2>1, <2>2, <2>3, Zenon DEF Boxes
    <2>5. victim[t] \notin Ended
      BY <2>1, <1>UsedIsLive DEF Delete, At, Threads
    <2>6. Ended' = Ended \cup {victim[t]}
      BY <2>1 DEF Delete, Ended, IInv, TypeOK, NodeTypes
    <2> QED
      BY <2>1, <2>4, <2>5, <2>6, Zenon DEF Box!Next, Box!End, Boxes, Ended
  <1> SUFFICES ASSUME IInv, [Next]_vars PROVE Box!Next \/ BoxKept
    OBVIOUS
  <1>1. CASE UNCHANGED vars
    BY <1>1, <1>NoneMoves DEF vars, procVars
  <1>2. ASSUME NEW t \in Threads, Sending(t) PROVE Box!Next \/ BoxKept
    BY <1>2, <1>SendAccepted, <1>NoneMoves DEF Sending, SendTest, procVars
  <1>3. ASSUME NEW t \in Processors, Spawn(t) PROVE BoxKept
    <2>1. PICK q \in Pids : node[q] = "none" /\ node' = [node EXCEPT ![q] = "mapped"]
      BY <1>3, Zenon DEF Spawn
    <2>2. inbox' = inbox /\ chan' = chan
      BY <1>3 DEF Spawn
    <2> QED
      BY <2>1, <2>2, <1>NoneEnds, Zenon
  <1>4. ASSUME NEW t \in Processors, Unmap(t) PROVE BoxKept
    <2>1. /\ node' = [node EXCEPT ![victim[t]] = "unmapped"]
          /\ inbox' = inbox /\ chan' = chan
      BY <1>4 DEF Unmap
    <2>2. victim[t] \in Pids
      BY <1>4
         DEF Unmap, At, IInv, TypeOK, ThreadTypes, WorkInv, Work, Threads,
             DestroyPlaces
    <2>3. node[victim[t]] # "freed"
      BY <1>4, <2>2, <1>UsedIsLive DEF Unmap, At, Threads
    <2> QED
      BY <2>1, <2>2, <2>3, <1>NoneEnds, Zenon
  <1>5. ASSUME NEW t \in Processors, Slice(t) PROVE Box!Next \/ BoxKept
    BY <1>3, <1>5, <1>RecieveTakes, <1>NoneMoves,
       Zenon DEF Slice, Send, Kill, Recieve, RecieveWait, Interrupt, IntReturn,
           IntRequest, IntTimer
  <1>6. ASSUME NEW t \in Processors, Destroy(t) PROVE Box!Next \/ BoxKept
    BY <1>4, <1>6, <1>DeleteEnds, <1>NoneMoves, Zenon
       DEF Destroy, DestroyTest, SetKilled, SendExitMsg, WriteLock, procVars
  <1>7. ASSUME NEW t \in Processors, Processor(t) PROVE Box!Next \/ BoxKept
    BY <1>2, <1>5, <1>6, <1>7, <1>ResumeTakes, <1>NoneMoves
       DEF Processor, Threads, GetTask, ResumeYielded, ResumeReturned, AfterResume,
           procVars
  <1>8. ASSUME ClockStep PROVE Box!Next \/ BoxKept
    BY <1>2, <1>8, <1>NoneMoves
       DEF ClockStep, Threads, TimerSignal, SleepOver, Response, SendTimeoutMsg,
           procVars
  <1>9. ASSUME NEW d \in Devices, DeviceStep(d) PROVE Box!Next \/ BoxKept
    BY <1>2, <1>9, <1>NoneMoves,
       Zenon DEF DeviceStep, Threads, ResponseExTick, WriteDone, Response, ResponseExInt,
           ResponseExWake, DeviceSend, procVars
  <1> QED
    BY <1>1, <1>7, <1>8, <1>9 DEF Next

(* Whatever the interleaving of sends, receives, wake-ups and the end of   *)
(* processes, the hand-over and the channel behave as one FIFO mailbox per *)
(* process: no message is duplicated or overtaken, none is lost before its *)
(* receiver is deleted, and none is given to a deleted process.            *)
THEOREM ImplementsMailbox == Spec => BoxSpec
  <1>1. Init => Box!Init
    BY EmptyPrefix DEF Init, Box!Init
  <1>2. IInv /\ [Next]_vars => [Box!Next]_(Box!vars)
    BY BoxStep, Zenon DEF BoxKept, Boxes, Ended, Box!vars
  <1> QED
    BY <1>1, <1>2, Invariance, PTL DEF Spec, BoxSpec, Box!Spec

-----------------------------------------------------------------------------
(* Scheduling.  Nobody but the thread that has a process, or the wake-up   *)
(* it waits for, changes its state: the steps below are sorted by what     *)
(* they do to the one process they concern.                                *)

(* A process put at the end of the ready queue.                            *)
LEMMA ReadyAppend ==
    ASSUME ready \in Seq(Pids), NEW p \in Pids, ready' = Append(ready, p)
    PROVE  /\ \A q : InReady(q)' <=> InReady(q) \/ q = p
           /\ ReadyOnce /\ ~InReady(p) => ReadyOnce'
  <1>1. /\ Len(ready') = Len(ready) + 1 /\ Len(ready) \in Nat
        /\ \A i \in 1..Len(ready) : ready'[i] = ready[i]
        /\ ready'[Len(ready) + 1] = p
    OBVIOUS
  <1>2. \A i : i \in 1..(Len(ready) + 1) <=> i \in 1..Len(ready) \/ i = Len(ready) + 1
    BY <1>1
  <1> QED
    BY <1>1, <1>2 DEF InReady, ReadyOnce

LEMMA HeadIsIn ==
    ASSUME NEW S, NEW s \in Seq(S), s # <<>>
    PROVE  Head(s) \in S
OBVIOUS

(* The first process taken from the ready queue.                           *)
LEMMA ReadyTail ==
    ASSUME ready \in Seq(Pids), ready # <<>>, ready' = Tail(ready)
    PROVE  /\ InReady(Head(ready)) /\ Head(ready) \in Pids
           /\ \A q : InReady(q)' => InReady(q)
           /\ \A q : InReady(q) /\ q # Head(ready) => InReady(q)'
           /\ ReadyOnce => ReadyOnce' /\ (\A q : InReady(q)' => q # Head(ready))
  <1>1. /\ Len(ready) \in Nat /\ Len(ready) >= 1 /\ Len(ready') = Len(ready) - 1
        /\ \A i \in 1..(Len(ready) - 1) : ready'[i] = ready[i + 1]
        /\ Head(ready) = ready[1] /\ ready[1] \in Pids
    OBVIOUS
  <1>2. \A i \in 1..(Len(ready) - 1) : i + 1 \in 1..Len(ready) /\ i + 1 # 1
    BY <1>1
  <1>3. \A i \in 1..Len(ready) : i # 1 => i - 1 \in 1..(Len(ready) - 1) /\ (i - 1) + 1 = i
    BY <1>1
  <1>4. 1 \in 1..Len(ready)
    BY <1>1
  <1>5. ReadyOnce => ReadyOnce'
    BY <1>1, <1>2 DEF ReadyOnce
  <1>6. InReady(Head(ready))
    BY <1>1, <1>4 DEF InReady
  <1>7. ASSUME NEW q, InReady(q)' PROVE InReady(q) /\ (ReadyOnce => q # ready[1])
    BY <1>1, <1>2, <1>4, <1>7 DEF InReady, ReadyOnce
  <1>8. ASSUME NEW q, InReady(q), q # Head(ready) PROVE InReady(q)'
    BY <1>1, <1>3, <1>8 DEF InReady
  <1> QED
    BY <1>1, <1>5, <1>6, <1>7, <1>8

(* The same queue has the same processes in it.                            *)
LEMMA InReadySame ==
    ASSUME ready' = ready
    PROVE  (\A q : InReady(q)' <=> InReady(q)) /\ (ReadyOnce' <=> ReadyOnce)
  BY Zenon DEF InReady, ReadyOnce

-----------------------------------------------------------------------------
(* Whatever the programs do.  A step of t loses no process if the process  *)
(* it changes, takes from the queue or stops running is then in the queue  *)
(* or run by t, or waits or has ended.                                     *)
Resting(p) == status[p] \in Waits \cup {"CREATED", "STOPED", "KILLED"}

(* No process is lost, and a slice waits last, whatever the programs do.   *)
LEMMA KeptInvariance == Spec => []KeptInv
  <1>QueuedStep.
        ASSUME NEW t \in Threads, Others(t), NEW p \in Pids, QueuedOf(p),
               \/ status'[p] # status[p] \/ (InReady(p) /\ ~InReady(p)') \/ t \in Runners(p)
               => Resting(p)' \/ InReady(p)' \/ t \in Runners(p)'
        PROVE  QueuedOf(p)'
    <2> USE <1>QueuedStep
    <2> SUFFICES ASSUME ~Resting(p)', ~InReady(p)', t \notin Runners(p)'
                 PROVE  Runners(p)' # {}
      BY Zenon DEF QueuedOf, Resting
    <2>1. status'[p] = status[p] /\ ~InReady(p) /\ t \notin Runners(p)
      BY Zenon
    <2>2. PICK u : u \in Runners(p)
      BY <2>1, Zenon DEF QueuedOf, Resting
    <2>3. u \in Threads /\ run[u] = p /\ (pc[u] = "after" => status[p] = "YIELD") /\ u # t
      BY <2>1, <2>2, Zenon DEF Runners
    <2>4. u \in Runners(p)'
      BY <2>1, <2>3, Zenon DEF Others, Runners
    <2> QED
      BY <2>4, Zenon
  (* Only the thread that owns its _IntLock makes a process wait.            *)
  <1>WaitStep.
        ASSUME IInv, NEW t \in Threads, Others(t), NEW u \in Threads, WaitOf(u), u # t,
               \A p \in Pids : status'[p] \in Waits =>
                  status[p] \in Waits \/ (run[t] = p /\ pc[t] \notin {"resume", "after"})
        PROVE  WaitOf(u)'
    <2> USE <1>WaitStep
    <2> SUFFICES ASSUME run'[u] # Nil, pc'[u] \notin {"resume", "after"},
                        status'[run'[u]] \in Waits
                 PROVE  pc'[u] = "yielded"
      BY Zenon DEF WaitOf
    <2>1. pc'[u] = pc[u] /\ run'[u] = run[u] /\ run[u] \in Pids
      BY Zenon DEF Others, IInv, TypeOK, ThreadTypes
    <2>2. PICK p \in Pids : p = run[u]
      BY <2>1, Zenon
    <2>3. CASE status[p] \in Waits
      BY <2>1, <2>2, <2>3, Zenon DEF WaitOf
    <2>4. CASE run[t] = p /\ pc[t] \notin {"resume", "after"}
      <3>1. p # Nil
        BY ProcessAssumption, Zenon
      <3>2. IntLockOf(u) = p /\ IntLockOf(t) = p
        BY <2>1, <2>2, <2>4, <3>1, Zenon DEF IntLockOf, IInv, WorkInv, Work, RespPlaces
      <3>3. intLock[p] = u /\ intLock[p] = t
        BY <3>2, Zenon DEF IInv, IntLockInv
      <3> QED
        BY <3>3, Zenon
    <2> QED
      BY <2>1, <2>2, <2>3, <2>4, Zenon
  (* A step that changes no process's state and takes none from the queue.   *)
  <1>KeptQuiet.
        ASSUME IInv, KeptInv, NEW t \in Threads, Others(t), run' = run, status' = status,
               \A p \in Pids : InReady(p) => InReady(p)',
               pc[t] \notin {"resume", "after", "yielded"}, pc'[t] # "after"
        PROVE  KeptInv'
    <2> USE <1>KeptQuiet
    <2>1. ASSUME NEW p \in Pids PROVE QueuedOf(p)'
      <3>1. t \in Runners(p) => t \in Runners(p)'
        BY Zenon DEF Runners
      <3> QED
        BY <3>1, <1>QueuedStep, Zenon DEF KeptInv
    <2>2. ASSUME NEW u \in Threads, u # t PROVE WaitOf(u)'
      BY <2>2, <1>WaitStep, Zenon DEF KeptInv
    <2>3. WaitOf(t)'
      BY Zenon DEF KeptInv, WaitOf
    <2> QED
      BY <2>1, <2>2, <2>3, Zenon DEF KeptInv
  (* A step that changes the state of the process t runs, and no other.      *)
  <1>KeptMoves.
        ASSUME IInv, KeptInv, NEW t \in Threads, Others(t), run' = run, ready' = ready,
               run[t] \in Pids, \A p \in Pids : p # run[t] => status'[p] = status[p],
               pc[t] # "after", pc'[t] \notin {"resume", "after"},
               status'[run[t]] \in Waits => pc'[t] = "yielded" /\ pc[t] # "resume"
        PROVE  KeptInv'
    <2> USE <1>KeptMoves
    <2>0. \A q : InReady(q)' <=> InReady(q)
      BY InReadySame, Zenon
    <2>1. ASSUME NEW p \in Pids PROVE QueuedOf(p)'
      <3>1. p = run[t] => t \in Runners(p)'
        BY Zenon DEF Runners
      <3>2. t \in Runners(p) => p = run[t]
        BY Zenon DEF Runners
      <3> QED
        BY <2>0, <3>1, <3>2, <1>QueuedStep, Zenon DEF KeptInv
    <2>2. \A p \in Pids : status'[p] \in Waits =>
             status[p] \in Waits \/ (run[t] = p /\ pc[t] \notin {"resume", "after"})
      BY Zenon
    <2>3. ASSUME NEW u \in Threads, u # t PROVE WaitOf(u)'
      BY <2>2, <2>3, <1>WaitStep, Zenon DEF KeptInv
    <2>4. WaitOf(t)'
      BY Zenon DEF WaitOf
    <2> QED
      BY <2>1, <2>3, <2>4, Zenon DEF KeptInv
  (* A step that wakes a process.                                            *)
  <1>KeptWakes.
        ASSUME IInv, KeptInv, NEW t \in Threads, Others(t), run' = run, NEW p \in Pids,
               ready' = Append(ready, p), status'[p] \notin Waits,
               \A q \in Pids : q # p => status'[q] = status[q],
               pc[t] \notin {"resume", "after", "yielded"}, pc'[t] # "after"
        PROVE  KeptInv'
    <2> USE <1>KeptWakes
    <2>0. \A q : InReady(q)' <=> InReady(q) \/ q = p
      BY ReadyAppend, Zenon DEF IInv, TypeOK, BusTypes
    <2>1. ASSUME NEW q \in Pids PROVE QueuedOf(q)'
      <3>1. q # p /\ t \in Runners(q) => t \in Runners(q)'
        BY Zenon DEF Runners
      <3> QED
        BY <2>0, <3>1, <1>QueuedStep, Zenon DEF KeptInv
    <2>2. \A q \in Pids : status'[q] \in Waits => status[q] \in Waits
      BY Zenon
    <2>3. ASSUME NEW u \in Threads, u # t PROVE WaitOf(u)'
      BY <2>2, <2>3, <1>WaitStep, Zenon DEF KeptInv
    <2>4. WaitOf(t)'
      <3>1. run[t] \in Pids \cup {Nil}
        BY Zenon DEF IInv, TypeOK, ThreadTypes
      <3> QED
        BY <2>2, <3>1, Zenon DEF KeptInv, WaitOf
    <2> QED
      BY <2>1, <2>3, <2>4, Zenon DEF KeptInv
  (* The processor takes a process from the queue, or lets it go.            *)
  <1>KeptPasses.
        ASSUME IInv, KeptInv, NEW t \in Processors,
               GetTask(t) \/ AfterResume(t) \/ ResumeYielded(t) \/ ResumeReturned(t)
        PROVE  KeptInv'
    <2> USE <1>KeptPasses
    <2> USE DEF IInv, TypeOK, ThreadTypes
    <2>1. t \in Threads /\ Work(t) /\ Others(t)
      BY Zenon DEF Threads, WorkInv, GetTask, AfterResume, ResumeYielded, ResumeReturned,
                   Goto, Others
    <2>2. status \in [Pids -> States] /\ ready \in Seq(Pids)
      BY Zenon DEF NodeTypes, BusTypes
    <2>3. CASE GetTask(t)
      <3>1. PICK p \in Pids : p = Head(ready)
        BY <2>2, <2>3, HeadIsIn, Zenon DEF GetTask
      <3>2. \A q : InReady(q) /\ q # p => InReady(q)'
        BY <2>2, <2>3, <3>1, ReadyTail, Zenon DEF GetTask
      <3>3. /\ pc[t] = "get" /\ pc'[t] = "resume" /\ run'[t] = p /\ run[t] = Nil
            /\ status' = status
        BY <2>1, <2>3, <3>1, Zenon DEF GetTask, At, Goto, procVars, Work
      <3>4. ASSUME NEW q \in Pids PROVE QueuedOf(q)'
        <4>1. t \notin Runners(q)
          BY <3>3, ProcessAssumption, Zenon DEF Runners
        <4>2. q = p => t \in Runners(q)'
          BY <2>1, <3>3, Zenon DEF Runners
        <4> QED
          BY <2>1, <3>2, <3>3, <4>1, <4>2, <1>QueuedStep, Zenon DEF KeptInv
      <3>5. ASSUME NEW u \in Threads, u # t PROVE WaitOf(u)'
        BY <2>1, <3>3, <3>5, <1>WaitStep, Zenon DEF KeptInv
      <3>6. WaitOf(t)'
        BY <3>3, Zenon DEF WaitOf
      <3> QED
        BY <3>4, <3>5, <3>6, Zenon DEF KeptInv
    <2>4. CASE AfterResume(t)
      <3>1. PICK p \in Pids : p = run[t]
        BY <2>1, <2>4, Zenon DEF AfterResume, At, Work
      <3>2. /\ pc[t] = "after" /\ pc'[t] = "get" /\ run'[t] = Nil /\ status' = status
            /\ ready' = IF status[p] = "YIELD" THEN Append(ready, p) ELSE ready
        BY <2>1, <2>4, <3>1, Zenon DEF AfterResume, At, Goto, procVars
      <3>3. /\ \A q : InReady(q) => InReady(q)'
            /\ status[p] = "YIELD" => InReady(p)'
        <4>1. CASE status[p] = "YIELD"
          BY <2>2, <3>2, <4>1, ReadyAppend, Zenon
        <4>2. CASE status[p] # "YIELD"
          BY <3>2, <4>2, InReadySame, Zenon
        <4> QED
          BY <4>1, <4>2, Zenon
      <3>4. ASSUME NEW q \in Pids PROVE QueuedOf(q)'
        <4>1. t \in Runners(q) => InReady(q)'
          BY <3>1, <3>2, <3>3, Zenon DEF Runners
        <4> QED
          BY <2>1, <3>2, <3>3, <4>1, <1>QueuedStep, Zenon DEF KeptInv
      <3>5. ASSUME NEW u \in Threads, u # t PROVE WaitOf(u)'
        BY <2>1, <3>2, <3>5, <1>WaitStep, Zenon DEF KeptInv
      <3>6. WaitOf(t)'
        BY <3>2, Zenon DEF WaitOf
      <3> QED
        BY <3>4, <3>5, <3>6, Zenon DEF KeptInv
    <2>5. CASE ResumeYielded(t) \/ ResumeReturned(t)
      <3>1. PICK p \in Pids : p = run[t] /\ pc[t] # "after"
        BY <2>1, <2>5, Zenon DEF ResumeYielded, ResumeReturned, At, Work, SlicePlaces
      <3>2. /\ status'[p] \in {status[p], "KILLED", "STOPED", "YIELD"}
            /\ \A q \in Pids : q # p => status'[q] = status[q]
            /\ \A q : InReady(q)' <=> InReady(q)
        BY <2>2, <2>5, <3>1, InReadySame, Zenon
           DEF ResumeYielded, ResumeReturned, busVars
      <3>3. \/ status'[p] \in Waits \cup {"KILLED", "STOPED"}
            \/ status'[p] = "YIELD" /\ pc'[t] = "after" /\ run'[t] = p
        BY <2>1, <2>2, <2>5, <3>1, Zenon DEF ResumeYielded, ResumeReturned, Goto
      <3>4. ASSUME NEW q \in Pids PROVE QueuedOf(q)'
        <4>1. t \in Runners(q) => q = p
          BY <3>1, Zenon DEF Runners
        <4>2. q = p => Resting(q)' \/ t \in Runners(q)'
          BY <2>1, <3>3, Zenon DEF Resting, Runners
        <4> QED
          BY <2>1, <3>2, <4>1, <4>2, <1>QueuedStep, Zenon DEF KeptInv
      <3>5. \A q \in Pids : status'[q] \in Waits => status[q] \in Waits
        BY <3>2, Zenon DEF Waits
      <3>6. ASSUME NEW u \in Threads, u # t PROVE WaitOf(u)'
        BY <2>1, <3>5, <3>6, <1>WaitStep, Zenon DEF KeptInv
      <3>7. WaitOf(t)'
        BY <2>1, <2>5, Zenon DEF ResumeYielded, ResumeReturned, Goto, WaitOf
      <3> QED
        BY <3>4, <3>6, <3>7, Zenon DEF KeptInv
    <2> QED
      BY <2>3, <2>4, <2>5, Zenon
  (* The steps of a send, a receive, a kill and an answer that wake nobody.  *)
  <1>QuietKept.
        ASSUME IInv, KeptInv, NEW t \in Threads,
               \/ Send(t) \/ DeviceSend(t) \/ SendExitMsg(t) \/ SendTest(t) \/ SendPut(t)
               \/ \E c \in {"recv", "recvTimeout"} : Recieve(t, c)
               \/ RecieveMsg(t) \/ Spawn(t) \/ Kill(t) \/ DestroyTest(t) \/ SetKilled(t)
               \/ WriteLock(t) \/ Unmap(t) \/ Delete(t)
               \/ ResponseExInt(t) \/ \E r \in requests : ResponseExTick(t, r)
        PROVE  KeptInv'
    <2> USE <1>QuietKept
    <2> USE DEF IInv, TypeOK, ThreadTypes
    <2>1. AfterSend(t) # "after"
      BY Zenon DEF AfterSend, Home
    <2>2. status' = status /\ run' = run
      BY Zenon
         DEF Send, DeviceSend, SendExitMsg, SendTest, SendPut, Recieve, RecieveMsg, Spawn,
             Kill, DestroyTest, SetKilled, WriteLock, Unmap, Delete, ResponseExInt,
             ResponseExTick, procVars, threadVars
    <2>3. CASE Send(t) \/ DeviceSend(t) \/ SendExitMsg(t)
      <3>1. (\E q : SendLock(t, q)) /\ run' = run /\ victim' = victim /\ ready' = ready
            /\ pc[t] \in {"slice", "idle", "exitMsg"}
        BY <2>3, Zenon DEF Send, DeviceSend, SendExitMsg, Call, At, busVars
      <3>2. Others(t) /\ pc'[t] # "after"
        BY <2>1, <3>1, Zenon DEF SendLock, Goto, Others
      <3> QED
        BY <2>2, <3>1, <3>2, InReadySame, <1>KeptQuiet, Zenon
    <2>4. CASE SendTest(t) \/ SendPut(t) \/ RecieveMsg(t) \/ WriteLock(t) \/ Unmap(t)
      <3>1. Others(t) /\ pc'[t] # "after" /\ pc[t] \notin {"resume", "after", "yielded"}
        BY <2>1, <2>4, Zenon
           DEF SendTest, SendPut, SendUnlock, RecieveMsg, WriteLock, Unmap, At, Goto, Others
      <3>2. ready' = ready
        BY <2>4, Zenon DEF SendTest, SendPut, RecieveMsg, WriteLock, Unmap, busVars
      <3> QED
        BY <2>2, <3>1, <3>2, InReadySame, <1>KeptQuiet, Zenon
    <2>5. CASE Kill(t) \/ DestroyTest(t) \/ SetKilled(t) \/ Delete(t)
      <3>1. Others(t) /\ pc'[t] # "after" /\ pc[t] \notin {"resume", "after", "yielded"}
        BY <2>5, Zenon
           DEF Kill, Call, DestroyTest, SetKilled, Delete, DestroyDone, At, Goto, Others
      <3>2. ready' = ready
        BY <2>5, Zenon DEF Kill, DestroyTest, SetKilled, Delete, busVars
      <3> QED
        BY <2>2, <3>1, <3>2, InReadySame, <1>KeptQuiet, Zenon
    <2>6. CASE \/ \E c \in {"recv", "recvTimeout"} : Recieve(t, c)
               \/ ResponseExInt(t) \/ \E r \in requests : ResponseExTick(t, r)
      <3>1. Others(t) /\ pc'[t] # "after" /\ pc[t] \notin {"resume", "after", "yielded"}
        BY <2>6, Zenon
           DEF Recieve, Call, ResponseExInt, ResponseExTick, At, Goto, Others
      <3>2. ready' = ready
        BY <2>6, Zenon DEF Recieve, ResponseExInt, ResponseExTick, busVars
      <3> QED
        BY <2>2, <3>1, <3>2, InReadySame, <1>KeptQuiet, Zenon
    <2>7. CASE Spawn(t)
      <3>1. Others(t) /\ pc'[t] = "slice" /\ pc[t] = "slice"
        BY <2>7, Zenon DEF Spawn, Call, At, threadVars, Others
      <3>2. PICK q \in Pids : ready' \in {Append(ready, q), ready}
        BY <2>7, Zenon DEF Spawn
      <3>3. \A p : InReady(p) => InReady(p)'
        BY <3>2, ReadyAppend, InReadySame, Zenon DEF BusTypes
      <3> QED
        BY <2>2, <3>1, <3>3, <1>KeptQuiet, Zenon
    <2> QED
      BY <2>3, <2>4, <2>5, <2>6, <2>7, Zenon
  (* The steps that change the state of the process in its slice.            *)
  <1>SliceKept.
        ASSUME IInv, KeptInv, NEW t \in Processors,
               \/ Resume(t) \/ RecieveWait(t) \/ IntReturn(t) \/ IntRequest(t) \/ IntTimer(t)
               \/ \E c \in {"request", "requestTimeout", "write", "return", "sleep",
                            "signal"} : Interrupt(t, c)
        PROVE  KeptInv'
    <2> USE <1>SliceKept
    <2> USE DEF IInv, TypeOK, ThreadTypes
    <2>1. t \in Threads /\ Work(t) /\ status \in [Pids -> States]
      BY Zenon DEF Threads, WorkInv, NodeTypes
    <2>2. pc[t] \in {"resume"} \cup (SlicePlaces \ {"yielded"}) /\ pc[t] # "after"
      BY Zenon DEF Resume, RecieveWait, IntReturn, IntRequest, IntTimer, Interrupt, Call,
                   At, SlicePlaces
    <2>3. PICK p \in Pids : p = run[t]
      BY <2>1, <2>2, Zenon DEF Work
    <2>4. Others(t) /\ run' = run /\ ready' = ready
      BY <2>1, Zenon
         DEF Resume, RecieveWait, IntReturn, IntRequest, IntTimer, Interrupt, Goto,
             Others, busVars
    <2>5. \A q \in Pids : q # p => status'[q] = status[q]
      BY <2>1, <2>3, Zenon
         DEF Resume, RecieveWait, IntReturn, IntRequest, IntTimer, Interrupt
    <2>6. /\ pc'[t] \notin {"resume", "after"}
          /\ status'[p] \in Waits => pc'[t] = "yielded" /\ pc[t] # "resume"
      <3>1. CASE Resume(t)
        BY <2>1, <2>3, <3>1, Zenon DEF Resume, Goto, Waits
      <3>2. CASE RecieveWait(t)
        BY <2>1, <2>3, <3>2, Zenon DEF RecieveWait, At, Goto
      <3>3. CASE IntReturn(t)
        BY <2>1, <2>3, <3>3, Zenon DEF IntReturn, Goto, Waits
      <3>4. CASE IntRequest(t) \/ IntTimer(t)
        BY <2>1, <2>3, <3>4, Zenon DEF IntRequest, IntTimer, At, Goto
      <3>5. ASSUME NEW c \in {"request", "requestTimeout", "write", "return", "sleep",
                              "signal"}, Interrupt(t, c)
            PROVE  pc'[t] \notin {"resume", "after"} /\ status'[p] \notin Waits
        BY <2>1, <2>3, <3>5, Zenon DEF Interrupt, Goto, Waits
      <3> QED
        BY <3>1, <3>2, <3>3, <3>4, <3>5, Zenon
    <2> QED
      BY <2>1, <2>2, <2>3, <2>4, <2>5, <2>6, <1>KeptMoves, Zenon
  (* The steps that wake a process, or find nobody to wake.                  *)
  <1>WakingKept.
        ASSUME IInv, KeptInv, NEW t \in Threads,
               \/ SendHandOver(t) \/ ResponseExWake(t) \/ \E r \in requests : WriteDone(t, r)
               \/ \E ev \in timers : TimerSignal(ev) \/ SleepOver(ev) \/ SendTimeoutMsg(ev)
        PROVE  KeptInv'
    <2> USE <1>WakingKept
    <2> USE DEF IInv, TypeOK, ThreadTypes
    <2>0. status \in [Pids -> States] /\ Nil \notin Processors
      BY ProcessAssumption, Zenon DEF NodeTypes, Threads
    <2>1. ASSUME NEW u \in Threads, Others(u), run' = run, NEW p \in Pids,
                 pc[u] \notin {"resume", "after", "yielded"}, pc'[u] # "after",
                 Wake(p) \/ UNCHANGED <<status, ready>>
          PROVE  KeptInv'
      <3>1. CASE UNCHANGED <<status, ready>>
        BY <2>1, <3>1, InReadySame, <1>KeptQuiet, Zenon
      <3>2. CASE Wake(p)
        <4>1. /\ ready' = Append(ready, p) /\ status'[p] \notin Waits
              /\ \A q \in Pids : q # p => status'[q] = status[q]
          BY <2>0, <3>2, Zenon DEF Wake, Waits
        <4> QED
          BY <2>1, <4>1, <1>KeptWakes, Zenon
      <3> QED
        BY <2>1, <3>1, <3>2, Zenon
    <2>2. CASE SendHandOver(t)
      <3>1. PICK p \in Pids : p = tgt[t]
        BY <2>2, Zenon DEF SendHandOver, At, WorkInv, Work, SendPlaces
      <3>2. AfterSend(t) # "after"
        BY Zenon DEF AfterSend, Home
      <3>3. Others(t) /\ run' = run /\ pc[t] = "send" /\ pc'[t] # "after"
        BY <2>2, <3>2, Zenon DEF SendHandOver, SendUnlock, At, Goto, Others
      <3>4. /\ ready' = Append(ready, p) /\ status'[p] \notin Waits
            /\ \A q \in Pids : q # p => status'[q] = status[q]
        BY <2>0, <2>2, <3>1, Zenon DEF SendHandOver, Waits
      <3> QED
        BY <3>3, <3>4, <1>KeptWakes, Zenon
    <2>3. CASE ResponseExWake(t)
      <3>1. tgt[t] \in Pids
        BY <2>3, Zenon DEF ResponseExWake, At, WorkInv, Work, RespPlaces
      <3>2. Others(t) /\ run' = run /\ pc[t] = "respLock" /\ pc'[t] = "idle"
        BY <2>3, Zenon DEF ResponseExWake, At, Goto, Others
      <3> QED
        BY <2>1, <2>3, <3>1, <3>2, Zenon DEF ResponseExWake
    <2>4. ASSUME NEW r \in requests, WriteDone(t, r) PROVE KeptInv'
      <3>1. r[1] \in Pids
        BY DEF BusTypes
      <3>2. Others(t) /\ run' = run /\ pc[t] = "idle" /\ pc'[t] = "idle"
        BY <2>4, Zenon DEF WriteDone, Response, At, threadVars, Others
      <3> QED
        BY <2>1, <2>4, <3>1, <3>2, Zenon DEF WriteDone, Response
    <2>5. ASSUME NEW ev \in timers, TimerSignal(ev) \/ SleepOver(ev) PROVE KeptInv'
      <3>1. ev[1] \in Pids /\ Clock \in Threads
        BY DEF BusTypes, Threads
      <3>2. Others(Clock) /\ run' = run /\ pc[Clock] = "idle" /\ pc'[Clock] = "idle"
        BY <2>5, Zenon DEF TimerSignal, SleepOver, Response, Fire, At, threadVars, Others
      <3> QED
        BY <2>1, <2>5, <3>1, <3>2, Zenon DEF TimerSignal, SleepOver, Response
    <2>6. ASSUME NEW ev \in timers, SendTimeoutMsg(ev) PROVE KeptInv'
      <3>1. Clock \in Threads /\ AfterSend(Clock) # "after"
        BY Zenon DEF Threads, AfterSend, Home
      <3>2. Others(Clock) /\ run' = run /\ pc[Clock] = "idle" /\ pc'[Clock] # "after"
        BY <2>6, <3>1, Zenon DEF SendTimeoutMsg, Fire, At, SendLock, Goto, Others
      <3> QED
        BY <2>6, <3>1, <3>2, InReadySame, <1>KeptQuiet, Zenon DEF SendTimeoutMsg, procVars
    <2> QED
      BY <2>2, <2>3, <2>4, <2>5, <2>6, Zenon
  <1>1. Init => KeptInv
    BY ProcessAssumption, Zenon DEF Init, KeptInv, QueuedOf, WaitOf
  <1>2. IInv /\ KeptInv /\ [Next]_vars => KeptInv'
    <2> SUFFICES ASSUME IInv, KeptInv, [Next]_vars PROVE KeptInv'
      OBVIOUS
    <2>1. CASE UNCHANGED vars
      <3>1. \A p \in Pids : (InReady(p)' <=> InReady(p)) /\ Runners(p)' = Runners(p)
        BY <2>1, Zenon DEF vars, procVars, busVars, threadVars, InReady, Runners
      <3> QED
        BY <2>1, <3>1, Zenon
           DEF vars, procVars, busVars, threadVars, KeptInv, QueuedOf, WaitOf
    <2>2. ASSUME NEW t \in Threads, Sending(t) PROVE KeptInv'
      BY <2>2, <1>QuietKept, <1>WakingKept, Zenon DEF Sending
    <2>3. ASSUME NEW t \in Processors, Processor(t) PROVE KeptInv'
      <3>1. t \in Threads
        BY Zenon DEF Threads
      <3>2. CASE GetTask(t) \/ AfterResume(t) \/ ResumeYielded(t) \/ ResumeReturned(t)
        BY <3>2, <1>KeptPasses, Zenon
      <3>3. CASE Resume(t)
        BY <3>3, <1>SliceKept, Zenon
      <3>4. CASE Slice(t)
        BY <3>1, <3>4, <1>QuietKept, <1>SliceKept, Zenon DEF Slice
      <3>5. CASE Destroy(t)
        BY <3>1, <3>5, <1>QuietKept, Zenon DEF Destroy
      <3> QED
        BY <2>2, <2>3, <3>1, <3>2, <3>3, <3>4, <3>5, Zenon DEF Processor
    <2>4. Clock \in Threads /\ Devices \subseteq Threads
      BY Zenon DEF Threads
    <2>5. CASE ClockStep
      BY <2>2, <2>4, <2>5, <1>WakingKept, Zenon DEF ClockStep
    <2>6. ASSUME NEW d \in Devices, DeviceStep(d) PROVE KeptInv'
      BY <2>2, <2>4, <2>6, <1>QuietKept, <1>WakingKept, Zenon DEF DeviceStep
    <2> QED
      BY <2>1, <2>3, <2>5, <2>6, Zenon DEF Next
  <1> QED
    BY <1>1, <1>2, Invariance, PTL DEF Spec

-----------------------------------------------------------------------------
(* Every step keeps the one place of every process.                        *)
LEMMA OnceKeeps ==
    ASSUME "signal" \notin Calls
    PROVE  IInv /\ OnceInv /\ [Next]_vars => OnceInv'
  (* Where no program calls signal.  A process that the step leaves where it *)
  (* is.                                                                     *)
  <1>OnceAside.
        ASSUME NEW t \in Threads, Others(t), NEW p \in Pids, OnceOf(p),
               status'[p] = status[p], node'[p] = "none" => node[p] = "none",
               InReady(p)' <=> InReady(p), Runs(t, p)' <=> Runs(t, p),
               Runs(t, p) => (pc'[t] = "yielded" <=> pc[t] = "yielded")
        PROVE  OnceOf(p)'
    <2> USE <1>OnceAside
    <2>1. \A u \in Threads : Runs(u, p)' <=> Runs(u, p)
      BY Zenon DEF Others, Runs
    <2>2. \A u \in Threads : Runs(u, p) => (pc'[u] = "yielded" <=> pc[u] = "yielded")
      BY Zenon DEF Others
    <2> QED
      BY <2>1, <2>2, Zenon DEF OnceOf
  (* The process that t runs, before and after the step.                     *)
  <1>OnceRun. ASSUME NEW t \in Threads, Others(t), NEW p \in Pids, OnceOf(p),
                     Runs(t, p), Runs(t, p)', InReady(p)' <=> InReady(p), node'[p] = node[p],
                     status'[p] # "KILLED", status'[p] \in Waits <=> pc'[t] = "yielded"
              PROVE  OnceOf(p)'
    <2> USE <1>OnceRun
    <2>1. ~InReady(p) /\ node[p] # "none" /\ \A u \in Threads : Runs(u, p) => u = t
      BY Zenon DEF OnceOf
    <2>2. \A u \in Threads : Runs(u, p)' => u = t
      BY <2>1, Zenon DEF Others, Runs
    <2> QED
      BY <2>1, <2>2, Zenon DEF OnceOf
  (* The process that t stops running: nobody runs it, nor is it queued.     *)
  <1>OnceLeft.
        ASSUME NEW t \in Threads, Others(t), NEW p \in Pids, OnceOf(p),
               Runs(t, p), ~Runs(t, p)', InReady(p)' <=> InReady(p), node'[p] = node[p]
        PROVE  OnceOf(p)'
    <2> USE <1>OnceLeft
    <2>1. ~InReady(p) /\ node[p] # "none" /\ \A u \in Threads : Runs(u, p) => u = t
      BY Zenon DEF OnceOf
    <2>2. \A u \in Threads : ~Runs(u, p)'
      BY <2>1, Zenon DEF Others, Runs
    <2> QED
      BY <2>1, <2>2, Zenon DEF OnceOf
  (* A process that nobody runs is put into the queue.                       *)
  <1>OncePut. ASSUME NEW t \in Threads, Others(t), NEW p \in Pids,
                     \A u \in Threads : ~Runs(u, p), ~Runs(t, p)',
                     node'[p] # "none", status'[p] \notin Waits \cup {"KILLED"}
              PROVE  OnceOf(p)'
    <2> USE <1>OncePut
    <2>1. \A u \in Threads : ~Runs(u, p)'
      BY Zenon DEF Others, Runs
    <2> QED
      BY <2>1, Zenon DEF OnceOf
  (* A step that changes no process's state, nor the queue, nor what t runs. *)
  <1>OnceQuiet.
        ASSUME OnceInv, NEW t \in Threads, Others(t), run' = run, status' = status,
               ready' = ready, \A p \in Pids : node'[p] = "none" => node[p] = "none",
               pc[t] \notin {"after", "yielded"}, pc'[t] \notin {"after", "yielded", "signal"}
        PROVE  OnceInv'
    <2> USE <1>OnceQuiet
    <2>1. (\A q : InReady(q)' <=> InReady(q)) /\ (ReadyOnce' <=> ReadyOnce)
      BY InReadySame
    <2>2. ASSUME NEW p \in Pids PROVE OnceOf(p)'
      <3>1. Runs(t, p)' <=> Runs(t, p)
        BY Zenon DEF Runs
      <3> QED
        BY <2>1, <3>1, <1>OnceAside, Zenon DEF OnceInv
    <2>3. SignalInv'
      BY Zenon DEF OnceInv, SignalInv, Others
    <2> QED
      BY <2>1, <2>2, <2>3, Zenon DEF OnceInv
  (* A step that changes the state of the process t runs.                    *)
  <1>OnceMoves.
        ASSUME OnceInv, NEW t \in Threads, Others(t), NEW p \in Pids, Runs(t, p), Runs(t, p)',
               \A q \in Pids : q # p => status'[q] = status[q], ready' = ready, node' = node,
               pc'[t] # "signal", status'[p] \notin {"KILLED", "YIELD"},
               status'[p] \in Waits <=> pc'[t] = "yielded"
        PROVE  OnceInv'
    <2> USE <1>OnceMoves
    <2>1. (\A q : InReady(q)' <=> InReady(q)) /\ (ReadyOnce' <=> ReadyOnce)
      BY InReadySame
    <2>2. ASSUME NEW q \in Pids PROVE OnceOf(q)'
      <3>1. CASE q = p
        BY <2>1, <3>1, <1>OnceRun, Zenon DEF OnceInv
      <3>2. CASE q # p
        <4>1. ~Runs(t, q) /\ ~Runs(t, q)'
          BY <3>2, Zenon DEF Runs
        <4> QED
          BY <2>1, <3>2, <4>1, <1>OnceAside, Zenon DEF OnceInv
      <3> QED
        BY <3>1, <3>2, Zenon
    <2>3. SignalInv'
      BY Zenon DEF OnceInv, SignalInv, Others
    <2> QED
      BY <2>1, <2>2, <2>3, Zenon DEF OnceInv
  (* While its _IntLock is not a processor's, no thread runs a process that  *)
  (* waits.                                                                  *)
  <1>WaiterIsLeft.
        ASSUME IInv, OnceInv, NEW p \in Pids, status[p] \in Waits,
               intLock[p] \notin Processors
        PROVE  \A u \in Threads : ~Runs(u, p)
    <2> USE <1>WaiterIsLeft
    <2> SUFFICES ASSUME NEW u \in Threads, Runs(u, p) PROVE FALSE
      OBVIOUS
    <2>1. pc[u] = "yielded" /\ run[u] = p
      BY Zenon DEF OnceInv, OnceOf, Runs
    <2>2. IntLockOf(u) = p /\ u \in Processors
      BY <2>1, Zenon DEF IntLockOf, IInv, WorkInv, Work, SendPlaces, RespPlaces
    <2>3. intLock[p] = u
      BY <2>2, Zenon DEF IInv, IntLockInv
    <2> QED
      BY <2>2, <2>3, Zenon
  (* A step that wakes a process.                                            *)
  <1>OnceWakes.
        ASSUME IInv, OnceInv, NEW t \in Threads, Others(t), run' = run, node' = node,
               NEW p \in Pids, node[p] # "none", status[p] \in Waits,
               intLock[p] \notin Processors,
               ready' = Append(ready, p), status'[p] \in {"RECV_RETURN", "INT_RESP"},
               \A q \in Pids : q # p => status'[q] = status[q],
               pc[t] \notin {"after", "yielded"}, pc'[t] \notin {"after", "yielded", "signal"}
        PROVE  OnceInv'
    <2> USE <1>OnceWakes
    <2>1. ~InReady(p) /\ \A u \in Threads : ~Runs(u, p)
      BY <1>WaiterIsLeft, Zenon DEF OnceInv, OnceOf
    <2>2. (\A q : InReady(q)' <=> InReady(q) \/ q = p) /\ ReadyOnce'
      BY <2>1, ReadyAppend, Zenon DEF OnceInv, IInv, TypeOK, BusTypes
    <2>3. \A q : Runs(t, q)' <=> Runs(t, q)
      BY Zenon DEF Runs
    <2>4. ASSUME NEW q \in Pids PROVE OnceOf(q)'
      <3>1. CASE q = p
        BY <2>1, <2>3, <3>1, <1>OncePut, Zenon DEF Waits
      <3>2. CASE q # p
        BY <2>2, <2>3, <3>2, <1>OnceAside, Zenon DEF OnceInv
      <3> QED
        BY <3>1, <3>2, Zenon
    <2>5. SignalInv'
      BY Zenon DEF OnceInv, SignalInv, Others
    <2> QED
      BY <2>2, <2>4, <2>5, Zenon DEF OnceInv
  (* The steps of a send, a receive, a kill and an answer that wake nobody.  *)
  <1>QuietOnce.
        ASSUME IInv, OnceInv, NEW t \in Threads,
               \/ Send(t) \/ DeviceSend(t) \/ SendExitMsg(t) \/ SendTest(t) \/ SendPut(t)
               \/ \E c \in {"recv", "recvTimeout"} : Recieve(t, c)
               \/ RecieveMsg(t) \/ Kill(t) \/ DestroyTest(t) \/ SetKilled(t)
               \/ WriteLock(t) \/ Unmap(t) \/ Delete(t)
               \/ ResponseExInt(t) \/ \E r \in requests : ResponseExTick(t, r)
        PROVE  OnceInv'
    <2> USE <1>QuietOnce
    <2> USE DEF IInv, TypeOK, ThreadTypes
    <2> DEFINE Stays == /\ Others(t) /\ pc[t] \notin {"after", "yielded"}
                        /\ pc'[t] \notin {"after", "yielded", "signal"}
    <2>1. AfterSend(t) \notin {"after", "yielded", "signal"}
      BY Zenon DEF AfterSend, Home
    <2>2. status' = status /\ run' = run /\ ready' = ready
      BY Zenon
         DEF Send, DeviceSend, SendExitMsg, SendTest, SendPut, Recieve, RecieveMsg,
             Kill, DestroyTest, SetKilled, WriteLock, Unmap, Delete, ResponseExInt,
             ResponseExTick, procVars, busVars
    <2>3. \A p \in Pids : node'[p] = "none" => node[p] = "none"
      <3>1. \/ node' = node \/ node' = [node EXCEPT ![victim[t]] = "unmapped"]
            \/ node' = [node EXCEPT ![victim[t]] = "freed"]
        BY Zenon
           DEF Send, DeviceSend, SendExitMsg, SendTest, SendPut, Recieve, RecieveMsg, Kill,
               DestroyTest, SetKilled, WriteLock, Unmap, Delete, ResponseExInt,
               ResponseExTick, procVars
      <3> QED
        BY <3>1, Zenon DEF NodeTypes
    <2>4. CASE Send(t) \/ DeviceSend(t) \/ SendExitMsg(t)
      <3>1. (\E q : SendLock(t, q)) /\ run' = run /\ victim' = victim
            /\ pc[t] \in {"slice", "idle", "exitMsg"}
        BY <2>4, Zenon DEF Send, DeviceSend, SendExitMsg, Call, At
      <3>2. Stays
        BY <2>1, <3>1, Zenon DEF SendLock, Goto, Others
      <3> QED
        BY <2>2, <2>3, <3>2, <1>OnceQuiet, Zenon
    <2>5. CASE SendTest(t) \/ SendPut(t) \/ RecieveMsg(t) \/ WriteLock(t) \/ Unmap(t)
      <3>1. Stays
        BY <2>1, <2>5, Zenon
           DEF SendTest, SendPut, SendUnlock, RecieveMsg, WriteLock, Unmap, At, Goto, Others
      <3> QED
        BY <2>2, <2>3, <3>1, <1>OnceQuiet, Zenon
    <2>6. CASE Kill(t) \/ DestroyTest(t) \/ SetKilled(t) \/ Delete(t)
      <3>1. Stays
        BY <2>6, Zenon
           DEF Kill, Call, DestroyTest, SetKilled, Delete, DestroyDone, At, Goto, Others
      <3> QED
        BY <2>2, <2>3, <3>1, <1>OnceQuiet, Zenon
    <2>7. CASE \/ \E c \in {"recv", "recvTimeout"} : Recieve(t, c)
               \/ ResponseExInt(t) \/ \E r \in requests : ResponseExTick(t, r)
      <3>1. Stays
        BY <2>7, Zenon
           DEF Recieve, Call, ResponseExInt, ResponseExTick, At, Goto, Others
      <3> QED
        BY <2>2, <2>3, <3>1, <1>OnceQuiet, Zenon
    <2> QED
      BY <2>4, <2>5, <2>6, <2>7, Zenon
  (* A new process is queued, or could not be started.                       *)
  <1>SpawnOnce.
        ASSUME IInv, OnceInv, NEW t \in Processors, Spawn(t)
        PROVE  OnceInv'
    <2> USE <1>SpawnOnce
    <2>1. PICK p \in Pids : /\ node[p] = "none"
                            /\ node' = [node EXCEPT ![p] = "mapped"]
                            /\ ready' \in {Append(ready, p), ready}
      BY Zenon DEF Spawn
    <2>2. /\ t \in Threads /\ Others(t) /\ status' = status
          /\ pc' = pc /\ run' = run /\ pc[t] = "slice"
      BY Zenon DEF Threads, Spawn, Call, At, threadVars, Others
    <2>3. \A q : Runs(t, q)' <=> Runs(t, q)
      BY <2>2, Zenon DEF Runs
    <2>4. /\ ~InReady(p) /\ \A u \in Threads : ~Runs(u, p)
          /\ status[p] = "CREATED"
      BY <2>1, Zenon DEF OnceInv, OnceOf
    <2>5. ReadyOnce' /\ \A q : q # p => (InReady(q)' <=> InReady(q))
      <3>1. CASE ready' = ready
        BY <3>1, InReadySame, Zenon DEF OnceInv
      <3>2. CASE ready' = Append(ready, p)
        BY <2>4, <3>2, ReadyAppend, Zenon DEF OnceInv, IInv, TypeOK, BusTypes
      <3> QED
        BY <2>1, <3>1, <3>2, Zenon
    <2>6. /\ node'[p] # "none"
          /\ \A q \in Pids : q # p => node'[q] = node[q]
      BY <2>1, Zenon DEF IInv, TypeOK, NodeTypes
    <2>7. ASSUME NEW q \in Pids PROVE OnceOf(q)'
      <3>1. CASE q = p
        BY <2>2, <2>3, <2>4, <2>6, <3>1, <1>OncePut, Zenon DEF Waits
      <3>2. CASE q # p
        BY <2>2, <2>3, <2>5, <2>6, <3>2, <1>OnceAside, Zenon DEF OnceInv
      <3> QED
        BY <3>1, <3>2, Zenon
    <2>8. SignalInv'
      BY <2>2, Zenon DEF OnceInv, SignalInv
    <2> QED
      BY <2>5, <2>7, <2>8, Zenon DEF OnceInv
  (* The steps that change the state of the process in its slice.            *)
  <1>SliceOnce.
        ASSUME "signal" \notin Calls, IInv, OnceInv, NEW t \in Processors,
               \/ Resume(t) \/ RecieveWait(t) \/ IntReturn(t) \/ IntRequest(t) \/ IntTimer(t)
               \/ \E c \in {"request", "requestTimeout", "write", "return", "sleep",
                            "signal"} : Interrupt(t, c)
        PROVE  OnceInv'
    <2> USE <1>SliceOnce
    <2> USE DEF IInv, TypeOK, ThreadTypes
    <2>1. t \in Threads /\ Work(t) /\ status \in [Pids -> States] /\ pc[t] # "signal"
      BY Zenon DEF Threads, WorkInv, NodeTypes, OnceInv, SignalInv
    <2>2. pc[t] \in {"resume"} \cup (SlicePlaces \ {"yielded"}) /\ pc[t] # "after"
      BY Zenon DEF Resume, RecieveWait, IntReturn, IntRequest, IntTimer, Interrupt, Call,
                   At, SlicePlaces
    <2>3. PICK p \in Pids : p = run[t]
      BY <2>1, <2>2, Zenon DEF Work
    <2>4. Others(t) /\ run' = run /\ ready' = ready /\ node' = node
      BY <2>1, Zenon
         DEF Resume, RecieveWait, IntReturn, IntRequest, IntTimer, Interrupt, Goto,
             Others, busVars
    <2>5. \A q \in Pids : q # p => status'[q] = status[q]
      BY <2>1, <2>3, Zenon
         DEF Resume, RecieveWait, IntReturn, IntRequest, IntTimer, Interrupt
    <2>6. /\ pc'[t] \notin {"after", "signal"}
          /\ status'[p] \notin {"KILLED", "YIELD"}
          /\ status'[p] \in Waits <=> pc'[t] = "yielded"
      <3>1. CASE Resume(t)
        BY <2>1, <2>3, <3>1, Zenon DEF Resume, Goto, Waits
      <3>2. CASE RecieveWait(t)
        BY <2>1, <2>3, <3>2, Zenon DEF RecieveWait, Goto, Waits
      <3>3. CASE IntReturn(t)
        BY <2>1, <2>3, <3>3, Zenon DEF IntReturn, Goto, Waits
      <3>4. CASE IntRequest(t)
        BY <2>1, <2>3, <3>4, Zenon DEF IntRequest, Goto, Waits
      <3>5. CASE IntTimer(t)
        BY <2>1, <2>3, <3>5, Zenon DEF IntTimer, At, Goto, Waits
      <3>6. ASSUME NEW c \in {"request", "requestTimeout", "write", "return", "sleep",
                              "signal"}, Interrupt(t, c)
            PROVE  /\ pc'[t] \notin {"after", "signal", "yielded"}
                   /\ status'[p] \notin {"KILLED", "YIELD"} \cup Waits
        BY <2>1, <2>3, <3>6, Zenon DEF Interrupt, Call, Goto, Waits
      <3> QED
        BY <3>1, <3>2, <3>3, <3>4, <3>5, <3>6, Zenon
    <2>7. Runs(t, p) /\ Runs(t, p)'
      BY <2>2, <2>3, <2>4, <2>6, Zenon DEF Runs
    <2> QED
      BY <2>1, <2>4, <2>5, <2>6, <2>7, <1>OnceMoves, Zenon
  (* The processor takes a process from the queue, or lets it go.            *)
  <1>PassesOnce.
        ASSUME IInv, OnceInv, NEW t \in Processors,
               GetTask(t) \/ AfterResume(t) \/ ResumeYielded(t) \/ ResumeReturned(t)
        PROVE  OnceInv'
    <2> USE <1>PassesOnce
    <2> USE DEF IInv, TypeOK, ThreadTypes
    <2>1. t \in Threads /\ Work(t) /\ Others(t) /\ node' = node
      BY Zenon DEF Threads, WorkInv, GetTask, AfterResume, ResumeYielded, ResumeReturned,
                   Goto, Others, procVars
    <2>2. status \in [Pids -> States] /\ ready \in Seq(Pids)
      BY Zenon DEF NodeTypes, BusTypes
    <2>3. CASE GetTask(t)
      <3>1. PICK p \in Pids : p = Head(ready)
        BY <2>2, <2>3, HeadIsIn, Zenon DEF GetTask
      <3>2. /\ InReady(p) /\ ReadyOnce'
            /\ \A q : InReady(q)' <=> InReady(q) /\ q # p
        BY <2>2, <2>3, <3>1, ReadyTail, Zenon DEF GetTask, OnceInv
      <3>3. /\ pc[t] = "get" /\ pc'[t] = "resume" /\ run'[t] = p /\ run[t] = Nil
            /\ status' = status
        BY <2>1, <2>3, <3>1, Zenon DEF GetTask, At, Goto, procVars, Work
      <3>4. \A u \in Threads : ~Runs(u, p)
        BY <3>2, Zenon DEF OnceInv, OnceOf
      <3>5. OnceOf(p)'
        <4>1. \A u \in Threads : Runs(u, p)' => u = t
          BY <2>1, <3>4, Zenon DEF Others, Runs
        <4>2. node[p] # "none" /\ status[p] \notin Waits \cup {"KILLED"}
          BY <3>2, Zenon DEF OnceInv, OnceOf
        <4> QED
          BY <2>1, <3>2, <3>3, <4>1, <4>2, Zenon DEF OnceOf
      <3>6. ASSUME NEW q \in Pids, q # p PROVE OnceOf(q)'
        <4>1. ~Runs(t, q) /\ ~Runs(t, q)'
          BY <3>3, <3>6, ProcessAssumption, Zenon DEF Runs
        <4> QED
          BY <2>1, <3>2, <3>3, <3>6, <4>1, <1>OnceAside, Zenon DEF OnceInv
      <3>7. SignalInv'
        BY <2>1, <3>3, Zenon DEF OnceInv, SignalInv, Others
      <3> QED
        BY <3>2, <3>5, <3>6, <3>7, Zenon DEF OnceInv
    <2>4. CASE AfterResume(t)
      <3>1. run[t] \in Pids /\ pc[t] = "after" /\ pc'[t] = "get" /\ run'[t] = Nil
        BY <2>1, <2>4, Zenon DEF AfterResume, At, Work, Goto
      <3>2. status' = status /\ ready' = ready
        BY <2>4, <3>1, Zenon DEF AfterResume, procVars, OnceInv, SignalInv
      <3>3. (\A q : InReady(q)' <=> InReady(q)) /\ ReadyOnce'
        BY <3>2, InReadySame, Zenon DEF OnceInv
      <3>4. ASSUME NEW q \in Pids PROVE OnceOf(q)'
        <4>1. ~Runs(t, q) /\ ~Runs(t, q)'
          BY <3>1, ProcessAssumption, Zenon DEF Runs
        <4> QED
          BY <2>1, <3>2, <3>3, <4>1, <1>OnceAside, Zenon DEF OnceInv
      <3>5. SignalInv'
        BY <2>1, <3>1, <3>2, Zenon DEF OnceInv, SignalInv, Others
      <3> QED
        BY <3>3, <3>4, <3>5, Zenon DEF OnceInv
    <2>5. CASE ResumeYielded(t) \/ ResumeReturned(t)
      <3>1. PICK p \in Pids : p = run[t] /\ pc[t] # "after" /\ Runs(t, p)
        BY <2>1, <2>5, Zenon DEF ResumeYielded, ResumeReturned, At, Work, SlicePlaces, Runs
      <3>2. /\ \A q \in Pids : q # p => status'[q] = status[q]
            /\ (\A q : InReady(q)' <=> InReady(q)) /\ ReadyOnce'
        BY <2>2, <2>5, <3>1, InReadySame, Zenon
           DEF ResumeYielded, ResumeReturned, busVars, OnceInv
      <3>3. status'[p] # "YIELD"
        <4>1. ResumeYielded(t) => status[p] \in Waits
          BY <2>1, <3>1, Zenon DEF ResumeYielded, At, OnceInv, OnceOf
        <4> QED
          BY <2>2, <2>5, <3>1, <4>1, Zenon DEF ResumeYielded, ResumeReturned, Waits
      <3>4. /\ pc'[t] \in {"after", "destroy"} /\ run'[t] \in {run[t], Nil}
            /\ pc'[t] = "after" \/ run'[t] = Nil
        BY <2>1, <2>5, Zenon DEF ResumeYielded, ResumeReturned, Goto
      <3>5. \A q \in Pids : ~Runs(t, q)'
        BY <3>4, ProcessAssumption, Zenon DEF Runs
      <3>6. ASSUME NEW q \in Pids PROVE OnceOf(q)'
        <4>1. CASE q = p
          BY <2>1, <3>1, <3>2, <3>5, <4>1, <1>OnceLeft, Zenon DEF OnceInv
        <4>2. CASE q # p
          <5>1. ~Runs(t, q)
            BY <3>1, <4>2, Zenon DEF Runs
          <5> QED
            BY <2>1, <3>2, <3>5, <4>2, <5>1, <1>OnceAside, Zenon DEF OnceInv
        <4> QED
          BY <4>1, <4>2, Zenon
      <3>7. SignalInv'
        BY <2>1, <3>2, <3>3, <3>4, Zenon DEF OnceInv, SignalInv, Others
      <3> QED
        BY <3>2, <3>6, <3>7, Zenon DEF OnceInv
    <2> QED
      BY <2>3, <2>4, <2>5, Zenon
  (* The steps that wake a process, or find nobody to wake.                  *)
  <1>WakingOnce.
        ASSUME IInv, OnceInv, NEW t \in Threads,
               \/ SendHandOver(t) \/ (t \in Devices /\ ResponseExWake(t))
               \/ \E r \in requests : WriteDone(t, r)
               \/ \E ev \in timers : TimerSignal(ev) \/ SleepOver(ev) \/ SendTimeoutMsg(ev)
        PROVE  OnceInv'
    <2> USE <1>WakingOnce
    <2> USE DEF IInv, TypeOK, ThreadTypes
    <2>0. status \in [Pids -> States] /\ Nil \notin Processors
      BY ProcessAssumption, Zenon DEF NodeTypes, Threads
    <2>1. ASSUME NEW u \in Threads, Others(u), run' = run, node' = node, NEW p \in Pids,
                 pc[u] \notin {"after", "yielded"}, pc'[u] \notin {"after", "yielded", "signal"},
                 \/ /\ Mapped(p) /\ intLock[p] \notin Processors /\ status[p] \in Waits
                    /\ Wake(p)
                 \/ UNCHANGED <<status, ready>>
          PROVE  OnceInv'
      <3>1. CASE UNCHANGED <<status, ready>>
        BY <2>1, <3>1, <1>OnceQuiet, Zenon
      <3>2. CASE /\ Mapped(p) /\ intLock[p] \notin Processors /\ status[p] \in Waits
                 /\ Wake(p)
        <4>1. /\ ready' = Append(ready, p) /\ status'[p] = "INT_RESP"
              /\ \A q \in Pids : q # p => status'[q] = status[q]
          BY <2>0, <3>2, Zenon DEF Wake
        <4>2. node[p] # "none"
          BY <3>2, Zenon DEF Mapped
        <4> QED
          BY <2>1, <3>2, <4>1, <4>2, <1>OnceWakes, Zenon
      <3> QED
        BY <2>1, <3>1, <3>2, Zenon
    <2>2. CASE SendHandOver(t)
      <3>1. PICK p \in Pids : p = tgt[t] /\ node[p] = "mapped"
        BY <2>2, ProcessAssumption, Zenon
           DEF SendHandOver, At, WorkInv, Work, SendPlaces, AnsweredIsMapped
      <3>2. AfterSend(t) \notin {"after", "yielded", "signal"}
        BY Zenon DEF AfterSend, Home
      <3>3. /\ Others(t) /\ run' = run /\ node' = node /\ pc[t] = "send"
            /\ pc'[t] \notin {"after", "yielded", "signal"}
        BY <2>2, <3>2, Zenon DEF SendHandOver, SendUnlock, At, Goto, Others
      <3>4. /\ ready' = Append(ready, p) /\ status'[p] = "RECV_RETURN"
            /\ status[p] \in Waits /\ intLock[p] \notin Processors
            /\ \A q \in Pids : q # p => status'[q] = status[q]
        BY <2>0, <2>2, <3>1, Zenon DEF SendHandOver, Waits
      <3> QED
        BY <3>1, <3>3, <3>4, <1>OnceWakes, Zenon
    <2>3. CASE t \in Devices /\ ResponseExWake(t)
      <3>1. pc[t] = "respLock" /\ tgt[t] \in Pids /\ Mapped(tgt[t])
        BY <2>3, ProcessAssumption, Zenon
           DEF ResponseExWake, At, WorkInv, Work, RespPlaces, AnsweredIsMapped, Mapped
      <3>2. intLock[tgt[t]] \notin Processors
        <4>1. intLock[tgt[t]] = t
          BY <3>1, Zenon DEF IntLockInv, IntLockOf
        <4> QED
          BY <2>3, <4>1, ProcessAssumption, Zenon
      <3>3. Others(t) /\ run' = run /\ node' = node /\ pc'[t] = "idle"
        BY <2>3, Zenon DEF ResponseExWake, Goto, Others
      <3> QED
        BY <2>1, <2>3, <3>1, <3>2, <3>3, Zenon DEF ResponseExWake
    <2>4. ASSUME NEW r \in requests, WriteDone(t, r) PROVE OnceInv'
      <3>1. r[1] \in Pids
        BY DEF BusTypes
      <3>2. Others(t) /\ run' = run /\ node' = node /\ pc[t] = "idle" /\ pc'[t] = "idle"
        BY <2>4, Zenon DEF WriteDone, Response, At, threadVars, Others
      <3> QED
        BY <2>0, <2>1, <2>4, <3>1, <3>2, Zenon DEF WriteDone, Response
    <2>5. ASSUME NEW ev \in timers, TimerSignal(ev) \/ SleepOver(ev) PROVE OnceInv'
      <3>1. ev[1] \in Pids /\ Clock \in Threads
        BY DEF BusTypes, Threads
      <3>2. /\ Others(Clock) /\ run' = run /\ node' = node
            /\ pc[Clock] = "idle" /\ pc'[Clock] = "idle"
        BY <2>5, Zenon DEF TimerSignal, SleepOver, Response, Fire, At, threadVars, Others
      <3> QED
        BY <2>0, <2>1, <2>5, <3>1, <3>2, Zenon DEF TimerSignal, SleepOver, Response
    <2>6. ASSUME NEW ev \in timers, SendTimeoutMsg(ev) PROVE OnceInv'
      <3>1. Clock \in Threads /\ AfterSend(Clock) \notin {"after", "yielded", "signal"}
        BY Zenon DEF Threads, AfterSend, Home
      <3>2. /\ Others(Clock) /\ run' = run /\ node' = node /\ status' = status
            /\ ready' = ready /\ pc[Clock] = "idle"
            /\ pc'[Clock] \notin {"after", "yielded", "signal"}
        BY <2>6, <3>1, Zenon DEF SendTimeoutMsg, Fire, At, SendLock, Goto, Others, procVars
      <3> QED
        BY <3>1, <3>2, <1>OnceQuiet, Zenon
    <2> QED
      BY <2>2, <2>3, <2>4, <2>5, <2>6, Zenon
  <1> SUFFICES ASSUME IInv, OnceInv, [Next]_vars PROVE OnceInv'
    OBVIOUS
  <1>1. CASE UNCHANGED vars
    <2> USE <1>1 DEF vars, procVars, busVars, threadVars
    <2>1. SignalInv'
      BY Zenon DEF OnceInv, SignalInv
    <2>2. (\A q : InReady(q)' <=> InReady(q)) /\ ReadyOnce'
      BY InReadySame, Zenon DEF OnceInv
    <2>3. ASSUME NEW p \in Pids PROVE OnceOf(p)'
      <3>1. \A t : Runs(t, p)' <=> Runs(t, p)
        BY Zenon DEF Runs
      <3> QED
        BY <2>2, <3>1, Zenon DEF OnceInv, OnceOf
    <2> QED
      BY <2>1, <2>2, <2>3, Zenon DEF OnceInv
  <1>2. ASSUME NEW t \in Threads, Sending(t) PROVE OnceInv'
    BY <1>2, <1>QuietOnce, <1>WakingOnce, Zenon DEF Sending
  <1>3. ASSUME NEW t \in Processors, Processor(t) PROVE OnceInv'
    <2>1. t \in Threads
      BY Zenon DEF Threads
    <2>2. CASE GetTask(t) \/ AfterResume(t) \/ ResumeYielded(t) \/ ResumeReturned(t)
      BY <2>2, <1>PassesOnce, Zenon
    <2>3. CASE Resume(t)
      BY <2>3, <1>SliceOnce, Zenon
    <2>4. CASE Slice(t)
      BY <2>1, <2>4, <1>QuietOnce, <1>SliceOnce, <1>SpawnOnce, Zenon DEF Slice
    <2>5. CASE Destroy(t)
      BY <2>1, <2>5, <1>QuietOnce, Zenon DEF Destroy
    <2> QED
      BY <1>2, <1>3, <2>1, <2>2, <2>3, <2>4, <2>5, Zenon DEF Processor
  <1>4. Clock \in Threads /\ Devices \subseteq Threads
    BY Zenon DEF Threads
  <1>5. CASE ClockStep
    BY <1>2, <1>4, <1>5, <1>WakingOnce, Zenon DEF ClockStep
  <1>6. ASSUME NEW d \in Devices, DeviceStep(d) PROVE OnceInv'
    BY <1>2, <1>4, <1>6, <1>QuietOnce, <1>WakingOnce, Zenon DEF DeviceStep
  <1> QED
    BY <1>1, <1>3, <1>5, <1>6, Zenon DEF Next

(* The invariant holds in every reachable state.                           *)
LEMMA OnceInvariance ==
    ASSUME "signal" \notin Calls
    PROVE  Spec => [](IInv /\ OnceInv)
  <1>1. Init => OnceInv
    <2> SUFFICES ASSUME Init PROVE OnceInv
      OBVIOUS
    <2>1. \A t \in Threads : pc[t] \in {"get", "idle"} /\ run[t] = Nil
      BY Zenon DEF Init, Home
    <2>2. ReadyOnce /\ \A p \in Pids : InReady(p) => p = Main
      BY DEF Init, ReadyOnce, InReady
    <2>3. \A p \in Pids : status[p] = "CREATED" /\ (p = Main => node[p] = "mapped")
      BY Zenon DEF Init
    <2>4. SignalInv
      BY <2>1, <2>3, Zenon DEF SignalInv
    <2>5. ASSUME NEW p \in Pids PROVE OnceOf(p)
      BY <2>1, <2>2, <2>3, <2>5, ProcessAssumption, Zenon DEF OnceOf, Runs, Waits
    <2> QED
      BY <2>2, <2>4, <2>5, Zenon DEF OnceInv
  <1>2. IInv /\ OnceInv /\ [Next]_vars => OnceInv'
    BY OnceKeeps
  <1> QED
    BY <1>1, <1>2, Invariance, PTL DEF Spec

-----------------------------------------------------------------------------
(* Where no program calls signal or makes a request with a timeout.        *)

(* Nothing is asked for p, and its timeouts are of earlier slices.         *)
Unasked(p) ==
    /\ \A r \in requests : r[1] # p
    /\ \A t \in Threads : ~Answers(t, p)
    /\ \A ev \in timers : ev[1] = p =>
          ev[2] # TIMER /\ ev[3] = ev[2] /\ ev[2] <= tick[p] /\ ev[2] # tick[p]

(* The states of a process that waits, was handed a message, or is killed. *)
Asking == {"INT_WAIT", "RECV_WAIT", "RECV_RETURN", "KILLED"}

(* A process for which nothing is asked may be in any state.               *)
LEMMA UnaskedIsFine ==
    ASSUME NEW p \in Pids, Unasked(p)
    PROVE  AskedOf(p)
  BY Zenon DEF AskedOf, Unasked

(* Nothing new is asked for p or answered to it.                           *)
NoneAdded(p) ==
    /\ \A r \in requests' : r[1] = p => r \in requests
    /\ \A ev \in timers' : ev[1] = p => ev \in timers
    /\ \A t \in Threads : Answers(t, p)' => Answers(t, p) /\ arg'[t] = arg[t]

(* Every step keeps what is asked.                                         *)
LEMMA AskedKeeps ==
    ASSUME "signal" \notin Calls
    PROVE  (/\ IInv /\ OnceInv /\ AskedInv
            /\ \A t \in Threads : pc[t] # "requestTimeout"
            /\ [Next]_vars)
           => AskedInv'
  (* Nothing is asked for a process that does not wait.                      *)
  <1>NotWaiting.
        ASSUME AskedInv, NEW p \in Pids, status[p] \notin Asking
        PROVE  Unasked(p)
    BY <1>NotWaiting, Zenon DEF AskedInv, AskedOf, Unasked, Asking
  (* A process that the step leaves alone, but for what is taken from it.    *)
  <1>AskedAside.
        ASSUME NEW p \in Pids, AskedOf(p), NoneAdded(p),
               status'[p] = status[p], tick'[p] = tick[p]
        PROVE  AskedOf(p)'
    <2> USE <1>AskedAside
    <2>1. \A r \in requests' : r[1] = p =>
            /\ status'[p] = "INT_WAIT" /\ r[2] = tick'[p]
            /\ \A s \in requests' : s[1] = p => s = r
      BY Zenon DEF AskedOf, NoneAdded
    <2>2. \A ev \in timers' : ev[1] = p /\ ev[2] = TIMER =>
            /\ status'[p] = "INT_WAIT" /\ ev[3] = tick'[p]
            /\ \A f \in timers' : f[1] = p /\ f[2] = TIMER => f = ev
            /\ \A r \in requests' : r[1] # p
      BY Zenon DEF AskedOf, NoneAdded
    <2>3. \A t \in Threads : Answers(t, p)' =>
            /\ status'[p] = "INT_WAIT" /\ arg'[t] = tick'[p]
            /\ \A u \in Threads : Answers(u, p)' => u = t
            /\ \A r \in requests' : r[1] # p
            /\ \A ev \in timers' : ev[1] = p => ev[2] # TIMER
      BY Zenon DEF AskedOf, NoneAdded
    <2>4. \A ev \in timers' : ev[1] = p /\ ev[2] # TIMER =>
            /\ ev[3] = ev[2] /\ ev[2] <= tick'[p]
            /\ ev[2] = tick'[p] => status'[p] \in {"RECV_WAIT", "RECV_RETURN"}
      BY Zenon DEF AskedOf, NoneAdded
    <2> QED
      BY <2>1, <2>2, <2>3, <2>4, Zenon DEF AskedOf
  (* The same, when nothing was asked.                                       *)
  <1>UnaskedAside.
        ASSUME NEW p \in Pids, Unasked(p), NoneAdded(p), tick'[p] = tick[p]
        PROVE  Unasked(p)'
    BY <1>UnaskedAside, Zenon DEF Unasked, NoneAdded
  (* Who answers whom, in a step of t.                                       *)
  <1>AnswersKept.
        ASSUME NEW t \in Threads, Others(t), arg' = arg,
               pc'[t] \in RespPlaces => pc[t] \in RespPlaces /\ tgt'[t] = tgt[t]
        PROVE  \A p \in Pids, u \in Threads : Answers(u, p)' => Answers(u, p) /\ arg'[u] = arg[u]
    BY <1>AnswersKept, Zenon DEF Others, Answers
  (* A step that asks nothing, answers nothing and wakes nobody.             *)
  <1>AskedKept.
        ASSUME AskedInv, NEW t \in Threads, Others(t), arg' = arg,
               pc'[t] \in RespPlaces => pc[t] \in RespPlaces /\ tgt'[t] = tgt[t],
               status' = status, tick' = tick, requests' = requests, timers' = timers
        PROVE  AskedInv'
    <2> USE <1>AskedKept
    <2>1. \A p \in Pids : NoneAdded(p)
      BY <1>AnswersKept, Zenon DEF NoneAdded
    <2> QED
      BY <2>1, <1>AskedAside, Zenon DEF AskedInv
  (* A step that changes the state of a process for which nothing is asked.  *)
  <1>AskedMoves.
        ASSUME AskedInv, NEW t \in Threads, Others(t), arg' = arg,
               pc'[t] \in RespPlaces => pc[t] \in RespPlaces /\ tgt'[t] = tgt[t],
               NEW p \in Pids, status[p] \notin Asking,
               \A q \in Pids : q # p => status'[q] = status[q],
               tick' = tick, requests' = requests, timers' = timers
        PROVE  AskedInv'
    <2> USE <1>AskedMoves
    <2>1. \A q \in Pids : NoneAdded(q)
      BY <1>AnswersKept, Zenon DEF NoneAdded
    <2>2. AskedOf(p)'
      <3>1. Unasked(p)
        BY <1>NotWaiting, Zenon
      <3>2. Unasked(p)'
        BY <2>1, <3>1, <1>UnaskedAside, Zenon
      <3> QED
        BY <3>2, UnaskedIsFine, PTL
    <2>3. ASSUME NEW q \in Pids, q # p PROVE status'[q] = "KILLED" \/ AskedOf(q)'
      BY <2>1, <2>3, <1>AskedAside, Zenon DEF AskedInv
    <2> QED
      BY <2>2, <2>3, Zenon DEF AskedInv
  (* In its slice nothing is asked for a process.                            *)
  <1>SliceUnasked.
        ASSUME IInv, OnceInv, NEW t \in Processors, pc[t] \in SlicePlaces \ {"yielded"}
        PROVE  t \in Threads /\ run[t] \in Pids /\ status[run[t]] \notin Asking
    <2> USE <1>SliceUnasked
    <2>1. t \in Threads /\ run[t] \in Pids /\ status[run[t]] # "RECV_RETURN"
      BY SliceOwns, Zenon DEF Threads
    <2>2. PICK p \in Pids : p = run[t]
      BY <2>1, Zenon
    <2>3. Runs(t, p)
      BY <2>2, Zenon DEF Runs, SlicePlaces
    <2>4. status[p] \notin Waits \cup {"KILLED"}
      BY <2>1, <2>3, Zenon DEF OnceInv, OnceOf
    <2> QED
      BY <2>1, <2>2, <2>4, Zenon DEF Waits, Asking
  (* The steps that leave what is asked alone: no process waits for an       *)
  (* answer, or is woken, in any of them.                                    *)
  <1>QuietAsked.
        ASSUME IInv, OnceInv, AskedInv, NEW t \in Threads,
               \/ Send(t) \/ SendTest(t) \/ SendPut(t) \/ DeviceSend(t)
               \/ \E c \in {"recv", "recvTimeout"} : Recieve(t, c)
               \/ RecieveMsg(t) \/ WriteLock(t) \/ SendExitMsg(t)
               \/ Spawn(t) \/ GetTask(t) \/ AfterResume(t)
               \/ Kill(t) \/ DestroyTest(t) \/ SetKilled(t) \/ Unmap(t) \/ Delete(t)
               \/ ResponseExInt(t)
        PROVE  AskedInv'
    <2> USE <1>QuietAsked
    <2> USE DEF IInv, TypeOK, ThreadTypes
    <2>1. AfterSend(t) \notin RespPlaces
      BY Zenon DEF AfterSend, Home, RespPlaces
    <2>2. status' = status /\ tick' = tick /\ requests' = requests /\ timers' = timers
          /\ arg' = arg
      BY Zenon
         DEF Send, SendTest, SendPut, DeviceSend, Recieve, RecieveMsg, WriteLock,
             SendExitMsg, Spawn, GetTask, AfterResume, Kill, DestroyTest, SetKilled,
             Unmap, Delete, ResponseExInt, procVars, busVars, threadVars
    <2>3. ASSUME NEW q, SendLock(t, q), run' = run, victim' = victim
          PROVE  Others(t) /\ pc'[t] \notin RespPlaces
      BY <2>1, <2>3, Zenon DEF SendLock, Goto, Others, RespPlaces
    <2>4. ASSUME Send(t) \/ DeviceSend(t) \/ SendExitMsg(t)
          PROVE  Others(t) /\ pc'[t] \notin RespPlaces
      <3>1. (\E q : SendLock(t, q)) /\ run' = run /\ victim' = victim
        BY <2>4, Zenon DEF Send, DeviceSend, SendExitMsg
      <3> QED
        BY <2>3, <3>1, Zenon
    <2>5. CASE Send(t) \/ DeviceSend(t) \/ SendExitMsg(t)
      BY <2>2, <2>4, <2>5, <1>AskedKept, Zenon
    <2>6. ASSUME SendTest(t) \/ SendPut(t) \/ RecieveMsg(t) \/ WriteLock(t) \/ Unmap(t)
          PROVE  Others(t) /\ pc'[t] \notin RespPlaces
      BY <2>1, <2>6, Zenon
         DEF SendTest, SendPut, SendUnlock, RecieveMsg, WriteLock, Unmap, Goto, Others,
             RespPlaces
    <2>7. ASSUME \/ \E c \in {"recv", "recvTimeout"} : Recieve(t, c)
                 \/ GetTask(t) \/ AfterResume(t) \/ Kill(t) \/ DestroyTest(t)
                 \/ SetKilled(t) \/ Delete(t)
          PROVE  Others(t) /\ pc'[t] \notin RespPlaces
      BY <2>7, Zenon
         DEF Recieve, GetTask, AfterResume, Kill, DestroyTest, SetKilled, Delete,
             DestroyDone, Goto, Others, RespPlaces
    <2>8. CASE Spawn(t) \/ ResponseExInt(t)
      <3>1. Others(t) /\ (pc'[t] \in RespPlaces => pc[t] \in RespPlaces /\ tgt'[t] = tgt[t])
        BY <2>8, Zenon
           DEF Spawn, threadVars, ResponseExInt, At, Goto, Others, RespPlaces
      <3> QED
        BY <2>2, <3>1, <1>AskedKept, Zenon
    <2> QED
      BY <2>2, <2>5, <2>6, <2>7, <2>8, <1>AskedKept, Zenon
  (* A step that concerns one process only.                                  *)
  <1>AskedBut.
        ASSUME AskedInv, NEW p \in Pids, tick' = tick,
               status'[p] = "KILLED" \/ AskedOf(p)',
               \A q \in Pids : q # p => status'[q] = status[q] /\ NoneAdded(q)
        PROVE  AskedInv'
    <2> USE <1>AskedBut
    <2>1. ASSUME NEW q \in Pids, q # p PROVE status'[q] = "KILLED" \/ AskedOf(q)'
      BY <2>1, <1>AskedAside, Zenon DEF AskedInv
    <2> QED
      BY <2>1, Zenon DEF AskedInv
  (* A slice: its start, its end, and the calls that ask for nothing.        *)
  <1>SliceAsked.
        ASSUME IInv, OnceInv, AskedInv, NEW t \in Processors,
               \/ Resume(t) \/ ResumeYielded(t) \/ ResumeReturned(t) \/ IntReturn(t)
               \/ \E c \in {"request", "requestTimeout", "write", "return", "sleep",
                            "signal"} : Interrupt(t, c)
        PROVE  AskedInv'
    <2> USE <1>SliceAsked
    <2> USE DEF IInv, TypeOK, ThreadTypes
    <2>1. t \in Threads /\ Work(t) /\ status \in [Pids -> States]
      BY Zenon DEF Threads, WorkInv, NodeTypes
    <2>2. Others(t) /\ pc'[t] \notin RespPlaces
      BY <2>1, Zenon
         DEF Resume, ResumeYielded, ResumeReturned, IntReturn, Interrupt, Goto, Others,
             RespPlaces
    <2>3. requests' = requests /\ timers' = timers /\ arg' = arg
      BY Zenon DEF Resume, ResumeYielded, ResumeReturned, IntReturn, Interrupt, busVars
    <2>4. CASE \/ ResumeReturned(t) \/ IntReturn(t)
               \/ \E c \in {"request", "requestTimeout", "write", "return", "sleep",
                            "signal"} : Interrupt(t, c)
      <3>1. pc[t] \in SlicePlaces \ {"yielded"}
        BY <2>4, Zenon DEF ResumeReturned, IntReturn, Interrupt, Call, At, SlicePlaces
      <3>2. PICK p \in Pids : p = run[t] /\ status[p] \notin Asking
        BY <3>1, <1>SliceUnasked, Zenon
      <3>3. tick' = tick /\ \A q \in Pids : q # p => status'[q] = status[q]
        BY <2>1, <2>4, <3>2, Zenon DEF ResumeReturned, IntReturn, Interrupt
      <3> QED
        BY <2>1, <2>2, <2>3, <3>2, <3>3, <1>AskedMoves, Zenon
    <2>5. CASE ResumeYielded(t)
      <3>1. PICK p \in Pids : p = run[t] /\ Runs(t, p)
        BY <2>1, <2>5, Zenon DEF ResumeYielded, At, Work, SlicePlaces, Runs
      <3>2. status[p] \in Waits
        BY <2>1, <2>5, <3>1, Zenon DEF ResumeYielded, At, OnceInv, OnceOf
      <3>3. /\ status'[p] \in {status[p], "KILLED"} /\ tick' = tick
            /\ \A q \in Pids : q # p => status'[q] = status[q]
        BY <2>1, <2>5, <3>1, <3>2, Zenon DEF ResumeYielded
      <3>4. \A q \in Pids : NoneAdded(q)
        BY <2>1, <2>2, <2>3, <1>AnswersKept, Zenon DEF NoneAdded
      <3>5. status'[p] = "KILLED" \/ AskedOf(p)'
        BY <3>2, <3>3, <3>4, <1>AskedAside, Zenon DEF AskedInv, Waits
      <3> QED
        BY <3>3, <3>4, <3>5, <1>AskedBut, Zenon
    <2>6. CASE Resume(t)
      <3>1. run[t] \in Pids /\ pc[t] = "resume"
        BY <2>1, <2>6, Zenon DEF Resume, At, Work
      <3>2. PICK p \in Pids : p = run[t] /\ Runs(t, p)
        BY <3>1, Zenon DEF Runs
      <3>3. status[p] \notin Waits \cup {"KILLED"}
        BY <2>1, <3>1, <3>2, Zenon DEF OnceInv, OnceOf
      <3>4. /\ tick'[p] = tick[p] + 1 /\ tick[p] \in Nat
            /\ \A q \in Pids : q # p => status'[q] = status[q] /\ tick'[q] = tick[q]
        BY <2>1, <2>6, <3>2 DEF Resume, NodeTypes
      <3>5. \A q \in Pids : NoneAdded(q)
        BY <2>1, <2>2, <2>3, <1>AnswersKept, Zenon DEF NoneAdded
      <3>6. AskedOf(p)
        BY <3>3, Zenon DEF AskedInv
      <3>7. Unasked(p)'
        <4>1. \A ev \in timers : ev[1] = p =>
                 ev[2] # TIMER /\ ev[3] = ev[2] /\ ev[2] <= tick[p]
          BY <3>3, <3>6, Zenon DEF AskedOf, Waits
        <4>2. \A ev \in timers : ev[2] \in Int
          BY DEF BusTypes
        <4>3. \A ev \in timers' : ev[1] = p =>
                 /\ ev[2] # TIMER /\ ev[3] = ev[2]
                 /\ ev[2] <= tick'[p] /\ ev[2] # tick'[p]
          BY <2>3, <3>4, <4>1, <4>2
        <4>4. /\ \A r \in requests : r[1] # p
              /\ \A u \in Threads : ~Answers(u, p)
          BY <3>3, <3>6, Zenon DEF AskedOf, Waits
        <4> QED
          BY <2>3, <3>5, <4>3, <4>4, Zenon DEF Unasked, NoneAdded
      <3>8. AskedOf(p)'
        BY <3>7, UnaskedIsFine, PTL
      <3>9. ASSUME NEW q \in Pids, q # p PROVE status'[q] = "KILLED" \/ AskedOf(q)'
        BY <3>4, <3>5, <3>9, <1>AskedAside, Zenon DEF AskedInv
      <3> QED
        BY <3>8, <3>9, Zenon DEF AskedInv
    <2> QED
      BY <2>4, <2>5, <2>6, Zenon
  (* recv finds no message: the timeout it sets is of this slice.            *)
  <1>RecieveWaitAsked.
        ASSUME IInv, OnceInv, AskedInv, NEW t \in Processors, RecieveWait(t)
        PROVE  AskedInv'
    <2> USE <1>RecieveWaitAsked
    <2> USE DEF IInv, TypeOK, ThreadTypes
    <2>1. pc[t] \in SlicePlaces \ {"yielded"}
      BY Zenon DEF RecieveWait, At, SlicePlaces
    <2>2. PICK p \in Pids : p = run[t] /\ status[p] \notin Asking
      BY <2>1, <1>SliceUnasked, Zenon
    <2>3. t \in Threads /\ Others(t) /\ pc'[t] \notin RespPlaces /\ arg' = arg
      BY Zenon DEF RecieveWait, Goto, Others, RespPlaces, Threads
    <2>4. /\ requests' = requests /\ tick' = tick /\ status'[p] = "RECV_WAIT"
          /\ \A q \in Pids : q # p => status'[q] = status[q]
          /\ timers' \in {timers, timers \cup {<<p, tick[p], tick[p]>>}}
      BY <2>2, Zenon DEF RecieveWait, NodeTypes
    <2>5. \A ev \in timers' : ev \in timers \/ (ev[1] = p /\ ev[2] = tick[p] /\ ev[3] = tick[p])
      BY <2>4
    <2>6. \A q \in Pids : q # p => NoneAdded(q)
      BY <2>3, <2>4, <2>5, <1>AnswersKept, Zenon DEF NoneAdded
    <2>7. Unasked(p)
      BY <2>2, <1>NotWaiting, Zenon
    <2>8. tick[p] \in Nat /\ tick[p] # TIMER /\ tick[p] <= tick[p]
      BY DEF NodeTypes, TIMER
    <2>9. AskedOf(p)'
      <3>1. \A r \in requests' : r[1] # p
        BY <2>4, <2>7, Zenon DEF Unasked
      <3>2. \A u \in Threads : ~Answers(u, p)'
        BY <2>3, <2>7, <1>AnswersKept, Zenon DEF Unasked
      <3>3. \A ev \in timers' : ev[1] = p =>
               /\ ev[2] # TIMER /\ ev[3] = ev[2] /\ ev[2] <= tick'[p]
        BY <2>4, <2>5, <2>7, <2>8, Zenon DEF Unasked
      <3> QED
        BY <2>4, <3>1, <3>2, <3>3, Zenon DEF AskedOf
    <2> QED
      BY <2>4, <2>6, <2>9, <1>AskedBut, Zenon
  (* A request, or a sleep: the only thing asked for the process.            *)
  <1>IntWaitAsked.
        ASSUME IInv, OnceInv, AskedInv, NEW t \in Processors,
               pc[t] # "requestTimeout", IntRequest(t) \/ IntTimer(t)
        PROVE  AskedInv'
    <2> USE <1>IntWaitAsked
    <2> USE DEF IInv, TypeOK, ThreadTypes
    <2>0. t \in Threads /\ pc[t] \notin {"signal", "requestTimeout"}
      BY Zenon DEF Threads, OnceInv, SignalInv
    <2>1. pc[t] \in SlicePlaces \ {"yielded"}
      BY Zenon DEF IntRequest, IntTimer, At, SlicePlaces
    <2>2. PICK p \in Pids : p = run[t] /\ status[p] \notin Asking
      BY <2>1, <1>SliceUnasked, Zenon
    <2>3. Others(t) /\ pc'[t] \notin RespPlaces /\ arg' = arg /\ tick' = tick
      BY <2>0, Zenon DEF IntRequest, IntTimer, Goto, Others, RespPlaces
    <2>4. /\ status'[p] = "INT_WAIT"
          /\ \A q \in Pids : q # p => status'[q] = status[q]
      BY <2>0, <2>2, Zenon DEF IntRequest, IntTimer, At, NodeTypes
    <2>5. Unasked(p)
      BY <2>2, <1>NotWaiting, Zenon
    <2>6. \A u \in Threads : ~Answers(u, p)'
      BY <2>0, <2>3, <2>5, <1>AnswersKept, Zenon DEF Unasked
    <2>7. ASSUME \A r \in requests' : r[1] # p => r \in requests,
                 \A ev \in timers' : ev[1] # p => ev \in timers
          PROVE  \A q \in Pids : q # p => status'[q] = "KILLED" \/ AskedOf(q)'
      <3>1. \A q \in Pids : q # p => NoneAdded(q)
        BY <2>0, <2>3, <2>7, <1>AnswersKept, Zenon DEF NoneAdded
      <3> QED
        BY <2>3, <2>4, <3>1, <1>AskedAside, Zenon DEF AskedInv
    <2>8. CASE IntRequest(t)
      <3>1. PICK n : requests' = requests \cup {<<p, tick[p], n>>}
        BY <2>2, <2>8, Zenon DEF IntRequest
      <3>2. timers' = timers
        BY <2>0, <2>8, Zenon DEF IntRequest
      <3>3. \A r \in requests' : r \in requests \/ r = <<p, tick[p], n>>
        BY <3>1, Zenon
      <3>4. <<p, tick[p], n>>[1] = p /\ <<p, tick[p], n>>[2] = tick[p]
        OBVIOUS
      <3>5. \A r \in requests' : r[1] = p => r = <<p, tick[p], n>> /\ r[2] = tick[p]
        BY <2>5, <3>3, <3>4, Zenon DEF Unasked
      <3>6. \A r \in requests' : r[1] # p => r \in requests
        BY <3>3, <3>4, Zenon
      <3>7. AskedOf(p)'
        BY <2>3, <2>4, <2>5, <2>6, <3>2, <3>5, Zenon DEF AskedOf, Unasked
      <3> QED
        BY <2>7, <3>2, <3>6, <3>7, Zenon DEF AskedInv
    <2>9. CASE IntTimer(t)
      <3>1. timers' = timers \cup {<<p, TIMER, tick[p]>>}
        BY <2>0, <2>2, <2>9, Zenon DEF IntTimer, At
      <3>2. requests' = requests
        BY <2>9, Zenon DEF IntTimer
      <3>3. \A ev \in timers' : ev \in timers \/ ev = <<p, TIMER, tick[p]>>
        BY <3>1, Zenon
      <3>4. /\ <<p, TIMER, tick[p]>>[1] = p /\ <<p, TIMER, tick[p]>>[2] = TIMER
            /\ <<p, TIMER, tick[p]>>[3] = tick[p]
        OBVIOUS
      <3>5. \A ev \in timers' : ev[1] = p /\ ev[2] = TIMER =>
               ev = <<p, TIMER, tick[p]>> /\ ev[3] = tick[p]
        BY <2>5, <3>3, <3>4, Zenon DEF Unasked
      <3>6. \A ev \in timers' : ev[1] = p /\ ev[2] # TIMER =>
               ev[3] = ev[2] /\ ev[2] <= tick[p] /\ ev[2] # tick[p]
        BY <2>5, <3>3, <3>4, Zenon DEF Unasked
      <3>7. \A ev \in timers' : ev[1] # p => ev \in timers
        BY <3>3, <3>4, Zenon
      <3>8. AskedOf(p)'
        BY <2>3, <2>4, <2>5, <2>6, <3>2, <3>5, <3>6, Zenon DEF AskedOf, Unasked
      <3> QED
        BY <2>7, <3>2, <3>7, <3>8, Zenon DEF AskedInv
    <2> QED
      BY <2>8, <2>9, Zenon
  (* A sender hands its message over: the receiver's timer may still be set. *)
  <1>SendHandOverAsked.
        ASSUME IInv, AskedInv, NEW t \in Threads, SendHandOver(t)
        PROVE  AskedInv'
    <2> USE <1>SendHandOverAsked
    <2> USE DEF IInv, TypeOK, ThreadTypes
    <2>1. AfterSend(t) \notin RespPlaces
      BY Zenon DEF AfterSend, Home, RespPlaces
    <2>2. Others(t) /\ pc'[t] \notin RespPlaces /\ arg' = arg
      BY <2>1, Zenon DEF SendHandOver, SendUnlock, Goto, Others
    <2>3. tick' = tick /\ requests' = requests /\ timers' = timers
      BY Zenon DEF SendHandOver
    <2>4. \A q \in Pids : NoneAdded(q)
      BY <2>2, <2>3, <1>AnswersKept, Zenon DEF NoneAdded
    <2>5. tgt[t] \in Pids
      BY Zenon DEF SendHandOver, At, WorkInv, Work, SendPlaces
    <2>6. PICK p \in Pids : p = tgt[t]
      BY <2>5, Zenon
    <2>7. /\ status[p] = "RECV_WAIT" /\ status'[p] = "RECV_RETURN"
          /\ \A q \in Pids : q # p => status'[q] = status[q]
      BY <2>6, Zenon DEF SendHandOver, NodeTypes
    <2>8. /\ \A r \in requests : r[1] # p
          /\ \A u \in Threads : ~Answers(u, p)
          /\ \A ev \in timers : ev[1] = p => /\ ev[2] # TIMER /\ ev[3] = ev[2]
                                             /\ ev[2] <= tick[p]
      BY <2>7, Zenon DEF AskedInv, AskedOf
    <2>9. AskedOf(p)'
      <3>1. \A u \in Threads : ~Answers(u, p)'
        BY <2>4, <2>8, Zenon DEF NoneAdded
      <3> QED
        BY <2>3, <2>7, <2>8, <3>1, Zenon DEF AskedOf
    <2> QED
      BY <2>3, <2>4, <2>7, <2>9, <1>AskedBut, Zenon
  (* The clock.  A timeout of recv that finds its tick and its process       *)
  (* waiting is the one timeout of this wait.                                *)
  <1>ClockAsked.
        ASSUME IInv, AskedInv, NEW ev \in timers, TimerSignal(ev) \/ SleepOver(ev)
        PROVE  AskedInv'
    <2> USE <1>ClockAsked
    <2> USE DEF IInv, TypeOK
    <2>1. PICK p \in Pids : p = ev[1]
      BY DEF BusTypes
    <2>2. /\ timers' = timers \ {ev} /\ requests' = requests /\ tick' = tick
          /\ arg' = arg /\ pc' = pc /\ tgt' = tgt
          /\ \A q \in Pids : q # p => status'[q] = status[q]
      BY <2>1, Zenon
         DEF TimerSignal, SleepOver, Response, Fire, Wake, threadVars, NodeTypes
    <2>3. \A q \in Pids : NoneAdded(q)
      BY <2>2, Zenon DEF NoneAdded, Answers
    <2>4. (status[p] = "KILLED" /\ status'[p] = "KILLED") \/ AskedOf(p)
      BY <2>1, Zenon
         DEF AskedInv, TimerSignal, SleepOver, Response, Wake, Waits, NodeTypes
    <2> SUFFICES ASSUME AskedOf(p) PROVE AskedInv'
      BY <2>2, <2>3, <2>4, <1>AskedBut, Zenon
    <2>5. CASE status'[p] = status[p] /\ TimerSignal(ev)
      <3>1. AskedOf(p)'
        BY <2>2, <2>3, <2>4, <2>5, <1>AskedAside, Zenon
      <3> QED
        BY <2>2, <2>3, <3>1, <1>AskedBut, Zenon
    <2>6. CASE status'[p] # status[p] /\ TimerSignal(ev)
      <3>1. ev[2] # TIMER /\ ev[2] = tick[p] /\ status[p] \in Waits
        BY <2>1, <2>6, Zenon DEF TimerSignal
      <3>2. status[p] = "RECV_WAIT" /\ ev[3] = ev[2]
        BY <2>1, <2>4, <3>1, Zenon DEF AskedOf, Waits
      <3>3. ASSUME NEW f \in timers', f[1] = p
            PROVE  f[2] # TIMER /\ f[3] = f[2] /\ f[2] <= tick[p] /\ f[2] # tick[p]
        <4>1. f \in timers /\ f # ev
          BY <2>2, Zenon
        <4>2. f[2] # TIMER /\ f[3] = f[2] /\ f[2] <= tick[p]
          BY <2>4, <3>2, <3>3, <4>1, Zenon DEF AskedOf
        <4>3. f = <<f[1], f[2], f[3]>> /\ ev = <<ev[1], ev[2], ev[3]>>
          BY <4>1 DEF BusTypes
        <4> QED
          BY <2>1, <3>1, <3>2, <3>3, <4>1, <4>2, <4>3, Zenon
      <3>4. \A r \in requests : r[1] # p
        BY <2>4, <3>2, Zenon DEF AskedOf
      <3>5. \A u \in Threads : ~Answers(u, p)
        BY <2>4, <3>2, Zenon DEF AskedOf
      <3>6. Unasked(p)'
        BY <2>2, <3>3, <3>4, <3>5, Zenon DEF Unasked, Answers
      <3>7. AskedOf(p)'
        BY <3>6, UnaskedIsFine, PTL
      <3> QED
        BY <2>2, <2>3, <3>7, <1>AskedBut, Zenon
    <2>7. CASE SleepOver(ev)
      <3>1. ev[2] = TIMER
        BY <2>7, Zenon DEF SleepOver
      <3>2. /\ status[p] = "INT_WAIT" /\ \A r \in requests : r[1] # p
            /\ \A f \in timers : f[1] = p /\ f[2] = TIMER => f = ev
        BY <2>1, <2>4, <3>1, Zenon DEF AskedOf
      <3>3. \A f \in timers' : f[1] = p =>
               f[2] # TIMER /\ f[3] = f[2] /\ f[2] <= tick[p] /\ f[2] # tick[p]
        BY <2>2, <2>4, <3>2, Zenon DEF AskedOf
      <3>4. \A u \in Threads : ~Answers(u, p)
        BY <2>1, <2>4, <3>1, Zenon DEF AskedOf
      <3>5. Unasked(p)'
        BY <2>2, <3>2, <3>3, <3>4, Zenon DEF Unasked, Answers
      <3>6. AskedOf(p)'
        BY <3>5, UnaskedIsFine, PTL
      <3> QED
        BY <2>2, <2>3, <3>6, <1>AskedBut, Zenon
    <2> QED
      BY <2>5, <2>6, <2>7, Zenon
  (* A signal is sent as a message: nothing is asked by it.                  *)
  <1>SignalAsked.
        ASSUME IInv, AskedInv, NEW ev \in timers, SendTimeoutMsg(ev)
        PROVE  AskedInv'
    <2> USE <1>SignalAsked
    <2> USE DEF IInv, TypeOK, ThreadTypes
    <2>1. AfterSend(Clock) \notin RespPlaces /\ Clock \in Threads
      BY Zenon DEF AfterSend, Home, RespPlaces, Threads
    <2>2. /\ timers' = timers \ {ev} /\ requests' = requests /\ tick' = tick
          /\ arg' = arg /\ status' = status
      BY Zenon DEF SendTimeoutMsg, Fire, procVars
    <2>3. Others(Clock) /\ pc'[Clock] \notin RespPlaces
      BY <2>1, Zenon DEF SendTimeoutMsg, SendLock, Goto, Others, RespPlaces
    <2>4. \A q \in Pids : NoneAdded(q)
      BY <2>1, <2>2, <2>3, <1>AnswersKept, Zenon DEF NoneAdded
    <2> QED
      BY <2>2, <2>4, <1>AskedAside, Zenon DEF AskedInv
  (* The devices.  Whoever answers has taken the only request there was.     *)
  <1>WriteDoneAsked.
        ASSUME IInv, AskedInv, NEW d, NEW r \in requests, WriteDone(d, r)
        PROVE  AskedInv'
    <2> USE <1>WriteDoneAsked
    <2> USE DEF IInv, TypeOK
    <2>1. PICK p \in Pids : p = r[1]
      BY DEF BusTypes
    <2>2. /\ requests' = requests \ {r} /\ timers' = timers /\ tick' = tick
          /\ arg' = arg /\ pc' = pc /\ tgt' = tgt
          /\ \A q \in Pids : q # p => status'[q] = status[q]
      BY <2>1, Zenon DEF WriteDone, Response, Wake, threadVars, NodeTypes
    <2>3. \A q \in Pids : NoneAdded(q)
      BY <2>2, Zenon DEF NoneAdded, Answers
    <2>4. (status[p] = "KILLED" /\ status'[p] = "KILLED") \/ AskedOf(p)
      BY <2>1, Zenon
         DEF AskedInv, WriteDone, Response, Wake, Waits, NodeTypes
    <2> SUFFICES ASSUME AskedOf(p) PROVE AskedInv'
      BY <2>2, <2>3, <2>4, <1>AskedBut, Zenon
    <2>5. /\ status[p] = "INT_WAIT" /\ \A s \in requests : s[1] = p => s = r
      BY <2>1, <2>4, Zenon DEF AskedOf
    <2>6. \A f \in timers : f[1] = p =>
             f[2] # TIMER /\ f[3] = f[2] /\ f[2] <= tick[p] /\ f[2] # tick[p]
      BY <2>1, <2>4, <2>5, Zenon DEF AskedOf
    <2>7. \A u \in Threads : ~Answers(u, p)
      BY <2>1, <2>4, Zenon DEF AskedOf
    <2>8. Unasked(p)'
      BY <2>2, <2>5, <2>6, <2>7, Zenon DEF Unasked, Answers
    <2>9. AskedOf(p)'
      BY <2>8, UnaskedIsFine, PTL
    <2> QED
      BY <2>2, <2>3, <2>9, <1>AskedBut, Zenon
  (* The request is taken, and its tick with it.                             *)
  <1>ResponseExTickAsked.
        ASSUME IInv, AskedInv, NEW d \in Devices, NEW r \in requests, ResponseExTick(d, r)
        PROVE  AskedInv'
    <2> USE <1>ResponseExTickAsked
    <2> USE DEF IInv, TypeOK, ThreadTypes
    <2>1. PICK p \in Pids : p = r[1]
      BY DEF BusTypes
    <2>2. /\ requests' = requests \ {r} /\ timers' = timers /\ tick' = tick
          /\ status' = status /\ d \in Threads /\ pc[d] \notin RespPlaces
      BY Zenon DEF ResponseExTick, At, procVars, Threads, RespPlaces
    <2>3. \A u \in Threads : u # d =>
             pc'[u] = pc[u] /\ tgt'[u] = tgt[u] /\ arg'[u] = arg[u]
      BY <2>2, Zenon DEF ResponseExTick, Goto
    <2>4. \/ pc'[d] = "respInt" /\ tgt'[d] = p /\ arg'[d] = tick[p]
          \/ pc'[d] = pc[d]
      BY <2>1, <2>2, Zenon DEF ResponseExTick, Goto
    <2>5. \A q \in Pids : q # p => NoneAdded(q)
      BY <2>2, <2>3, <2>4, Zenon DEF NoneAdded, Answers
    <2>6. (status[p] = "KILLED" /\ status'[p] = "KILLED") \/ AskedOf(p)
      BY <2>2, Zenon
         DEF AskedInv, Waits, NodeTypes
    <2> SUFFICES ASSUME AskedOf(p) PROVE AskedInv'
      BY <2>2, <2>5, <2>6, <1>AskedBut, Zenon
    <2>7. /\ status[p] = "INT_WAIT" /\ \A s \in requests : s[1] = p => s = r
      BY <2>1, <2>6, Zenon DEF AskedOf
    <2>8. \A f \in timers : f[1] = p =>
             f[2] # TIMER /\ f[3] = f[2] /\ f[2] <= tick[p] /\ f[2] # tick[p]
      BY <2>1, <2>6, <2>7, Zenon DEF AskedOf
    <2>9. \A u \in Threads : ~Answers(u, p)
      BY <2>1, <2>6, Zenon DEF AskedOf
    <2>10. AskedOf(p)'
      <3>1. \A s \in requests' : s[1] # p
        BY <2>2, <2>7, Zenon
      <3>2. \A u \in Threads : Answers(u, p)' => u = d /\ arg'[u] = tick[p]
        BY <2>2, <2>3, <2>4, <2>9, Zenon DEF Answers
      <3>3. \A u \in Threads : Answers(u, p)' => \A v \in Threads : Answers(v, p)' => v = u
        BY <3>2, Zenon
      <3> QED
        BY <2>2, <2>7, <2>8, <3>1, <3>2, <3>3, Zenon DEF AskedOf
    <2> QED
      BY <2>2, <2>5, <2>10, <1>AskedBut, Zenon
  (* The process is woken: nothing is asked any more.                        *)
  <1>ResponseExWakeAsked.
        ASSUME IInv, AskedInv, NEW d \in Devices, ResponseExWake(d)
        PROVE  AskedInv'
    <2> USE <1>ResponseExWakeAsked
    <2> USE DEF IInv, TypeOK, ThreadTypes
    <2>1. d \in Threads /\ pc[d] \in RespPlaces /\ tgt[d] \in Pids
      BY Zenon DEF ResponseExWake, At, Threads, WorkInv, Work, RespPlaces
    <2>2. PICK p \in Pids : p = tgt[d]
      BY <2>1, Zenon
    <2>3. /\ requests' = requests /\ timers' = timers /\ tick' = tick
          /\ pc'[d] \notin RespPlaces
          /\ \A q \in Pids : q # p => status'[q] = status[q]
          /\ \A u \in Threads : u # d =>
                pc'[u] = pc[u] /\ tgt'[u] = tgt[u] /\ arg'[u] = arg[u]
      BY <2>1, <2>2, Zenon DEF ResponseExWake, Wake, Goto, NodeTypes, RespPlaces
    <2>4. \A q \in Pids : NoneAdded(q)
      BY <2>3, Zenon DEF NoneAdded, Answers
    <2>0. (status[p] = "KILLED" /\ status'[p] = "KILLED") \/ AskedOf(p)
      BY <2>2, Zenon DEF AskedInv, ResponseExWake, Waits
    <2> SUFFICES ASSUME AskedOf(p) PROVE AskedInv'
      BY <2>0, <2>3, <2>4, <1>AskedBut, Zenon
    <2>5. Answers(d, p)
      BY <2>1, <2>2, Zenon DEF Answers
    <2>6. /\ status[p] = "INT_WAIT" /\ \A s \in requests : s[1] # p
          /\ \A u \in Threads : Answers(u, p) => u = d
      BY <2>1, <2>5, Zenon DEF AskedOf
    <2>7. \A f \in timers : f[1] = p =>
             f[2] # TIMER /\ f[3] = f[2] /\ f[2] <= tick[p] /\ f[2] # tick[p]
      BY <2>1, <2>5, <2>6, Zenon DEF AskedOf
    <2>8. \A u \in Threads : ~Answers(u, p)'
      BY <2>3, <2>4, <2>6, Zenon DEF NoneAdded, Answers
    <2>9. Unasked(p)'
      BY <2>3, <2>6, <2>7, <2>8, Zenon DEF Unasked
    <2>10. AskedOf(p)'
      BY <2>9, UnaskedIsFine, PTL
    <2> QED
      BY <2>3, <2>4, <2>10, <1>AskedBut, Zenon
  <1> SUFFICES ASSUME IInv, OnceInv, AskedInv,
                      \A t \in Threads : pc[t] # "requestTimeout", [Next]_vars
               PROVE  AskedInv'
    OBVIOUS
  <1>1. CASE UNCHANGED vars
    <2>1. \A p \in Pids : NoneAdded(p) /\ status'[p] = status[p] /\ tick'[p] = tick[p]
      BY <1>1, Zenon DEF vars, procVars, busVars, threadVars, NoneAdded, Answers
    <2> QED
      BY <2>1, <1>AskedAside, Zenon DEF AskedInv
  <1>2. ASSUME NEW t \in Threads, Sending(t) PROVE AskedInv'
    BY <1>2, <1>SendHandOverAsked, <1>QuietAsked, Zenon DEF Sending
  <1>3. ASSUME NEW t \in Processors, Processor(t) PROVE AskedInv'
    <2>1. t \in Threads
      BY Zenon DEF Threads
    <2>2. CASE GetTask(t) \/ AfterResume(t)
      BY <2>1, <2>2, <1>QuietAsked, Zenon
    <2>3. CASE Resume(t) \/ ResumeYielded(t) \/ ResumeReturned(t)
      BY <2>3, <1>SliceAsked, Zenon
    <2>4. CASE Slice(t)
      BY <2>1, <2>4, <1>QuietAsked, <1>SliceAsked, <1>RecieveWaitAsked, <1>IntWaitAsked, Zenon
         DEF Slice
    <2>5. CASE Destroy(t)
      BY <2>1, <2>5, <1>QuietAsked, Zenon DEF Destroy
    <2> QED
      BY <1>2, <1>3, <2>1, <2>2, <2>3, <2>4, <2>5, Zenon DEF Processor
  <1>4. Clock \in Threads /\ Devices \subseteq Threads
    BY Zenon DEF Threads
  <1>5. CASE ClockStep
    <2>1. ASSUME NEW ev \in timers, SendTimeoutMsg(ev) PROVE AskedInv'
      BY <2>1, <1>SignalAsked, Zenon
    <2> QED
      BY <1>2, <1>4, <1>5, <2>1, <1>ClockAsked, Zenon DEF ClockStep
  <1>6. ASSUME NEW d \in Devices, DeviceStep(d) PROVE AskedInv'
    BY <1>2, <1>4, <1>6, <1>QuietAsked, <1>WriteDoneAsked, <1>ResponseExTickAsked,
       <1>ResponseExWakeAsked, Zenon DEF DeviceStep
  <1> QED
    BY <1>1, <1>3, <1>5, <1>6, Zenon DEF Next

(* Only a request with a timeout is made as one.                           *)
LEMMA UntimedKept ==
    ASSUME "requestTimeout" \notin Calls, IInv, [Next]_vars,
           \A t \in Threads : pc[t] # "requestTimeout"
    PROVE  \A t \in Threads : pc'[t] # "requestTimeout"
  <1> USE DEF IInv, TypeOK, ThreadTypes, Goto
  <1>1. ASSUME NEW t, NEW l, l # "requestTimeout", pc' = [pc EXCEPT ![t] = l]
        PROVE  \A u \in Threads : pc'[u] # "requestTimeout"
    BY <1>1, Zenon
  <1>2. ASSUME NEW t, \E q : SendLock(t, q)
        PROVE  \A u \in Threads : pc'[u] # "requestTimeout"
    BY <1>1, <1>2, Zenon DEF SendLock, AfterSend, Home
  <1>3. ASSUME NEW t, Sending(t) PROVE \A u \in Threads : pc'[u] # "requestTimeout"
    BY <1>1, <1>3, Zenon
       DEF Sending, SendHandOver, SendTest, SendPut, SendUnlock, AfterSend, Home
  <1>4. ASSUME NEW t \in Processors, Processor(t)
        PROVE  \A u \in Threads : pc'[u] # "requestTimeout"
    <2>1. ASSUME Slice(t) PROVE \A u \in Threads : pc'[u] # "requestTimeout"
      <3>1. CASE Send(t)
        BY <1>2, <3>1, Zenon DEF Send
      <3>2. CASE Spawn(t)
        BY <3>2, Zenon DEF Spawn, threadVars
      <3>3. ASSUME NEW c, Interrupt(t, c)
            PROVE  \A u \in Threads : pc'[u] # "requestTimeout"
        BY <1>1, <3>3, Zenon DEF Interrupt, Call
      <3> QED
        BY <1>1, <2>1, <3>1, <3>2, <3>3, Zenon
           DEF Slice, Kill, Recieve, RecieveMsg, RecieveWait, IntReturn, IntRequest,
               IntTimer
    <2>2. ASSUME Destroy(t) PROVE \A u \in Threads : pc'[u] # "requestTimeout"
      <3>1. CASE SendExitMsg(t)
        BY <1>2, <3>1, Zenon DEF SendExitMsg
      <3> QED
        BY <1>1, <2>2, <3>1, Zenon
           DEF Destroy, DestroyTest, SetKilled, WriteLock, Unmap, Delete, DestroyDone
    <2> QED
      BY <1>1, <1>3, <1>4, <2>1, <2>2, Zenon
         DEF Processor, GetTask, Resume, ResumeYielded, ResumeReturned, AfterResume
  <1>5. ASSUME NEW ev, TimerSignal(ev) \/ SleepOver(ev) \/ SendTimeoutMsg(ev)
        PROVE  \A u \in Threads : pc'[u] # "requestTimeout"
    BY <1>2, <1>5, Zenon DEF TimerSignal, SleepOver, Response, SendTimeoutMsg, threadVars
  <1>6. ASSUME NEW d, DeviceStep(d) PROVE \A u \in Threads : pc'[u] # "requestTimeout"
    <2>1. CASE DeviceSend(d)
      BY <1>2, <2>1, Zenon DEF DeviceSend
    <2> QED
      BY <1>1, <1>3, <1>6, <2>1, Zenon
         DEF DeviceStep, ResponseExTick, WriteDone, Response, ResponseExInt,
             ResponseExWake, threadVars
  <1>7. CASE UNCHANGED vars
    BY <1>7, Zenon DEF vars, threadVars
  <1> QED
    BY <1>3, <1>4, <1>5, <1>6, <1>7, Zenon DEF Next, ClockStep

(* The invariant holds in every reachable state.                           *)
LEMMA AskedInvariance ==
    ASSUME Calls \cap {"signal", "requestTimeout"} = {}
    PROVE  Spec => [](IInv /\ OnceInv /\ AskedInv)
  <1> DEFINE Untimed == \A t \in Threads : pc[t] # "requestTimeout"
  <1>1. Init => AskedInv /\ Untimed
    <2> SUFFICES ASSUME Init PROVE AskedInv /\ Untimed
      OBVIOUS
    <2>1. \A t \in Threads : pc[t] \in {"get", "idle"}
      BY Zenon DEF Init, Home
    <2> QED
      BY <2>1, Zenon DEF Init, AskedInv, AskedOf, Answers, RespPlaces
  <1>2. IInv /\ OnceInv /\ AskedInv /\ Untimed /\ [Next]_vars => AskedInv'
    BY AskedKeeps
  <1>3. IInv /\ Untimed /\ [Next]_vars => Untimed'
    BY UntimedKept
  <1>4. "signal" \notin Calls
    OBVIOUS
  <1> HIDE DEF Untimed
  <1> QED
    BY <1>1, <1>2, <1>3, <1>4, OnceInvariance, PTL DEF Spec

-----------------------------------------------------------------------------
(* Where no program calls signal or kills a process.                       *)

(* What PlainInv says of a thread and of a process.                        *)
PlainStep(t) ==
    /\ pc'[t] \notin {"setKilled", "signal"}
    /\ victim'[t] # Nil => run'[t] = Nil
    /\ killed' = killed
    /\ \A p \in Pids : status'[p] = status[p] \/ status'[p] \notin {"YIELD", "KILLED"}
    /\ \A ev \in timers' : ev \in timers \/ ev[2] # SIGNAL

-----------------------------------------------------------------------------
(* The invariant of nodes whose programs neither kill nor signal.          *)
PlainIInv == IInv /\ PlainInv /\ SchedInv

(* The first process is in the queue.                                      *)
LEMMA PlainInit == Init => PlainIInv
  <1> SUFFICES ASSUME Init PROVE PlainIInv
    OBVIOUS
  <1> USE ProcessAssumption
  <1>1. \A t \in Threads : /\ pc[t] \in {"get", "idle"} /\ run[t] = Nil
                           /\ victim[t] = Nil /\ Held(t) = Nil
    BY Zenon DEF Init, Home, Held
  <1>2. PlainInv
    BY <1>1, Zenon DEF Init, PlainInv
  <1>4. ReadyOnce /\ \A p \in Pids : InReady(p) => p = Main
    BY DEF Init, ReadyOnce, InReady
  <1>5. \A p \in Pids : SchedOf(p)
    BY <1>1, <1>4, Zenon DEF Init, SchedOf, Waits
  <1> QED
    BY <1>2, <1>4, <1>5, InitHolds, Zenon DEF PlainIInv, SchedInv

(* Every step keeps it.                                                    *)
LEMMA PlainKeeps ==
    ASSUME Calls \cap {"kill", "signal"} = {}
    PROVE  PlainIInv /\ [Next]_vars => PlainIInv'
  (* A process that t neither has nor gets, and that the step leaves alone.  *)
  <1>SchedAside.
        ASSUME NEW t \in Threads, Others(t), NEW p \in Pids, SchedOf(p),
               Held(t) # p, Held(t)' # p,
               status'[p] = status[p], node'[p] = node[p], InReady(p)' <=> InReady(p)
        PROVE  SchedOf(p)'
    <2> USE <1>SchedAside
    <2>1. \A u \in Threads : Held(u)' = p <=> Held(u) = p
      BY Zenon DEF Others, Held
    <2>2. \A u \in Threads : Held(u) = p => pc'[u] = pc[u] /\ victim'[u] = victim[u]
      BY Zenon DEF Others
    <2> QED
      BY <2>1, <2>2, Zenon DEF SchedOf
  (* The process that t has, before and after the step.                      *)
  <1>SchedHeld.
        ASSUME IInv, NEW t \in Threads, Others(t), NEW p \in Pids, SchedOf(p),
               Held(t) = p, Held(t)' = p,
               InReady(p)' <=> InReady(p),
               node'[p] \in {"mapped", "unmapped"},
               node'[p] = "unmapped" => status'[p] = "STOPED",
               status'[p] \in Waits <=> pc'[t] = "yielded",
               status'[p] = "STOPED" <=> victim'[t] # Nil
        PROVE  SchedOf(p)'
    <2> USE <1>SchedHeld
    <2>1. \A u \in Threads : Held(u) = p => u = t
      BY Zenon DEF SchedOf
    <2>2. \A u \in Threads : Held(u)' = p => u = t
      BY <2>1, Zenon DEF Others, Held
    <2>3. ~InReady(p)
      BY Zenon DEF SchedOf
    <2> QED
      BY <2>2, <2>3, Zenon DEF SchedOf
  (* The process that t lets go, which waits or is over.                     *)
  <1>SchedLeft.
        ASSUME IInv, NEW t \in Threads, Others(t), NEW p \in Pids, SchedOf(p),
               Held(t) = p, Held(t)' # p,
               InReady(p)' <=> InReady(p), status'[p] = status[p],
               status[p] \in Waits \cup {"STOPED"},
               node'[p] = node[p] \/ (status[p] = "STOPED" /\ node'[p] = "freed")
        PROVE  SchedOf(p)'
    <2> USE <1>SchedLeft
    <2>1. \A u \in Threads : Held(u) = p => u = t
      BY Zenon DEF SchedOf
    <2>2. \A u \in Threads : Held(u)' # p
      BY <2>1, Zenon DEF Others, Held
    <2>3. ~InReady(p) /\ node[p] \in {"mapped", "unmapped"}
      BY Zenon DEF SchedOf
    <2> QED
      BY <2>2, <2>3, Zenon DEF SchedOf
  (* A process that no thread has is put into the ready queue.               *)
  <1>SchedPut.
        ASSUME IInv, NEW t \in Threads, Others(t), NEW p \in Pids,
               \A u \in Threads : Held(u) # p,
               Held(t)' # p, InReady(p)',
               node'[p] = "mapped", status'[p] \notin Waits \cup {"STOPED"}
        PROVE  SchedOf(p)'
    <2> USE <1>SchedPut
    <2>1. \A u \in Threads : Held(u)' # p
      BY Zenon DEF Others, Held
    <2> QED
      BY <2>1, Zenon DEF SchedOf
  (* A step that touches neither the queue nor the state of a process.       *)
  <1>SchedKept.
        ASSUME IInv, SchedInv, NEW t \in Threads, Others(t),
               Held(t)' = Held(t), ready' = ready, status' = status, node' = node,
               pc'[t] = "yielded" <=> pc[t] = "yielded",
               victim'[t] # Nil <=> victim[t] # Nil
        PROVE  SchedInv'
    <2> USE <1>SchedKept
    <2>1. (\A q : InReady(q)' <=> InReady(q)) /\ (ReadyOnce' <=> ReadyOnce)
      BY InReadySame
    <2>2. ASSUME NEW p \in Pids PROVE SchedOf(p)'
      <3>1. CASE Held(t) = p
        <4>1. /\ node[p] \in {"mapped", "unmapped"}
              /\ node[p] = "unmapped" => status[p] = "STOPED"
              /\ status[p] \in Waits <=> pc[t] = "yielded"
              /\ status[p] = "STOPED" <=> victim[t] # Nil
          BY <3>1, Zenon DEF SchedInv, SchedOf
        <4> QED
          BY <2>1, <3>1, <4>1, <1>SchedHeld, Zenon DEF SchedInv
      <3>2. CASE Held(t) # p
        BY <2>1, <3>2, <1>SchedAside, Zenon DEF SchedInv
      <3> QED
        BY <3>1, <3>2, Zenon
    <2> QED
      BY <2>1, <2>2, Zenon DEF SchedInv
  (* A step that changes the state of the process that t runs.               *)
  <1>SchedMoves.
        ASSUME IInv, SchedInv, NEW t \in Threads, Others(t), NEW p \in Pids,
               Held(t) = p, Held(t)' = p, victim[t] = Nil,
               \A q \in Pids : q # p => status'[q] = status[q],
               status'[p] \in Waits <=> pc'[t] = "yielded",
               status'[p] = "STOPED" <=> victim'[t] # Nil,
               ready' = ready, node' = node
        PROVE  SchedInv'
    <2> USE <1>SchedMoves
    <2>1. (\A q : InReady(q)' <=> InReady(q)) /\ (ReadyOnce' <=> ReadyOnce)
      BY InReadySame
    <2>2. node[p] = "mapped"
      BY Zenon DEF SchedInv, SchedOf
    <2>3. ASSUME NEW q \in Pids PROVE SchedOf(q)'
      <3>1. CASE q = p
        BY <2>1, <2>2, <3>1, <1>SchedHeld, Zenon DEF SchedInv
      <3>2. CASE q # p
        BY <2>1, <3>2, <1>SchedAside, Zenon DEF SchedInv
      <3> QED
        BY <3>1, <3>2, Zenon
    <2> QED
      BY <2>1, <2>3, Zenon DEF SchedInv
  (* A step by which t lets a process go.                                    *)
  <1>SchedReleases.
        ASSUME IInv, SchedInv, NEW t \in Threads, Others(t), NEW p \in Pids,
               Held(t) = p, Held(t)' = Nil, status' = status, ready' = ready,
               status[p] \in Waits \cup {"STOPED"},
               \A q \in Pids : q # p => node'[q] = node[q],
               node'[p] = node[p] \/ (status[p] = "STOPED" /\ node'[p] = "freed")
        PROVE  SchedInv'
    <2> USE <1>SchedReleases
    <2>1. (\A q : InReady(q)' <=> InReady(q)) /\ (ReadyOnce' <=> ReadyOnce)
      BY InReadySame
    <2>2. \A q \in Pids : q # Nil
      BY ProcessAssumption
    <2>3. ASSUME NEW q \in Pids PROVE SchedOf(q)'
      <3>1. CASE q = p
        BY <2>1, <2>2, <3>1, <1>SchedLeft, Zenon DEF SchedInv
      <3>2. CASE q # p
        BY <2>1, <2>2, <3>2, <1>SchedAside, Zenon DEF SchedInv
      <3> QED
        BY <3>1, <3>2, Zenon
    <2> QED
      BY <2>1, <2>3, Zenon DEF SchedInv
  (* A step by which a process that waits, and no thread has, is put into    *)
  (* the ready queue.                                                        *)
  <1>SchedWakes.
        ASSUME IInv, SchedInv, NEW t \in Threads, Others(t), NEW p \in Pids,
               \A u \in Threads : Held(u) # p,
               Held(t)' = Held(t), node' = node, node[p] = "mapped",
               ready' = Append(ready, p),
               status[p] \in Waits, status'[p] \in {"RECV_RETURN", "INT_RESP"},
               \A q \in Pids : q # p => status'[q] = status[q],
               pc'[t] = "yielded" <=> pc[t] = "yielded",
               victim'[t] # Nil <=> victim[t] # Nil
        PROVE  SchedInv'
    <2> USE <1>SchedWakes
    <2>1. ready \in Seq(Pids) /\ ~InReady(p)
      BY Zenon DEF IInv, TypeOK, BusTypes, SchedInv, SchedOf
    <2>2. (\A q : InReady(q)' <=> InReady(q) \/ q = p) /\ ReadyOnce'
      BY <2>1, ReadyAppend, Zenon DEF SchedInv
    <2>3. ASSUME NEW q \in Pids PROVE SchedOf(q)'
      <3>1. CASE q = p
        BY <2>2, <3>1, <1>SchedPut, Zenon DEF Waits
      <3>2. CASE q # p /\ Held(t) = q
        <4>1. /\ node[q] \in {"mapped", "unmapped"}
              /\ node[q] = "unmapped" => status[q] = "STOPED"
              /\ status[q] \in Waits <=> pc[t] = "yielded"
              /\ status[q] = "STOPED" <=> victim[t] # Nil
          <5>1. SchedOf(q)
            BY Zenon DEF SchedInv
          <5> QED
            BY <3>2, <5>1, Zenon DEF SchedOf
        <4>2. SchedOf(q) /\ (InReady(q)' <=> InReady(q)) /\ status'[q] = status[q]
          BY <2>2, <3>2, Zenon DEF SchedInv
        <4> QED
          BY <3>2, <4>1, <4>2, <1>SchedHeld, Zenon
      <3>3. CASE q # p /\ Held(t) # q
        BY <2>2, <3>3, <1>SchedAside, Zenon DEF SchedInv
      <3> QED
        BY <3>1, <3>2, <3>3, Zenon
    <2> QED
      BY <2>2, <2>3, Zenon DEF SchedInv
  (* A step in which t goes from one place to another, with what it has.     *)
  <1>SchedStays.
        ASSUME IInv, SchedInv, NEW t \in Threads, Others(t),
               run' = run, victim' = victim,
               ready' = ready, status' = status, node' = node,
               pc[t] \notin {"after", "yielded"}, pc'[t] \notin {"after", "yielded"}
        PROVE  SchedInv'
    <2> USE <1>SchedStays
    <2>1. Held(t)' = Held(t)
      BY Zenon DEF Held
    <2> QED
      BY <2>1, <1>SchedKept, Zenon
  (* The first half of a send changes nothing that is scheduled.             *)
  <1>SendLockSched.
        ASSUME IInv, SchedInv, NEW t \in Threads, NEW q, SendLock(t, q),
               pc[t] \in {"slice", "exitMsg", "idle"},
               run' = run, victim' = victim,
               ready' = ready, status' = status, node' = node
        PROVE  SchedInv'
    <2> USE <1>SendLockSched
    <2>1. Others(t) /\ pc'[t] \in {"send", AfterSend(t)}
      BY Zenon DEF SendLock, Goto, Others, IInv, TypeOK, ThreadTypes
    <2>2. AfterSend(t) \in {"unlink", "slice", "get", "idle"}
      BY Zenon DEF AfterSend, Home
    <2> QED
      BY <2>1, <2>2, <1>SchedStays, Zenon
  (* The steps of a send that find no waiting receiver, of a receive that    *)
  (* finds a message, of an answer before it wakes, and of Destory before it *)
  (* changes the map, leave the schedule alone.                              *)
  <1>QuietSched.
        ASSUME IInv, SchedInv, NEW t \in Threads,
               \/ Send(t) \/ SendTest(t) \/ SendPut(t) \/ DeviceSend(t)
               \/ \E c \in {"recv", "recvTimeout"} : Recieve(t, c)
               \/ RecieveMsg(t) \/ WriteLock(t) \/ SendExitMsg(t)
               \/ ResponseExInt(t) \/ \E r \in requests : ResponseExTick(t, r)
        PROVE  SchedInv'
    <2> USE <1>QuietSched
    <2> USE DEF IInv, TypeOK, ThreadTypes
    <2>1. CASE Send(t)
      <3>1. PICK q \in Pids : SendLock(t, q)
        BY <2>1, Zenon DEF Send
      <3> QED
        BY <2>1, <3>1, <1>SendLockSched, Zenon DEF Send, Call, At, busVars
    <2>2. CASE DeviceSend(t)
      <3>1. PICK q \in Pids : SendLock(t, q)
        BY <2>2, Zenon DEF DeviceSend
      <3> QED
        BY <2>2, <3>1, <1>SendLockSched, Zenon DEF DeviceSend, At, busVars
    <2>3. CASE SendExitMsg(t)
      <3>1. PICK q : SendLock(t, q)
        BY <2>3, Zenon DEF SendExitMsg
      <3> QED
        BY <2>3, <3>1, <1>SendLockSched, Zenon DEF SendExitMsg, At, busVars, procVars
    <2>4. CASE SendTest(t)
      <3>1. Others(t) /\ pc[t] = "send" /\ pc'[t] = "put"
        BY <2>4, Zenon DEF SendTest, At, Goto, Others
      <3> QED
        BY <2>4, <3>1, <1>SchedStays, Zenon DEF SendTest, busVars, procVars
    <2>5. CASE SendPut(t)
      <3>1. Others(t) /\ pc[t] = "put" /\ pc'[t] = AfterSend(t)
        BY <2>5, Zenon DEF SendPut, SendUnlock, At, Goto, Others
      <3>2. AfterSend(t) \in {"unlink", "slice", "get", "idle"}
        BY Zenon DEF AfterSend, Home
      <3> QED
        BY <2>5, <3>1, <3>2, <1>SchedStays, Zenon DEF SendPut, busVars
    <2>6. ASSUME NEW c \in {"recv", "recvTimeout"}, Recieve(t, c) PROVE SchedInv'
      <3>1. Others(t) /\ pc[t] = "slice" /\ pc'[t] = c
        BY <2>6, Zenon DEF Recieve, Call, At, Goto, Others
      <3> QED
        BY <2>6, <3>1, <1>SchedStays, Zenon DEF Recieve, busVars
    <2>7. CASE RecieveMsg(t)
      <3>1. Others(t) /\ pc[t] \in {"recv", "recvTimeout"} /\ pc'[t] = "slice"
        BY <2>7, Zenon DEF RecieveMsg, At, Goto, Others
      <3> QED
        BY <2>7, <3>1, <1>SchedStays, Zenon DEF RecieveMsg, busVars
    <2>8. CASE WriteLock(t)
      <3>1. Others(t) /\ pc[t] = "unlink" /\ pc'[t] = "unmap"
        BY <2>8, Zenon DEF WriteLock, At, Goto, Others
      <3> QED
        BY <2>8, <3>1, <1>SchedStays, Zenon DEF WriteLock, busVars, procVars
    <2>9. CASE ResponseExInt(t)
      <3>1. Others(t) /\ pc[t] = "respInt" /\ pc'[t] = "respLock"
        BY <2>9, Zenon DEF ResponseExInt, At, Goto, Others
      <3> QED
        BY <2>9, <3>1, <1>SchedStays, Zenon DEF ResponseExInt, busVars, procVars
    <2>10. ASSUME NEW r \in requests, ResponseExTick(t, r) PROVE SchedInv'
      <3>1. Others(t) /\ pc[t] = "idle" /\ pc'[t] \in {"idle", "respInt"}
        BY <2>10, Zenon DEF ResponseExTick, At, Goto, Others
      <3> QED
        BY <2>10, <3>1, <1>SchedStays, Zenon DEF ResponseExTick, busVars, procVars
    <2> QED
      BY <2>1, <2>2, <2>3, <2>4, <2>5, <2>6, <2>7, <2>8, <2>9, <2>10, Zenon
  (* The calls that change the state of the process in its slice.            *)
  <1>SliceSched.
        ASSUME IInv, PlainInv, SchedInv, NEW t \in Processors,
               \/ Resume(t) \/ RecieveWait(t) \/ IntReturn(t) \/ IntRequest(t)
               \/ IntTimer(t) \/ ResumeReturned(t)
               \/ \E c \in {"request", "requestTimeout", "write", "return", "sleep",
                            "signal"} : Interrupt(t, c)
        PROVE  SchedInv'
    <2> USE <1>SliceSched
    <2> USE DEF IInv, TypeOK, ThreadTypes
    <2>1. /\ t \in Threads /\ pc[t] \in {"resume"} \cup (SlicePlaces \ {"yielded"})
          /\ pc[t] # "after"
      BY Zenon DEF Threads, Resume, RecieveWait, IntReturn, IntRequest, IntTimer,
             ResumeReturned, Interrupt, Call, At, SlicePlaces
    <2>2. run[t] \in Pids /\ victim[t] = Nil /\ Held(t) = run[t]
      BY <2>1, Zenon DEF WorkInv, Work, Held
    <2>3. Others(t)
      BY <2>1, Zenon
         DEF Resume, RecieveWait, IntReturn, IntRequest, IntTimer, ResumeReturned,
             Interrupt, Goto, Others
    <2>4. status \in [Pids -> States]
      BY Zenon DEF NodeTypes
    <2>5. ready' = ready /\ node' = node
      BY Zenon
         DEF Resume, RecieveWait, IntReturn, IntRequest, IntTimer, ResumeReturned,
             Interrupt, busVars
    <2>6. \A q \in Pids : q # run[t] => status'[q] = status[q]
      BY <2>2, <2>4, Zenon
         DEF Resume, RecieveWait, IntReturn, IntRequest, IntTimer, ResumeReturned,
             Interrupt
    <2>7. Held(t)' = run[t]
      BY <2>1, <2>2, ProcessAssumption, Zenon
         DEF Resume, RecieveWait, IntReturn, IntRequest, IntTimer, ResumeReturned,
             Interrupt, Goto, Held
    <2>8. /\ status'[run[t]] \in Waits <=> pc'[t] = "yielded"
          /\ status'[run[t]] = "STOPED" <=> victim'[t] # Nil
      <3>1. CASE Resume(t)
        BY <2>1, <2>2, <2>4, <3>1, Zenon DEF Resume, Goto, Waits
      <3>2. CASE RecieveWait(t)
        BY <2>1, <2>2, <2>4, <3>2, Zenon DEF RecieveWait, Goto, Waits
      <3>3. CASE IntReturn(t)
        BY <2>1, <2>2, <2>4, <3>3, Zenon DEF IntReturn, Goto, Waits
      <3>4. CASE IntRequest(t)
        BY <2>1, <2>2, <2>4, <3>4, Zenon DEF IntRequest, Goto, Waits
      <3>5. CASE IntTimer(t)
        BY <2>1, <2>2, <2>4, <3>5, Zenon DEF IntTimer, At, Goto, Waits, PlainInv
      <3>6. CASE ResumeReturned(t)
        BY <2>1, <2>2, <2>4, <3>6, ProcessAssumption, Zenon
           DEF ResumeReturned, Goto, Waits, PlainInv
      <3>7. ASSUME NEW c \in {"request", "requestTimeout", "write", "return",
                              "sleep", "signal"}, Interrupt(t, c)
            PROVE  /\ status'[run[t]] \in Waits <=> pc'[t] = "yielded"
                   /\ status'[run[t]] = "STOPED" <=> victim'[t] # Nil
        BY <2>1, <2>2, <2>4, <3>7, Zenon DEF Interrupt, Goto, Waits
      <3> QED
        BY <3>1, <3>2, <3>3, <3>4, <3>5, <3>6, <3>7, Zenon
    <2> QED
      BY <2>1, <2>2, <2>3, <2>5, <2>6, <2>7, <2>8, <1>SchedMoves, Zenon
  (* While its _IntLock is not a processor's, no thread has a process that   *)
  (* waits.                                                                  *)
  <1>WaiterIsFree.
        ASSUME IInv, SchedInv, NEW p \in Pids, status[p] \in Waits,
               intLock[p] \notin Processors
        PROVE  \A u \in Threads : Held(u) # p
    <2> USE <1>WaiterIsFree
    <2> SUFFICES ASSUME NEW u \in Threads, Held(u) = p PROVE FALSE
      OBVIOUS
    <2>1. SchedOf(p) /\ status[p] # "STOPED"
      BY Zenon DEF SchedInv, Waits
    <2>2. pc[u] = "yielded" /\ victim[u] = Nil
      BY <2>1, Zenon DEF SchedOf
    <2>3. run[u] = p /\ IntLockOf(u) = p
      BY <2>2, Zenon DEF Held, IntLockOf
    <2>4. intLock[p] = u
      BY <2>3, Zenon DEF IInv, IntLockInv
    <2>5. u \in Processors
      BY <2>2, Zenon DEF IInv, WorkInv, Work, SendPlaces, RespPlaces
    <2> QED
      BY <2>4, <2>5, Zenon
  (* The processor takes the first process of the queue.                     *)
  <1>GetTaskSched.
        ASSUME IInv, SchedInv, NEW t \in Processors, GetTask(t)
        PROVE  SchedInv'
    <2> USE <1>GetTaskSched
    <2> USE DEF IInv, TypeOK, ThreadTypes
    <2>0. PICK p \in Pids : p = Head(ready)
      <3>1. ready \in Seq(Pids) /\ ready # <<>>
        BY Zenon DEF GetTask, BusTypes
      <3> QED
        BY <3>1, HeadIsIn, Zenon
    <2>1. /\ t \in Threads /\ Others(t) /\ pc'[t] = "resume" /\ run'[t] = p
          /\ victim'[t] = Nil /\ Held(t) = Nil
      BY <2>0, Zenon DEF Threads, GetTask, At, Goto, Others, WorkInv, Work, Held
    <2>2. /\ InReady(p) /\ ReadyOnce'
          /\ \A q : InReady(q)' <=> InReady(q) /\ q # p
      BY <2>0, ReadyTail, Zenon DEF GetTask, BusTypes, SchedInv
    <2>3. Held(t)' = p /\ p # Nil /\ status' = status /\ node' = node
      BY <2>1, <2>2, ProcessAssumption, Zenon DEF Held, GetTask, procVars
    <2>4. SchedOf(p)'
      <3>1. SchedOf(p)
        BY <2>2, Zenon DEF SchedInv
      <3>2. \A u \in Threads : Held(u) # p
        BY <2>2, <3>1, Zenon DEF SchedOf
      <3>3. \A u \in Threads : Held(u)' = p => u = t
        BY <3>2, <2>1, Zenon DEF Others, Held
      <3>4. node[p] = "mapped" /\ status[p] \notin Waits \cup {"STOPED"}
        BY <2>2, <3>1, Zenon DEF SchedOf
      <3>5. ~InReady(p)'
        BY <2>2, Zenon
      <3> QED
        BY <2>1, <2>3, <3>3, <3>4, <3>5, Zenon DEF SchedOf
    <2>5. ASSUME NEW q \in Pids, q # p PROVE SchedOf(q)'
      BY <2>1, <2>2, <2>3, <2>5, ProcessAssumption, <1>SchedAside, Zenon DEF SchedInv
    <2> QED
      BY <2>2, <2>4, <2>5, Zenon DEF SchedInv
  (* A slice that ends in a wait leaves the process to whoever wakes it.     *)
  <1>ResumeYieldedSched.
        ASSUME IInv, PlainInv, SchedInv, NEW t \in Processors, ResumeYielded(t)
        PROVE  SchedInv'
    <2> USE <1>ResumeYieldedSched
    <2> USE DEF IInv, TypeOK, ThreadTypes
    <2>1. t \in Threads /\ pc[t] = "yielded" /\ victim[t] = Nil /\ run[t] \in Pids
      BY Zenon DEF Threads, ResumeYielded, At, WorkInv, Work, SlicePlaces
    <2>2. PICK p \in Pids : p = run[t]
      BY <2>1, Zenon
    <2>3. Held(t) = p /\ SchedOf(p) /\ ~killed[p]
      BY <2>1, <2>2, Zenon DEF Held, SchedInv, PlainInv
    <2>4. status[p] \in Waits
      BY <2>1, <2>3, Zenon DEF SchedOf
    <2>5. /\ Others(t) /\ pc'[t] = "after" /\ victim'[t] = Nil
          /\ status' = status /\ ready' = ready /\ node' = node
      BY <2>1, <2>2, <2>3, <2>4, Zenon
         DEF ResumeYielded, Goto, Others, NodeTypes, busVars
    <2>6. Held(t)' = Nil
      BY <2>5, Zenon DEF Held
    <2> QED
      BY <2>1, <2>3, <2>4, <2>5, <2>6, <1>SchedReleases, Zenon
  (* The test for YIELD puts nothing into the queue.                         *)
  <1>AfterResumeSched.
        ASSUME IInv, PlainInv, SchedInv, NEW t \in Processors, AfterResume(t)
        PROVE  SchedInv'
    <2> USE <1>AfterResumeSched
    <2> USE DEF IInv, TypeOK, ThreadTypes
    <2>1. /\ t \in Threads /\ pc[t] = "after" /\ run[t] \in Pids
          /\ victim[t] = Nil /\ Held(t) = Nil
      BY Zenon DEF Threads, AfterResume, At, WorkInv, Work, Held
    <2>2. ready' = ready
      BY <2>1, Zenon DEF AfterResume, PlainInv
    <2>3. /\ Others(t) /\ pc'[t] = "get" /\ victim'[t] = Nil /\ run'[t] = Nil
          /\ status' = status /\ node' = node
      BY <2>1, Zenon DEF AfterResume, Goto, Others, procVars
    <2>4. Held(t)' = Nil
      BY <2>3, Zenon DEF Held
    <2> QED
      BY <2>1, <2>2, <2>3, <2>4, <1>SchedKept, Zenon
  (* A message is handed over.                                               *)
  <1>SendHandOverSched.
        ASSUME IInv, SchedInv, NEW t \in Threads, SendHandOver(t)
        PROVE  SchedInv'
    <2> USE <1>SendHandOverSched
    <2> USE DEF IInv, TypeOK, ThreadTypes
    <2>1. /\ pc[t] = "send" /\ tgt[t] \in Pids /\ node[tgt[t]] = "mapped"
          /\ status[tgt[t]] = "RECV_WAIT" /\ intLock[tgt[t]] = Nil
      BY Zenon DEF SendHandOver, At, WorkInv, Work, SendPlaces, AnsweredIsMapped
    <2>2. \A u \in Threads : Held(u) # tgt[t]
      BY <2>1, <1>WaiterIsFree, ProcessAssumption, Zenon DEF Waits, Threads
    <2>3. AfterSend(t) \in {"unlink", "slice", "get", "idle"}
      BY Zenon DEF AfterSend, Home
    <2>4. /\ Others(t) /\ pc'[t] = AfterSend(t)
          /\ run' = run /\ victim' = victim /\ node' = node
      BY Zenon DEF SendHandOver, SendUnlock, Goto, Others
    <2>5. Held(t)' = Held(t)
      BY <2>1, <2>3, <2>4, Zenon DEF Held
    <2>6. /\ ready' = Append(ready, tgt[t]) /\ status'[tgt[t]] = "RECV_RETURN"
          /\ \A q \in Pids : q # tgt[t] => status'[q] = status[q]
      BY <2>1, Zenon DEF SendHandOver, NodeTypes
    <2> QED
      BY <2>1, <2>2, <2>3, <2>4, <2>5, <2>6, <1>SchedWakes, Zenon DEF Waits
  (* A thread that stays where it is wakes a process, or does not.           *)
  <1>WakeSched.
        ASSUME IInv, SchedInv, NEW t \in Threads, Others(t), Held(t)' = Held(t),
               pc[t] # "yielded", pc'[t] # "yielded",
               victim' = victim, node' = node, NEW p \in Pids,
               \/ Mapped(p) /\ intLock[p] \notin Processors /\ status[p] \in Waits /\ Wake(p)
               \/ UNCHANGED <<status, ready>>
        PROVE  SchedInv'
    <2> USE <1>WakeSched
    <2>1. CASE UNCHANGED <<status, ready>>
      BY <2>1, <1>SchedKept, Zenon
    <2>2. CASE Mapped(p) /\ intLock[p] \notin Processors /\ status[p] \in Waits /\ Wake(p)
      <3>1. \A u \in Threads : Held(u) # p
        BY <2>2, <1>WaiterIsFree, Zenon
      <3>2. /\ ready' = Append(ready, p) /\ status'[p] = "INT_RESP"
            /\ \A q \in Pids : q # p => status'[q] = status[q]
        BY <2>2, Zenon DEF Wake, IInv, TypeOK, NodeTypes
      <3> QED
        BY <2>2, <3>1, <3>2, <1>SchedWakes, Zenon DEF Mapped
    <2> QED
      BY <2>1, <2>2, Zenon
  (* The clock and the devices wake a process once.                          *)
  <1>BusSched.
        ASSUME IInv, SchedInv, NEW t \in Threads,
               \/ \E ev \in timers : TimerSignal(ev) \/ SleepOver(ev)
               \/ \E r \in requests : WriteDone(t, r)
        PROVE  SchedInv'
    <2> USE <1>BusSched
    <2> USE DEF IInv, TypeOK, ThreadTypes
    <2>1. Nil \notin Processors /\ Clock \in Threads
      BY ProcessAssumption, Zenon DEF Threads
    <2>2. ASSUME NEW u \in Threads, NEW p \in Pids, pc[u] = "idle", UNCHANGED threadVars,
                 node' = node,
                 \/ Mapped(p) /\ intLock[p] \notin Processors /\ status[p] \in Waits /\ Wake(p)
                 \/ UNCHANGED <<status, ready>>
          PROVE  SchedInv'
      <3>1. Others(u) /\ Held(u)' = Held(u) /\ pc'[u] = "idle" /\ victim' = victim
        BY <2>2, Zenon DEF threadVars, Others, Held
      <3> QED
        BY <2>2, <3>1, <1>WakeSched, Zenon
    <2>3. ASSUME NEW ev \in timers, TimerSignal(ev) PROVE SchedInv'
      <3>1. ev[1] \in Pids
        BY DEF BusTypes
      <3> QED
        BY <2>1, <2>2, <2>3, <3>1, Zenon DEF TimerSignal, Fire, At
    <2>4. ASSUME NEW ev \in timers, SleepOver(ev) PROVE SchedInv'
      <3>1. ev[1] \in Pids
        BY DEF BusTypes
      <3> QED
        BY <2>1, <2>2, <2>4, <3>1, Zenon DEF SleepOver, Response, Fire, At
    <2>5. ASSUME NEW r \in requests, WriteDone(t, r) PROVE SchedInv'
      <3>1. r[1] \in Pids
        BY DEF BusTypes
      <3> QED
        BY <2>1, <2>2, <2>5, <3>1, Zenon DEF WriteDone, Response, At
    <2> QED
      BY <2>3, <2>4, <2>5, Zenon
  (* The second half of ResponseEx, which owns the _IntLock itself.          *)
  <1>ResponseExWakeSched.
        ASSUME IInv, SchedInv, NEW d \in Devices, ResponseExWake(d)
        PROVE  SchedInv'
    <2> USE <1>ResponseExWakeSched
    <2> USE DEF IInv, TypeOK, ThreadTypes
    <2>1. /\ d \in Threads /\ pc[d] = "respLock" /\ tgt[d] \in Pids
          /\ Mapped(tgt[d])
      BY Zenon DEF ResponseExWake, At, Threads, WorkInv, Work, RespPlaces,
                   AnsweredIsMapped, Mapped
    <2>2. intLock[tgt[d]] \notin Processors
      <3>1. intLock[tgt[d]] = d
        BY <2>1, Zenon DEF IntLockInv, IntLockOf
      <3> QED
        BY <3>1, ProcessAssumption, Zenon
    <2>3. Others(d) /\ pc'[d] = "idle" /\ victim' = victim /\ run' = run /\ node' = node
      BY <2>1, Zenon DEF ResponseExWake, Goto, Others
    <2>4. Held(d)' = Held(d)
      BY <2>1, <2>3, Zenon DEF Held
    <2>5. \/ status[tgt[d]] \in Waits /\ Wake(tgt[d])
          \/ UNCHANGED <<status, ready>>
      BY Zenon DEF ResponseExWake
    <2> QED
      BY <2>1, <2>2, <2>3, <2>4, <2>5, <1>WakeSched, Zenon
  (* A new process is in the map, and in the queue if it could be started.   *)
  <1>SpawnSched.
        ASSUME IInv, SchedInv, NEW t \in Processors, Spawn(t)
        PROVE  SchedInv'
    <2> USE <1>SpawnSched
    <2> USE DEF IInv, TypeOK, ThreadTypes
    <2>1. PICK p \in Pids : /\ node[p] = "none"
                            /\ node' = [node EXCEPT ![p] = "mapped"]
                            /\ ready' \in {Append(ready, p), ready}
      BY Zenon DEF Spawn
    <2>2. /\ t \in Threads /\ Others(t) /\ Held(t)' = Held(t) /\ status' = status
          /\ pc' = pc /\ victim' = victim
      BY Zenon DEF Threads, Spawn, threadVars, Others, Held
    <2>3. SchedOf(p)
      BY Zenon DEF SchedInv
    <2>4. ~InReady(p) /\ (\A u \in Threads : Held(u) # p) /\ status[p] = "CREATED"
      BY <2>1, <2>3, Zenon DEF SchedOf
    <2>5. /\ ReadyOnce'
          /\ \A q : q # p => (InReady(q)' <=> InReady(q))
      <3>1. CASE ready' = ready
        BY <3>1, InReadySame, Zenon DEF SchedInv
      <3>2. CASE ready' = Append(ready, p)
        BY <2>4, <3>2, ReadyAppend, Zenon DEF SchedInv, BusTypes
      <3> QED
        BY <2>1, <3>1, <3>2, Zenon
    <2>6. SchedOf(p)'
      <3>1. \A u \in Threads : Held(u)' # p
        BY <2>2, <2>4, Zenon DEF Others, Held
      <3>2. node'[p] = "mapped"
        BY <2>1, Zenon DEF NodeTypes
      <3> QED
        BY <2>2, <2>4, <3>1, <3>2, Zenon DEF SchedOf, Waits
    <2>7. ASSUME NEW q \in Pids, q # p PROVE SchedOf(q)'
      <3>1. node'[q] = node[q] /\ SchedOf(q) /\ status'[q] = status[q]
        BY <2>1, <2>2, <2>7, Zenon DEF NodeTypes, SchedInv
      <3>2. InReady(q)' <=> InReady(q)
        BY <2>5, <2>7, Zenon
      <3>3. CASE Held(t) # q
        BY <2>2, <3>1, <3>2, <3>3, <1>SchedAside, Zenon
      <3>4. CASE Held(t) = q
        <4>1. /\ node[q] \in {"mapped", "unmapped"}
              /\ node[q] = "unmapped" => status[q] = "STOPED"
              /\ status[q] \in Waits <=> pc[t] = "yielded"
              /\ status[q] = "STOPED" <=> victim[t] # Nil
          BY <2>2, <3>1, <3>4, Zenon DEF SchedOf
        <4> QED
          BY <2>2, <3>1, <3>2, <3>4, <4>1, <1>SchedHeld, Zenon
      <3> QED
        BY <3>3, <3>4, Zenon
    <2> QED
      BY <2>5, <2>6, <2>7, Zenon DEF SchedInv
  (* Destory: the process is over, and only the thread that ran it has it.   *)
  <1>DestroySched.
        ASSUME IInv, PlainInv, SchedInv, NEW t \in Processors,
               DestroyTest(t) \/ Unmap(t) \/ Delete(t)
        PROVE  SchedInv'
    <2> USE <1>DestroySched
    <2> USE DEF IInv, TypeOK, ThreadTypes
    <2>1. /\ t \in Threads /\ pc[t] \in {"destroy", "unmap", "delete"}
          /\ victim[t] \in Pids
      BY DEF Threads, DestroyTest, Unmap, Delete, At, WorkInv, Work, DestroyPlaces
    <2>2. PICK p \in Pids : p = victim[t]
      BY <2>1, Zenon
    <2>3. Held(t) = p /\ SchedOf(p) /\ p # Nil /\ run[t] = Nil
      BY <2>1, <2>2, ProcessAssumption, Zenon DEF Held, SchedInv, PlainInv
    <2>4. status[p] = "STOPED" /\ node[p] \in {"mapped", "unmapped"} /\ ~InReady(p)
      BY <2>1, <2>2, <2>3, Zenon DEF SchedOf
    <2>5. /\ Others(t) /\ status' = status /\ ready' = ready /\ run' = run
          /\ pc'[t] \notin {"after", "yielded"}
      <3>1. CASE DestroyTest(t)
        BY <2>1, <3>1, Zenon DEF DestroyTest, DestroyDone, Goto, Others, busVars, procVars
      <3>2. CASE Unmap(t)
        BY <2>1, <3>2, Zenon DEF Unmap, Goto, Others, busVars
      <3>3. CASE Delete(t)
        BY <2>1, <3>3, Zenon DEF Delete, DestroyDone, Goto, Others, busVars
      <3> QED
        BY <3>1, <3>2, <3>3, Zenon
    <2>6. CASE Unmap(t)
      <3>1. Held(t)' = p /\ victim' = victim /\ pc'[t] = "delete"
        BY <2>1, <2>2, <2>3, <2>6, Zenon DEF Held, Unmap, Goto
      <3>2. node'[p] = "unmapped" /\ \A q \in Pids : q # p => node'[q] = node[q]
        BY <2>2, <2>6, Zenon DEF Unmap, NodeTypes
      <3>3. (\A q : InReady(q)' <=> InReady(q)) /\ ReadyOnce'
        BY <2>5, InReadySame, Zenon DEF SchedInv
      <3>4. SchedOf(p)'
        BY <2>1, <2>2, <2>3, <2>4, <2>5, <3>1, <3>2, <3>3, <1>SchedHeld, Zenon DEF Waits
      <3>5. ASSUME NEW q \in Pids, q # p PROVE SchedOf(q)'
        BY <2>1, <2>3, <2>5, <3>1, <3>2, <3>3, <3>5, <1>SchedAside, Zenon DEF SchedInv
      <3> QED
        BY <3>3, <3>4, <3>5, Zenon DEF SchedInv
    <2>7. CASE victim'[t] = Nil /\ (node' = node \/ node' = [node EXCEPT ![p] = "freed"])
      <3>1. Held(t)' = Nil
        BY <2>3, <2>5, <2>7, Zenon DEF Held
      <3>2. /\ \A q \in Pids : q # p => node'[q] = node[q]
            /\ node'[p] = node[p] \/ (status[p] = "STOPED" /\ node'[p] = "freed")
        BY <2>4, <2>7, Zenon DEF NodeTypes
      <3> QED
        BY <2>1, <2>3, <2>4, <2>5, <3>1, <3>2, <1>SchedReleases, Zenon
    <2>8. CASE victim' = victim /\ node' = node
      BY <2>1, <2>5, <2>8, <1>SchedStays, Zenon
    <2> QED
      BY <2>1, <2>2, <2>6, <2>7, <2>8, Zenon
         DEF DestroyTest, DestroyDone, Delete, procVars
  (* Every step of a plain program is a PlainStep.                           *)
  <1>PlainKept.
        ASSUME PlainInv, NEW t \in Threads, Others(t), PlainStep(t)
        PROVE  PlainInv'
    <2> USE <1>PlainKept
    <2>1. \A u \in Threads : /\ pc'[u] \notin {"setKilled", "signal"}
                             /\ victim'[u] # Nil => run'[u] = Nil
      BY Zenon DEF PlainInv, PlainStep, Others
    <2>2. \A p \in Pids : ~killed'[p] /\ status'[p] \notin {"YIELD", "KILLED"}
      BY Zenon DEF PlainInv, PlainStep
    <2>3. \A ev \in timers' : ev[2] # SIGNAL
      BY Zenon DEF PlainInv, PlainStep
    <2> QED
      BY <2>1, <2>2, <2>3, Zenon DEF PlainInv
  (* The steps of a processor between two slices.                            *)
  <1>ProcessorPlain.
        ASSUME IInv, PlainInv, SchedInv, NEW t \in Processors,
               GetTask(t) \/ Resume(t) \/ ResumeYielded(t) \/ ResumeReturned(t) \/ AfterResume(t)
        PROVE  PlainInv'
    <2> USE <1>ProcessorPlain
    <2> USE DEF IInv, TypeOK, ThreadTypes
    <2>1. t \in Threads /\ Work(t) /\ killed \in [Pids -> BOOLEAN] /\ status \in [Pids -> States]
      BY Zenon DEF Threads, WorkInv, NodeTypes
    <2>2. CASE GetTask(t)
      <3>1. Others(t) /\ PlainStep(t)
        BY <2>1, <2>2, Zenon DEF GetTask, At, Goto, Others, PlainStep, Work, procVars
      <3> QED
        BY <2>1, <3>1, <1>PlainKept, Zenon
    <2>3. CASE Resume(t)
      <3>1. run[t] \in Pids /\ victim[t] = Nil
        BY <2>1, <2>3, Zenon DEF Resume, At, Work
      <3>2. Others(t) /\ PlainStep(t)
        BY <2>1, <2>3, <3>1, Zenon DEF Resume, At, Goto, Others, PlainStep, Work, busVars
      <3> QED
        BY <2>1, <3>2, <1>PlainKept, Zenon
    <2>4. CASE ResumeYielded(t)
      <3>1. run[t] \in Pids /\ victim[t] = Nil /\ Held(t) = run[t] /\ pc[t] = "yielded"
        BY <2>1, <2>4, Zenon DEF ResumeYielded, At, Work, SlicePlaces, Held
      <3>2. ~killed[run[t]] /\ status[run[t]] \in Waits
        <4>1. ASSUME NEW p \in Pids, Held(t) = p PROVE status[p] \in Waits
          BY <2>1, <3>1, <4>1, Zenon DEF SchedInv, SchedOf
        <4> QED
          BY <3>1, <4>1, Zenon DEF PlainInv
      <3>3. status' = status
        BY <2>1, <2>4, <3>1, <3>2, Zenon DEF ResumeYielded
      <3>4. Others(t) /\ PlainStep(t)
        BY <2>1, <2>4, <3>1, <3>2, <3>3, Zenon
           DEF ResumeYielded, Goto, Others, PlainStep, busVars
      <3> QED
        BY <2>1, <3>4, <1>PlainKept, Zenon
    <2>5. CASE ResumeReturned(t)
      <3>1. run[t] \in Pids /\ victim[t] = Nil
        BY <2>1, <2>5, Zenon DEF ResumeReturned, At, Work, SlicePlaces
      <3>2. ~killed[run[t]]
        BY <3>1, Zenon DEF PlainInv
      <3>3. Others(t) /\ PlainStep(t)
        BY <2>1, <2>5, <3>1, <3>2, Zenon
           DEF ResumeReturned, Goto, Others, PlainStep, busVars
      <3> QED
        BY <2>1, <3>3, <1>PlainKept, Zenon
    <2>6. CASE AfterResume(t)
      <3>1. Others(t) /\ PlainStep(t)
        BY <2>1, <2>6, Zenon DEF AfterResume, At, Goto, Others, PlainStep, Work, procVars
      <3> QED
        BY <2>1, <3>1, <1>PlainKept, Zenon
    <2> QED
      BY <2>2, <2>3, <2>4, <2>5, <2>6, Zenon
  (* The calls of a program that makes neither of the two.                   *)
  <1>SlicePlain.
        ASSUME Calls \cap {"kill", "signal"} = {}, IInv, PlainInv, NEW t \in Processors, Slice(t)
        PROVE  PlainInv'
    <2> USE <1>SlicePlain
    <2> USE DEF IInv, TypeOK, ThreadTypes
    <2>1. /\ t \in Threads /\ Work(t) /\ killed \in [Pids -> BOOLEAN]
          /\ status \in [Pids -> States]
          /\ \A c \in Calls : c \notin {"kill", "signal"}
      BY Zenon DEF Threads, WorkInv, NodeTypes
    <2>2. pc[t] \in SlicePlaces
      BY Zenon DEF Slice, Send, Spawn, Kill, Recieve, Interrupt, Call, At, RecieveMsg,
             RecieveWait, IntReturn, IntRequest, IntTimer, SlicePlaces
    <2>3. run[t] \in Pids /\ victim[t] = Nil
      BY <2>1, <2>2, Zenon DEF Work
    <2>3a. ASSUME timers' \in {timers, timers \cup {<<run[t], tick[run[t]], tick[run[t]]>>}}
           PROVE  \A ev \in timers' : ev \in timers \/ ev[2] # SIGNAL
      <3> DEFINE ev == <<run[t], tick[run[t]], tick[run[t]]>>
      <3>1. tick[run[t]] # SIGNAL
        BY <2>3 DEF NodeTypes, SIGNAL
      <3>2. ev[2] = tick[run[t]]
        BY Zenon
      <3> QED
        BY <2>3a, <3>1, <3>2, Zenon
    <2>4. CASE Send(t)
      <3>1. PICK q \in Pids : SendLock(t, q)
        BY <2>4, Zenon DEF Send
      <3>2. pc[t] = "slice" /\ pc'[t] \in {"send", "slice"} /\ Others(t)
        BY <2>1, <2>3, <2>4, <3>1, ProcessAssumption, Zenon
           DEF Send, Call, At, SendLock, Goto, AfterSend, Others
      <3>3. PlainStep(t)
        BY <2>3, <2>4, <3>2, Zenon DEF Send, PlainStep, busVars
      <3> QED
        BY <2>1, <3>2, <3>3, <1>PlainKept, Zenon
    <2>5. CASE Spawn(t)
      <3>1. Others(t) /\ PlainStep(t)
        BY <2>1, <2>3, <2>5, Zenon DEF Spawn, threadVars, Others, PlainStep, PlainInv
      <3> QED
        BY <2>1, <3>1, <1>PlainKept, Zenon
    <2>6. CASE Kill(t)
      BY <2>1, <2>6, Zenon DEF Kill, Call
    <2>7. ASSUME NEW c \in {"recv", "recvTimeout"}, Recieve(t, c) PROVE PlainInv'
      <3>1. Others(t) /\ PlainStep(t)
        BY <2>1, <2>3, <2>7, Zenon DEF Recieve, Goto, Others, PlainStep, busVars
      <3> QED
        BY <2>1, <3>1, <1>PlainKept, Zenon
    <2>8. CASE RecieveMsg(t)
      <3>1. Others(t) /\ PlainStep(t)
        BY <2>1, <2>3, <2>8, Zenon DEF RecieveMsg, Goto, Others, PlainStep, busVars
      <3> QED
        BY <2>1, <3>1, <1>PlainKept, Zenon
    <2>9. CASE RecieveWait(t)
      <3>1. Others(t)
        BY <2>1, <2>9, Zenon DEF RecieveWait, Goto, Others
      <3>2. \A ev \in timers' : ev \in timers \/ ev[2] # SIGNAL
        BY <2>3a, <2>9, Zenon DEF RecieveWait
      <3>3. PlainStep(t)
        BY <2>1, <2>3, <2>9, <3>2, Zenon DEF RecieveWait, Goto, PlainStep
      <3> QED
        BY <2>1, <3>1, <3>3, <1>PlainKept, Zenon
    <2>10. ASSUME NEW c \in {"request", "requestTimeout", "write", "return", "sleep",
                             "signal"}, Interrupt(t, c)
           PROVE  PlainInv'
      <3>1. c \in Calls
        BY <2>10, Zenon DEF Interrupt, Call
      <3>2. Others(t) /\ PlainStep(t)
        BY <2>1, <2>3, <2>10, <3>1, Zenon DEF Interrupt, Goto, Others, PlainStep, busVars
      <3> QED
        BY <2>1, <3>2, <1>PlainKept, Zenon
    <2>11. CASE IntReturn(t)
      <3>1. Others(t) /\ PlainStep(t)
        BY <2>1, <2>3, <2>11, Zenon DEF IntReturn, Goto, Others, PlainStep, busVars
      <3> QED
        BY <2>1, <3>1, <1>PlainKept, Zenon
    <2>12. CASE IntRequest(t)
      <3>1. \A ev \in timers' : ev \in timers \/ ev[2] # SIGNAL
        BY <2>3a, <2>12, Zenon DEF IntRequest
      <3>2. Others(t) /\ PlainStep(t)
        BY <2>1, <2>3, <2>12, <3>1, Zenon DEF IntRequest, Goto, Others, PlainStep
      <3> QED
        BY <2>1, <3>2, <1>PlainKept, Zenon
    <2>13. CASE IntTimer(t)
      <3>1. pc[t] = "sleep"
        BY <2>1, <2>13, Zenon DEF IntTimer, At, PlainInv
      <3>2. \A ev \in timers' : ev \in timers \/ ev[2] # SIGNAL
        BY <2>13, <3>1 DEF IntTimer, TIMER, SIGNAL
      <3>3. Others(t) /\ PlainStep(t)
        BY <2>1, <2>3, <2>13, <3>1, <3>2, Zenon DEF IntTimer, Goto, Others, PlainStep
      <3> QED
        BY <2>1, <3>3, <1>PlainKept, Zenon
    <2> QED
      BY <2>4, <2>5, <2>6, <2>7, <2>8, <2>9, <2>10, <2>11, <2>12, <2>13, Zenon DEF Slice
  (* A step in which t keeps its process or its victim, or lets it go.       *)
  <1>PlainGoes.
        ASSUME PlainInv, NEW t \in Threads, Others(t),
               pc'[t] \notin {"setKilled", "signal"},
               run' = run, victim'[t] \in {victim[t], Nil}, killed' = killed,
               \A p \in Pids : status'[p] = status[p] \/ status'[p] \notin {"YIELD", "KILLED"},
               timers' \subseteq timers
        PROVE  PlainInv'
    <2> USE <1>PlainGoes
    <2>1. victim'[t] # Nil => run'[t] = Nil
      BY Zenon DEF PlainInv
    <2>2. PlainStep(t)
      BY <2>1, Zenon DEF PlainStep
    <2> QED
      BY <2>2, <1>PlainKept, Zenon
  (* Sends, by any thread.                                                   *)
  <1>SendingPlain.
        ASSUME IInv, PlainInv, NEW t \in Threads, Sending(t)
        PROVE  PlainInv'
    <2> USE <1>SendingPlain
    <2> USE DEF IInv, TypeOK, ThreadTypes
    <2>1. AfterSend(t) \in {"unlink", "slice", "get", "idle"}
      BY Zenon DEF AfterSend, Home
    <2>2. CASE SendTest(t)
      <3>1. Others(t) /\ pc'[t] = "put"
        BY <2>2, Zenon DEF SendTest, Goto, Others
      <3> QED
        BY <2>2, <3>1, <1>PlainGoes, Zenon DEF SendTest, procVars, busVars
    <2>3. CASE SendPut(t)
      <3>1. Others(t) /\ pc'[t] = AfterSend(t)
        BY <2>3, Zenon DEF SendPut, SendUnlock, Goto, Others
      <3> QED
        BY <2>1, <2>3, <3>1, <1>PlainGoes, Zenon DEF SendPut, busVars
    <2>4. CASE SendHandOver(t)
      <3>1. Others(t) /\ pc'[t] = AfterSend(t)
        BY <2>4, Zenon DEF SendHandOver, SendUnlock, Goto, Others
      <3>2. \A p \in Pids : status'[p] = status[p] \/ status'[p] = "RECV_RETURN"
        BY <2>4, Zenon DEF SendHandOver, NodeTypes
      <3> QED
        BY <2>1, <2>4, <3>1, <3>2, <1>PlainGoes, Zenon DEF SendHandOver
    <2> QED
      BY <2>2, <2>3, <2>4, Zenon DEF Sending
  (* The first half of a send by Destory or a device.                        *)
  <1>SendLockPlain.
        ASSUME IInv, PlainInv, NEW t \in Threads, NEW q, SendLock(t, q),
               run' = run, victim' = victim, killed' = killed, status' = status,
               timers' = timers
        PROVE  PlainInv'
    <2> USE <1>SendLockPlain
    <2>1. AfterSend(t) \in {"unlink", "slice", "get", "idle"}
      BY Zenon DEF AfterSend, Home
    <2>2. Others(t) /\ pc'[t] \in {"send", AfterSend(t)}
      BY Zenon DEF SendLock, Goto, Others, IInv, TypeOK, ThreadTypes
    <2> QED
      BY <2>1, <2>2, <1>PlainGoes, Zenon
  (* Destory, of a process that is over.                                     *)
  <1>DestroyPlain.
        ASSUME IInv, PlainInv, SchedInv, NEW t \in Processors, Destroy(t)
        PROVE  PlainInv'
    <2> USE <1>DestroyPlain
    <2> USE DEF IInv, TypeOK, ThreadTypes
    <2>1. t \in Threads /\ Work(t)
      BY Zenon DEF Threads, WorkInv
    <2>2. CASE DestroyTest(t)
      <3>1. pc[t] = "destroy" /\ victim[t] \in Pids /\ run[t] = Nil
        BY <2>1, <2>2, ProcessAssumption, Zenon DEF DestroyTest, At, Work, DestroyPlaces, PlainInv
      <3>2. status[victim[t]] = "STOPED"
        <4>1. Held(t) = victim[t]
          BY <3>1, ProcessAssumption, Zenon DEF Held
        <4>2. ASSUME NEW p \in Pids, Held(t) = p PROVE status[p] = "STOPED"
          BY <2>1, <3>1, <4>2, ProcessAssumption, Zenon DEF SchedInv, SchedOf
        <4> QED
          BY <3>1, <4>1, <4>2, Zenon
      <3>3. Others(t) /\ pc'[t] \in {"get", "exitMsg"} /\ victim'[t] \in {victim[t], Nil}
        BY <2>1, <2>2, <3>1, <3>2, Zenon DEF DestroyTest, DestroyDone, Goto, Others
      <3> QED
        BY <2>1, <2>2, <3>3, <1>PlainGoes, Zenon DEF DestroyTest, procVars, busVars
    <2>3. CASE SetKilled(t)
      BY <2>1, <2>3, Zenon DEF SetKilled, At, PlainInv
    <2>4. CASE SendExitMsg(t)
      <3>1. PICK q : SendLock(t, q)
        BY <2>4, Zenon DEF SendExitMsg
      <3> QED
        BY <2>1, <2>4, <3>1, <1>SendLockPlain, Zenon DEF SendExitMsg, procVars, busVars
    <2>5. CASE WriteLock(t)
      <3>1. Others(t) /\ pc'[t] = "unmap"
        BY <2>1, <2>5, Zenon DEF WriteLock, Goto, Others
      <3> QED
        BY <2>1, <2>5, <3>1, <1>PlainGoes, Zenon DEF WriteLock, procVars, busVars
    <2>6. CASE Unmap(t)
      <3>1. Others(t) /\ pc'[t] = "delete"
        BY <2>1, <2>6, Zenon DEF Unmap, Goto, Others
      <3> QED
        BY <2>1, <2>6, <3>1, <1>PlainGoes, Zenon DEF Unmap, busVars
    <2>7. CASE Delete(t)
      <3>1. Others(t) /\ pc'[t] \in {"get", "slice"} /\ victim'[t] = Nil
        BY <2>1, <2>7, Zenon DEF Delete, DestroyDone, Goto, Others
      <3> QED
        BY <2>1, <2>7, <3>1, <1>PlainGoes, Zenon DEF Delete, busVars
    <2> QED
      BY <2>2, <2>3, <2>4, <2>5, <2>6, <2>7, Zenon DEF Destroy
  (* The clock.                                                              *)
  <1>ClockPlain.
        ASSUME IInv, PlainInv, ClockStep
        PROVE  PlainInv'
    <2> USE <1>ClockPlain
    <2> USE DEF IInv, TypeOK, ThreadTypes
    <2>1. Clock \in Threads
      BY Zenon DEF Threads
    <2>2. ASSUME NEW ev \in timers, TimerSignal(ev) \/ SleepOver(ev) PROVE PlainInv'
      <3>1. Others(Clock) /\ pc[Clock] = "idle" /\ pc' = pc
        BY <2>2, Zenon DEF TimerSignal, SleepOver, Response, Fire, At, threadVars, Others
      <3>2. \A p \in Pids : status'[p] = status[p] \/ status'[p] = "INT_RESP"
        BY <2>2, Zenon DEF TimerSignal, SleepOver, Response, Wake, NodeTypes
      <3>3. timers' \subseteq timers /\ run' = run /\ victim' = victim /\ killed' = killed
        BY <2>2, Zenon DEF TimerSignal, SleepOver, Response, Fire, threadVars
      <3> QED
        BY <2>1, <3>1, <3>2, <3>3, <1>PlainGoes, Zenon
    <2>3. ASSUME NEW ev \in timers PROVE ~SendTimeoutMsg(ev)
      BY Zenon DEF SendTimeoutMsg, PlainInv
    <2> QED
      BY <2>1, <2>2, <2>3, <1>SendingPlain, Zenon DEF ClockStep
  (* The devices.                                                            *)
  <1>DevicePlain.
        ASSUME IInv, PlainInv, NEW d \in Devices, DeviceStep(d)
        PROVE  PlainInv'
    <2> USE <1>DevicePlain
    <2> USE DEF IInv, TypeOK, ThreadTypes
    <2>1. d \in Threads
      BY Zenon DEF Threads
    <2>2. ASSUME NEW r \in requests, WriteDone(d, r) PROVE PlainInv'
      <3>1. Others(d) /\ pc[d] = "idle" /\ pc' = pc /\ run' = run /\ victim' = victim
        BY <2>2, Zenon DEF WriteDone, Response, At, threadVars, Others
      <3>2. \A p \in Pids : status'[p] = status[p] \/ status'[p] = "INT_RESP"
        BY <2>2, Zenon DEF WriteDone, Response, Wake, NodeTypes
      <3> QED
        BY <2>1, <2>2, <3>1, <3>2, <1>PlainGoes, Zenon DEF WriteDone, Response
    <2>3. ASSUME NEW r \in requests, ResponseExTick(d, r) PROVE PlainInv'
      <3>1. Others(d) /\ pc[d] = "idle" /\ pc'[d] \in {"idle", "respInt"}
        BY <2>1, <2>3, Zenon DEF ResponseExTick, At, Goto, Others
      <3> QED
        BY <2>1, <2>3, <3>1, <1>PlainGoes, Zenon DEF ResponseExTick, procVars
    <2>4. CASE ResponseExInt(d)
      <3>1. Others(d) /\ pc'[d] = "respLock"
        BY <2>1, <2>4, Zenon DEF ResponseExInt, Goto, Others
      <3> QED
        BY <2>1, <2>4, <3>1, <1>PlainGoes, Zenon DEF ResponseExInt, procVars, busVars
    <2>5. CASE ResponseExWake(d)
      <3>1. Others(d) /\ pc'[d] = "idle"
        BY <2>1, <2>5, Zenon DEF ResponseExWake, Goto, Others
      <3>2. \A p \in Pids : status'[p] = status[p] \/ status'[p] = "INT_RESP"
        BY <2>5, Zenon DEF ResponseExWake, Wake, NodeTypes
      <3> QED
        BY <2>1, <2>5, <3>1, <3>2, <1>PlainGoes, Zenon DEF ResponseExWake
    <2>6. CASE DeviceSend(d)
      <3>1. PICK q \in Pids : SendLock(d, q)
        BY <2>6, Zenon DEF DeviceSend
      <3> QED
        BY <2>1, <2>6, <3>1, <1>SendLockPlain, Zenon DEF DeviceSend, busVars
    <2> QED
      BY <2>1, <2>2, <2>3, <2>4, <2>5, <2>6, <1>SendingPlain, Zenon DEF DeviceStep
  (* Every step of a processor keeps the invariant ...                       *)
  <1>ProcessorKeeps.
        ASSUME Calls \cap {"kill", "signal"} = {}, PlainIInv, NEW t \in Processors, Processor(t)
        PROVE  PlainInv' /\ SchedInv'
    <2> USE <1>ProcessorKeeps
    <2> USE DEF PlainIInv
    <2>1. t \in Threads /\ ~Kill(t) /\ ~SetKilled(t)
      BY Zenon DEF Threads, Kill, Call, SetKilled, At, PlainInv
    <2>2. CASE GetTask(t)
      BY <2>1, <2>2, <1>ProcessorPlain, <1>GetTaskSched, Zenon
    <2>3. CASE Resume(t) \/ ResumeReturned(t)
      BY <2>1, <2>3, <1>ProcessorPlain, <1>SliceSched, Zenon
    <2>4. CASE ResumeYielded(t)
      BY <2>1, <2>4, <1>ProcessorPlain, <1>ResumeYieldedSched, Zenon
    <2>5. CASE AfterResume(t)
      BY <2>1, <2>5, <1>ProcessorPlain, <1>AfterResumeSched, Zenon
    <2>6. CASE Slice(t)
      <3>1. PlainInv'
        BY <2>6, <1>SlicePlain, Zenon
      <3>2. CASE \/ Send(t) \/ RecieveMsg(t)
                 \/ \E c \in {"recv", "recvTimeout"} : Recieve(t, c)
        BY <2>1, <3>1, <3>2, <1>QuietSched, Zenon
      <3>3. CASE Spawn(t)
        BY <2>1, <3>1, <3>3, <1>SpawnSched, Zenon
      <3>4. CASE RecieveWait(t)
        BY <3>1, <3>4, <1>SliceSched, Zenon
      <3>5. CASE IntRequest(t) \/ IntTimer(t)
        BY <3>1, <3>5, <1>SliceSched, Zenon
      <3>6. CASE \/ IntReturn(t)
                 \/ \E c \in {"request", "requestTimeout", "write", "return", "sleep",
                              "signal"} : Interrupt(t, c)
        BY <3>1, <3>6, <1>SliceSched, Zenon
      <3> QED
        BY <2>1, <2>6, <3>2, <3>3, <3>4, <3>5, <3>6, Zenon DEF Slice
    <2>7. CASE Sending(t)
      BY <2>1, <2>7, <1>SendingPlain, <1>SendHandOverSched, <1>QuietSched, Zenon DEF Sending
    <2>8. CASE Destroy(t)
      <3>1. PlainInv'
        BY <2>8, <1>DestroyPlain, Zenon
      <3>2. CASE DestroyTest(t) \/ Unmap(t) \/ Delete(t)
        BY <2>1, <3>1, <3>2, <1>DestroySched, Zenon
      <3>3. CASE SendExitMsg(t) \/ WriteLock(t)
        BY <2>1, <3>1, <3>3, <1>QuietSched, Zenon
      <3> QED
        BY <2>1, <2>8, <3>2, <3>3, Zenon DEF Destroy
    <2> QED
      BY <2>2, <2>3, <2>4, <2>5, <2>6, <2>7, <2>8, Zenon DEF Processor
  (* ... and so do the steps of the clock and of the devices.                *)
  <1>BusKeeps.
        ASSUME PlainIInv, ClockStep \/ \E d \in Devices : DeviceStep(d)
        PROVE  PlainInv' /\ SchedInv'
    <2> USE <1>BusKeeps
    <2> USE DEF PlainIInv
    <2>1. Clock \in Threads
      BY Zenon DEF Threads
    <2>2. ASSUME NEW t \in Threads, Sending(t) PROVE SchedInv'
      BY <2>2, <1>SendHandOverSched, <1>QuietSched, Zenon
         DEF Sending
    <2>3. CASE ClockStep
      <3>1. PlainInv'
        BY <2>3, <1>ClockPlain, Zenon
      <3>2. ASSUME NEW ev \in timers, TimerSignal(ev) \/ SleepOver(ev)
            PROVE  SchedInv'
        BY <2>1, <3>2, <1>BusSched, Zenon
      <3>3. ASSUME NEW ev \in timers PROVE ~SendTimeoutMsg(ev)
        BY Zenon DEF SendTimeoutMsg, PlainInv
      <3> QED
        BY <2>1, <2>2, <2>3, <3>1, <3>2, <3>3, Zenon DEF ClockStep
    <2>4. ASSUME NEW d \in Devices, DeviceStep(d) PROVE PlainInv' /\ SchedInv'
      <3>1. d \in Threads /\ PlainInv'
        BY <2>4, <1>DevicePlain, Zenon DEF Threads
      <3>2. ASSUME NEW r \in requests, ResponseExTick(d, r) PROVE SchedInv'
        BY <3>1, <3>2, <1>QuietSched, Zenon
      <3>3. ASSUME NEW r \in requests, WriteDone(d, r) PROVE SchedInv'
        BY <3>1, <3>3, <1>BusSched, Zenon
      <3>4. CASE ResponseExInt(d) \/ DeviceSend(d)
        BY <3>1, <3>4, <1>QuietSched, Zenon
      <3>5. CASE ResponseExWake(d)
        BY <3>1, <3>5, <1>ResponseExWakeSched, Zenon
      <3> QED
        BY <2>2, <2>4, <3>1, <3>2, <3>3, <3>4, <3>5, Zenon DEF DeviceStep
    <2> QED
      BY <2>3, <2>4, Zenon
  (* A step of another part of the system.                                   *)
  <1>PlainStuttering.
        ASSUME PlainIInv, UNCHANGED vars
        PROVE  PlainInv' /\ SchedInv'
    <2> USE <1>PlainStuttering
    <2> USE DEF PlainIInv, vars, procVars, lockVars, busVars, threadVars
    <2>1. PlainInv'
      BY Zenon DEF PlainInv
    <2>3. ReadyOnce'
      BY Zenon DEF SchedInv, ReadyOnce
    <2>4. ASSUME NEW p \in Pids PROVE SchedOf(p)'
      <3>1. \A t \in Threads : Held(t)' = Held(t)
        BY Zenon DEF Held
      <3>2. InReady(p)' = InReady(p) /\ SchedOf(p)
        BY Zenon DEF InReady, SchedInv
      <3> QED
        BY <3>1, <3>2, Zenon DEF SchedOf
    <2> QED
      BY <2>1, <2>3, <2>4, Zenon DEF SchedInv
  <1> SUFFICES ASSUME PlainIInv, [Next]_vars PROVE PlainInv' /\ SchedInv'
    BY StepKeeps, Zenon DEF PlainIInv
  <1> QED
    BY <1>PlainStuttering, <1>ProcessorKeeps, <1>BusKeeps, Zenon DEF Next

(* The invariant holds in every reachable state.                           *)
LEMMA PlainInvariance ==
    ASSUME Calls \cap {"kill", "signal"} = {}
    PROVE  Spec => []PlainIInv
  BY PlainKeeps, PlainInit, PTL DEF Spec

-----------------------------------------------------------------------------
(* A started process that neither waits nor has ended is in the queue or   *)
(* on a processor: none is dropped on the way from one to the other,       *)
(* whatever calls the programs make.                                       *)
THEOREM NeverForgotten == Spec => []NoneForgotten
  <1>1. KeptInv => NoneForgotten
    <2> SUFFICES ASSUME KeptInv, NEW p \in Pids,
                        status[p] \notin Waits \cup {"CREATED", "STOPED", "KILLED"}
                 PROVE  Entries(p) # {} \/ Runners(p) # {}
      BY Zenon DEF NoneForgotten
    <2>1. InReady(p) \/ Runners(p) # {}
      BY Zenon DEF KeptInv, QueuedOf
    <2> QED
      BY <2>1, Zenon DEF InReady, Entries
  <1> QED
    BY <1>1, KeptInvariance, PTL

(* ResponseEx checks the tick before it takes the locks and Response does  *)
(* not check it, yet neither wakes a process from another wait than the    *)
(* one it answers.                                                         *)
THEOREM AnswersThisWait ==
    ASSUME Calls \cap {"signal", "requestTimeout"} = {}
    PROVE  Spec => []AnswerIsForThisWait
  <1>1. IInv /\ OnceInv /\ AskedInv => AnswerIsForThisWait
    <2> SUFFICES ASSUME IInv, AskedInv PROVE AnswerIsForThisWait
      OBVIOUS
    <2> USE DEF IInv, TypeOK
    <2>1. ASSUME NEW d \in Devices, pc[d] = "respLock",
                 status[tgt[d]] \in Waits
          PROVE  arg[d] = tick[tgt[d]]
      <3>1. d \in Threads /\ tgt[d] \in Pids
        BY <2>1, Zenon DEF Threads, ThreadTypes, WorkInv, Work, RespPlaces
      <3>2. AskedOf(tgt[d]) /\ Answers(d, tgt[d])
        BY <2>1, <3>1, Zenon DEF AskedInv, Answers, RespPlaces, Waits
      <3> QED
        BY <3>1, <3>2, Zenon DEF AskedOf
    <2>2. ASSUME NEW r \in requests, status[r[1]] \in Waits PROVE r[2] = tick[r[1]]
      <3>1. r[1] \in Pids
        BY DEF BusTypes
      <3> QED
        BY <2>2, <3>1, Zenon DEF AskedInv, AskedOf, Waits
    <2>3. ASSUME NEW ev \in timers, ev[2] = TIMER, status[ev[1]] \in Waits
          PROVE  ev[3] = tick[ev[1]]
      <3>1. ev[1] \in Pids
        BY DEF BusTypes
      <3> QED
        BY <2>3, <3>1, Zenon DEF AskedInv, AskedOf, Waits
    <2> QED
      BY <2>1, <2>2, <2>3, Zenon DEF AnswerIsForThisWait
  <1> QED
    BY <1>1, AskedInvariance, PTL

(* Destory, which waits for _IntLock with the map locked for writing, and  *)
(* a sender, which waits for it holding _Lock, wait for no thread that can *)
(* be waiting for them.                                                    *)
THEOREM LocksFormNoCycle ==
    ASSUME Calls \cap {"kill", "signal", "requestTimeout"} = {}
    PROVE  Spec => []NoLockCycle
  <1>1. PlainIInv /\ AskedInv => NoLockCycle
    <2> SUFFICES ASSUME PlainIInv, AskedInv PROVE NoLockCycle
      OBVIOUS
    <2> USE DEF PlainIInv, IInv, TypeOK, ThreadTypes
    <2>1. ASSUME NEW t \in Threads, pc[t] = "unmap", intLock[victim[t]] \in Processors
          PROVE  FALSE
      <3>1. victim[t] \in Pids
        BY <2>1, Zenon DEF WorkInv, Work, DestroyPlaces, SendPlaces, RespPlaces
      <3>2. PICK p \in Pids : p = victim[t]
        BY <3>1, Zenon
      <3>3. PICK u \in Threads : u \in Processors /\ intLock[p] = u
        BY <2>1, <3>2, Zenon DEF Threads
      <3>4. p # Nil /\ run[t] = Nil /\ Held(t) = p
        BY <3>2, ProcessAssumption, Zenon DEF PlainInv, Held
      <3>5. IntLockOf(u) = p /\ Work(u)
        BY <3>3, Zenon DEF IntLockInv, WorkInv
      <3>6. run[u] = p /\ pc[u] \notin {"resume", "after"}
        BY <3>3, <3>4, <3>5, Zenon DEF IntLockOf, Work, RespPlaces
      <3>7. Held(u) = p
        BY <3>4, <3>6, Zenon DEF PlainInv, Held
      <3>8. SchedOf(p)
        BY Zenon DEF SchedInv
      <3> QED
        BY <3>4, <3>6, <3>7, <3>8, Zenon DEF SchedOf
    <2>2. ASSUME NEW t \in Threads, NEW d \in Devices, pc[t] = "send",
                 pc[d] = "respLock", tgt[t] = tgt[d]
          PROVE  status[tgt[t]] # "RECV_WAIT"
      <3>1. d \in Threads /\ tgt[d] \in Pids
        BY <2>2, Zenon DEF Threads, WorkInv, Work, RespPlaces
      <3>2. AskedOf(tgt[d]) /\ Answers(d, tgt[d])
        BY <2>2, <3>1, Zenon DEF AskedInv, Answers, RespPlaces, PlainInv
      <3> QED
        BY <2>2, <3>1, <3>2, Zenon DEF AskedOf
    <2> QED
      BY <2>1, <2>2, Zenon DEF NoLockCycle
  <1>2. Calls \cap {"kill", "signal"} = {} /\ Calls \cap {"signal", "requestTimeout"} = {}
    OBVIOUS
  <1> QED
    BY <1>1, <1>2, PlainInvariance, AskedInvariance, PTL

(* No thread that runs, sends to, answers or destroys a process finds it   *)
(* deleted, but for the read of its state after Resume.                    *)
THEOREM UsesAreLive ==
    ASSUME Calls \cap {"kill", "signal"} = {}
    PROVE  Spec => []OnlyStateReadDangles
  <1>1. PlainIInv => OnlyStateReadDangles
    <2> SUFFICES ASSUME PlainIInv, NEW t \in Threads, NEW p \in Uses(t),
                        pc[t] # "after"
                 PROVE  node[p] # "freed"
      BY Zenon DEF OnlyStateReadDangles
    <2> USE DEF PlainIInv, IInv
    <2>1. p \in Pids /\ p # Nil /\ p \in {run[t], tgt[t], victim[t]}
      BY ProcessAssumption, Zenon DEF Uses
    <2>2. CASE p = tgt[t]
      BY <2>1, <2>2, Zenon DEF AnsweredIsMapped
    <2>3. CASE p = run[t] \/ p = victim[t]
      <3>1. Held(t) = p
        <4>1. p = run[t] => victim[t] = Nil
          BY <2>1, Zenon DEF PlainInv
        <4> QED
          BY <2>1, <2>3, <4>1, Zenon DEF Held
      <3>2. SchedOf(p)
        BY <2>1, Zenon DEF SchedInv
      <3> QED
        BY <3>1, <3>2, Zenon DEF SchedOf
    <2> QED
      BY <2>1, <2>2, <2>3, Zenon
  <1> QED
    BY <1>1, PlainInvariance, PTL

(* A timer goes only when the clock thread delivers it.                    *)
LEMMA OnlyTheClockFires ==
    ASSUME [Next]_vars, NEW ev \in timers \ timers'
    PROVE  TimerSignal(ev) \/ SleepOver(ev) \/ SendTimeoutMsg(ev)
  <1>1. CASE UNCHANGED vars
    BY <1>1, Zenon DEF vars, busVars
  <1>2. ASSUME NEW t, Sending(t) PROVE timers' = timers
    BY <1>2, Zenon DEF Sending, SendHandOver, SendTest, SendPut, busVars
  <1>3. ASSUME NEW t, Processor(t) PROVE timers \subseteq timers'
    <2>1. ASSUME Slice(t) PROVE timers \subseteq timers'
      BY <2>1, Zenon
         DEF Slice, Send, Spawn, Kill, Recieve, RecieveMsg, RecieveWait, Interrupt,
             IntReturn, IntRequest, IntTimer, busVars
    <2>2. ASSUME Destroy(t) PROVE timers' = timers
      BY <2>2, Zenon
         DEF Destroy, DestroyTest, SetKilled, SendExitMsg, WriteLock, Unmap, Delete,
             busVars
    <2> QED
      BY <1>2, <1>3, <2>1, <2>2, Zenon
         DEF Processor, GetTask, Resume, ResumeYielded, ResumeReturned, AfterResume,
             busVars
  <1>4. ASSUME NEW d, DeviceStep(d) PROVE timers' = timers
    BY <1>2, <1>4, Zenon
       DEF DeviceStep, ResponseExTick, WriteDone, ResponseExInt, ResponseExWake,
           DeviceSend, busVars
  <1>5. ASSUME NEW f, TimerSignal(f) \/ SleepOver(f) \/ SendTimeoutMsg(f)
        PROVE  f = ev
    BY <1>5, Zenon DEF TimerSignal, SleepOver, SendTimeoutMsg, Fire
  <1> QED
    BY <1>1, <1>2, <1>3, <1>4, <1>5, Zenon DEF Next, ClockStep

(* TimerSignal, which takes both locks by TryLock, drops the timeout of a  *)
(* waiting process only during the slice that armed it or while a thread   *)
(* is about to hand the process a message or an answer.                    *)
THEOREM TimeoutsAreKept == Spec => OnlyBusySliceDropsTimeout
  <1> DEFINE Drop(ev) ==
        LET p == ev[1]
        IN  /\ Mapped(p) /\ ev[2] = tick[p]
            /\ status[p] = "RECV_WAIT" /\ status'[p] = "RECV_WAIT"
            => \/ \E t \in Processors : run[t] = p /\ pc[t] = "yielded"
               \/ \E t \in Threads : tgt[t] = p
  <1>1. ASSUME IInv, KeptInv, [Next]_vars, NEW ev \in timers \ timers' PROVE Drop(ev)
    <2> USE DEF IInv, TypeOK, ThreadTypes
    <2>1. PICK p \in Pids : p = ev[1]
      BY <1>1 DEF BusTypes
    <2> SUFFICES ASSUME ev[2] = tick[p], Mapped(p), status[p] = "RECV_WAIT",
                        status'[p] = "RECV_WAIT"
                 PROVE  \/ \E t \in Processors : run[t] = p /\ pc[t] = "yielded"
                        \/ \E t \in Threads : tgt[t] = p
      BY <2>1, Zenon
    <2>2. ev[2] \notin {TIMER, SIGNAL}
      BY <1>1 DEF NodeTypes, TIMER, SIGNAL
    <2>3. TimerSignal(ev)
      BY <1>1, <2>2, OnlyTheClockFires, Zenon DEF SleepOver, SendTimeoutMsg
    <2>4. intLock[p] # Nil \/ lock[p] # Nil
      BY <1>1, <2>1, <2>3, Zenon DEF TimerSignal, Wake, Waits, NodeTypes
    <2>5. ASSUME NEW t \in Threads, run[t] = p, pc[t] \notin {"resume", "after"}
          PROVE  t \in Processors /\ pc[t] = "yielded"
      <3>1. p # Nil /\ t \in Processors
        BY <1>1, <2>5, ProcessAssumption, Zenon DEF WorkInv, Work
      <3> QED
        BY <1>1, <2>5, <3>1 DEF KeptInv, WaitOf, Waits
    <2>7. CASE intLock[p] # Nil
      <3>1. PICK t \in Threads : intLock[p] = t
        BY <1>1, <2>7, Zenon DEF LockTypes
      <3>2. IntLockOf(t) = p /\ p # Nil
        BY <1>1, <3>1, ProcessAssumption, Zenon DEF IntLockInv
      <3>3. tgt[t] = p \/ (run[t] = p /\ pc[t] \notin {"resume", "after"})
        BY <3>2, Zenon DEF IntLockOf
      <3> QED
        BY <2>5, <3>3, Zenon
    <2>8. CASE lock[p] # Nil
      <3>1. PICK t \in Threads : lock[p] = t
        BY <1>1, <2>8, Zenon DEF LockTypes
      <3>2. LockOf(t) = p /\ p # Nil
        BY <1>1, <3>1, ProcessAssumption, Zenon DEF LockInv
      <3>3. tgt[t] = p \/ (run[t] = p /\ pc[t] \notin {"resume", "after"})
        BY <3>2, Zenon DEF LockOf
      <3> QED
        BY <2>5, <3>3, Zenon
    <2> QED
      BY <2>4, <2>7, <2>8, Zenon
  <1>2. IInv /\ KeptInv /\ [Next]_vars => [\A ev \in timers \ timers' : Drop(ev)]_vars
    BY <1>1, Zenon
  <1> HIDE DEF Drop
  <1>3. Spec => [][\A ev \in timers \ timers' : Drop(ev)]_vars
    BY <1>2, Invariance, KeptInvariance, PTL DEF Spec
  <1> QED
    BY <1>3, Zenon DEF OnlyBusySliceDropsTimeout, Drop

-----------------------------------------------------------------------------
(* What is counted. *)

INSTANCE FiniteSetTheorems

(* A set with at most one element.                                         *)
LEMMA AtMostOne ==
    ASSUME NEW S, \A x, y \in S : x = y
    PROVE  Cardinality(S) \in {0, 1} /\ (S # {} => Cardinality(S) = 1)
  <1>1. CASE S = {}
    BY <1>1, FS_EmptySet
  <1>2. CASE S # {}
    <2>1. PICK x : x \in S
      BY <1>2
    <2>2. S = {x}
      BY <2>1
    <2> QED
      BY <2>2, FS_Singleton
  <1> QED
    BY <1>1, <1>2

(* The scheduler never runs a process on two threads, nor queues one that  *)
(* runs or is queued: every wake-up finds a process that nobody has.  It   *)
(* holds where no program calls signal, which ends a slice in YIELD.       *)
THEOREM RunsOnce ==
    ASSUME "signal" \notin Calls
    PROVE  Spec => []ScheduledOnce
  <1>1. IInv /\ OnceInv => ScheduledOnce
    <2> SUFFICES ASSUME IInv, OnceInv, NEW p \in Pids PROVE Scheduled(p) <= 1
      BY Zenon DEF ScheduledOnce
    <2>1. OnceOf(p) /\ ReadyOnce /\ status[p] # "YIELD"
      BY Zenon DEF OnceInv, SignalInv
    <2>2. \A t \in Runners(p) : t \in Threads /\ Runs(t, p)
      BY <2>1, Zenon DEF Runners, Runs
    <2>3. \A t, u \in Runners(p) : t = u
      BY <2>1, <2>2, Zenon DEF OnceOf
    <2>4. \A i, j \in Entries(p) : i = j
      BY <2>1, Zenon DEF ReadyOnce, Entries
    <2>5. Entries(p) = {} \/ Runners(p) = {}
      <3>1. Entries(p) # {} => InReady(p)
        BY Zenon DEF InReady, Entries
      <3> QED
        BY <2>1, <2>2, <3>1, Zenon DEF OnceOf
    <2>6. Cardinality(Entries(p)) \in {0, 1} /\ Cardinality(Runners(p)) \in {0, 1}
      BY <2>3, <2>4, AtMostOne, Zenon
    <2>7. Cardinality(Entries(p)) = 0 \/ Cardinality(Runners(p)) = 0
      BY <2>5, FS_EmptySet, Zenon
    <2> QED
      BY <2>6, <2>7 DEF Scheduled
  <1> QED
    BY <1>1, OnceInvariance, PTL

(* Every step keeps the count.                                             *)
LEMMA StepCounts == IInv /\ CountInv /\ [Next]_vars => CountInv'
  (* A step that leaves the map alone, by a thread that is not deleting.     *)
  <1>CountKept.
        ASSUME CountInv, NEW t \in Threads, Others(t),
               node' = node, nodeCount' = nodeCount,
               pc[t] # "delete", pc'[t] # "delete",
               \/ pc'[t] = "destroy" \/ victim'[t] = Nil
               \/ (victim'[t] = victim[t] /\ (pc[t] # "destroy" \/ Mapped(victim[t])))
        PROVE  CountInv'
    <2> USE <1>CountKept
    <2>1. ASSUME NEW u \in Threads PROVE VictimOf(u)'
      <3>1. VictimOf(u) /\ (u # t => pc'[u] = pc[u] /\ victim'[u] = victim[u])
        BY Zenon DEF CountInv, Others
      <3> QED
        BY <3>1, Zenon DEF VictimOf, Mapped
    <2>2. ASSUME NEW p \in Pids PROVE UnmappedOf(p)'
      <3>1. UnmappedOf(p)
        BY Zenon DEF CountInv
      <3>2. \A u \in Threads : pc'[u] = "delete" /\ victim'[u] = p <=>
                              pc[u] = "delete" /\ victim[u] = p
        BY Zenon DEF Others
      <3> QED
        BY <3>1, <3>2, Zenon DEF UnmappedOf
    <2>3. Counted' = Counted
      BY Zenon DEF Counted
    <2> QED
      BY <2>1, <2>2, <2>3, Zenon DEF CountInv
  (* The first half of a send counts nothing.                                *)
  <1>SendLockCount.
        ASSUME IInv, CountInv, NEW t \in Threads, NEW q, SendLock(t, q),
               pc[t] \in {"slice", "exitMsg", "idle"},
               run' = run, victim' = victim, node' = node, nodeCount' = nodeCount
        PROVE  CountInv'
    <2> USE <1>SendLockCount
    <2>1. AfterSend(t) # "delete"
      BY Zenon DEF AfterSend, Home
    <2>2. Others(t) /\ pc'[t] # "delete"
      BY <2>1, Zenon DEF SendLock, Goto, Others, IInv, TypeOK, ThreadTypes
    <2> QED
      BY <2>2, <1>CountKept, Zenon
  (* Slices, sends, and what the bus does.                                   *)
  <1>QuietCount.
        ASSUME IInv, CountInv, NEW t \in Threads,
               \/ GetTask(t) \/ Resume(t) \/ ResumeYielded(t) \/ ResumeReturned(t)
               \/ AfterResume(t) \/ Sending(t)
               \/ Send(t) \/ Kill(t) \/ \E c \in {"recv", "recvTimeout"} : Recieve(t, c)
               \/ RecieveMsg(t) \/ RecieveWait(t)
               \/ \E c \in {"request", "requestTimeout", "write", "return", "sleep",
                            "signal"} : Interrupt(t, c)
               \/ IntReturn(t) \/ IntRequest(t) \/ IntTimer(t)
               \/ \E r \in requests : ResponseExTick(t, r) \/ WriteDone(t, r)
               \/ ResponseExInt(t) \/ ResponseExWake(t) \/ DeviceSend(t)
        PROVE  CountInv'
    <2> USE <1>QuietCount
    <2> USE DEF IInv, TypeOK, ThreadTypes
    <2>1. AfterSend(t) # "delete"
      BY Zenon DEF AfterSend, Home
    <2>2. node' = node /\ nodeCount' = nodeCount
      BY Zenon
         DEF GetTask, Resume, ResumeYielded, ResumeReturned, AfterResume, Sending,
             SendHandOver, SendTest, SendPut, Send, Kill, Recieve, RecieveMsg,
             RecieveWait, Interrupt, IntReturn, IntRequest, IntTimer, ResponseExTick,
             WriteDone, Response, ResponseExInt, ResponseExWake, DeviceSend, procVars
    <2>3. CASE Sending(t)
      <3>1. /\ Others(t) /\ victim' = victim /\ pc[t] \in {"send", "put"}
            /\ pc'[t] \in {"put", AfterSend(t)}
        BY <2>3, Zenon
           DEF Sending, SendHandOver, SendTest, SendPut, SendUnlock, At, Goto, Others
      <3> QED
        BY <2>1, <2>2, <3>1, <1>CountKept, Zenon
    <2>4. CASE Send(t) \/ DeviceSend(t)
      <3>1. PICK q : SendLock(t, q)
        BY <2>4, Zenon DEF Send, DeviceSend
      <3>2. pc[t] \in {"slice", "idle"} /\ run' = run /\ victim' = victim
        BY <2>4, Zenon DEF Send, DeviceSend, Call, At
      <3> QED
        BY <2>2, <3>1, <3>2, <1>SendLockCount, Zenon
    <2>5. ASSUME \/ GetTask(t) \/ Resume(t) \/ AfterResume(t)
                 \/ \E c \in {"recv", "recvTimeout"} : Recieve(t, c)
                 \/ RecieveMsg(t) \/ RecieveWait(t)
                 \/ \E c \in {"request", "requestTimeout", "write", "return", "sleep",
                              "signal"} : Interrupt(t, c)
                 \/ IntReturn(t) \/ IntRequest(t) \/ IntTimer(t)
          PROVE  /\ Others(t) /\ victim' = victim /\ pc[t] \notin {"delete", "destroy"}
                 /\ pc'[t] # "delete"
      BY <2>5, Zenon
         DEF GetTask, Resume, AfterResume, Recieve, RecieveMsg, RecieveWait, Interrupt,
             IntReturn, IntRequest, IntTimer, Call, At, Goto, Others
    <2>6. ASSUME \/ \E r \in requests : ResponseExTick(t, r) \/ WriteDone(t, r)
                 \/ ResponseExInt(t) \/ ResponseExWake(t)
          PROVE  /\ Others(t) /\ victim' = victim /\ pc[t] \notin {"delete", "destroy"}
                 /\ pc'[t] # "delete"
      BY <2>6, Zenon
         DEF ResponseExTick, WriteDone, Response, ResponseExInt, ResponseExWake, At,
             Goto, Others, threadVars
    <2>7. ASSUME Kill(t) \/ ResumeYielded(t) \/ ResumeReturned(t)
          PROVE  /\ Others(t) /\ pc[t] \notin {"delete", "destroy"}
                 /\ \/ pc'[t] = "destroy"
                    \/ pc'[t] = "after" /\ victim' = victim
      BY <2>7, Zenon DEF Kill, ResumeYielded, ResumeReturned, Call, At, Goto, Others
    <2> QED
      BY <2>2, <2>3, <2>4, <2>5, <2>6, <2>7, <1>CountKept, Zenon
  (* A new process is counted.                                               *)
  <1>SpawnCount.
        ASSUME IInv, CountInv, NEW t \in Threads, Spawn(t)
        PROVE  CountInv'
    <2> USE <1>SpawnCount
    <2> USE DEF IInv, TypeOK
    <2>1. PICK q \in Pids : node[q] = "none" /\ node' = [node EXCEPT ![q] = "mapped"]
                          /\ nodeCount' = nodeCount + 1
      BY Zenon DEF Spawn
    <2>2. pc' = pc /\ victim' = victim
      BY Zenon DEF Spawn, threadVars
    <2>3. /\ node'[q] = "mapped"
          /\ \A p \in Pids : p # q => node'[p] = node[p]
      BY <2>1, Zenon DEF NodeTypes
    <2>4. ASSUME NEW u \in Threads PROVE VictimOf(u)'
      <3>1. VictimOf(u) /\ victim[u] \in Pids \cup {Nil}
        BY Zenon DEF CountInv, ThreadTypes
      <3> QED
        BY <2>2, <2>3, <3>1, Zenon DEF VictimOf
    <2>5. ASSUME NEW p \in Pids PROVE UnmappedOf(p)'
      <3>1. UnmappedOf(p)
        BY Zenon DEF CountInv
      <3> QED
        BY <2>1, <2>2, <2>3, <3>1, Zenon DEF UnmappedOf
    <2>6. Counted' = Counted \cup {q} /\ q \notin Counted
      BY <2>1, <2>3 DEF Counted
    <2>7. IsFiniteSet(Counted') /\ Cardinality(Counted') = Cardinality(Counted) + 1
      BY <2>6, FS_AddElement DEF CountInv
    <2> QED
      BY <2>1, <2>4, <2>5, <2>7, Zenon DEF CountInv
  (* Destory: from the test of the map's entry to the delete.                *)
  <1>DestroyCount.
        ASSUME IInv, CountInv, NEW t \in Processors, Destroy(t)
        PROVE  CountInv'
    <2> USE <1>DestroyCount
    <2> USE DEF IInv, TypeOK, ThreadTypes
    <2>1. t \in Threads /\ Work(t)
      BY Zenon DEF Threads, WorkInv
    <2>2. CASE DestroyTest(t)
      <3>1. Others(t) /\ pc[t] # "delete" /\ pc'[t] # "delete"
        BY <2>1, <2>2, Zenon DEF DestroyTest, DestroyDone, At, Goto, Others
      <3>2. victim'[t] = Nil \/ (victim'[t] = victim[t] /\ Mapped(victim[t]))
        BY <2>1, <2>2, Zenon DEF DestroyTest, DestroyDone
      <3> QED
        BY <2>1, <2>2, <3>1, <3>2, <1>CountKept, Zenon DEF DestroyTest, procVars
    <2>3. CASE SetKilled(t)
      <3>1. Others(t) /\ pc[t] # "delete" /\ pc'[t] # "delete" /\ victim'[t] = Nil
        BY <2>1, <2>3, Zenon DEF SetKilled, DestroyDone, At, Goto, Others
      <3> QED
        BY <2>1, <2>3, <3>1, <1>CountKept, Zenon DEF SetKilled
    <2>4. CASE SendExitMsg(t)
      <3>1. PICK q : SendLock(t, q)
        BY <2>4, Zenon DEF SendExitMsg
      <3> QED
        BY <2>1, <2>4, <3>1, <1>SendLockCount, Zenon DEF SendExitMsg, At, procVars
    <2>5. CASE WriteLock(t)
      <3>1. /\ Others(t) /\ pc[t] = "unlink" /\ pc'[t] = "unmap" /\ victim' = victim
        BY <2>1, <2>5, Zenon DEF WriteLock, At, Goto, Others
      <3> QED
        BY <2>1, <2>5, <3>1, <1>CountKept, Zenon DEF WriteLock, procVars
    <2>6. CASE Unmap(t) \/ Delete(t)
      <3>1. pc[t] \in {"unmap", "delete"} /\ ~Dangling /\ victim[t] \in Pids
        BY <2>1, <2>6, Zenon DEF Unmap, Delete, At, Work, DestroyPlaces
      <3>2. PICK p \in Pids : p = victim[t]
        BY <3>1, Zenon
      <3>3. p \in Uses(t) /\ node[p] # "freed"
        BY <2>1, <3>1, <3>2, Zenon DEF Dangling, Uses
      <3>4. p # Nil /\ VictimOf(t) /\ node[p] \in {"none", "mapped", "unmapped", "freed"}
        BY <2>1, ProcessAssumption, Zenon DEF CountInv, NodeTypes
      <3>5. node[p] \in {"mapped", "unmapped"}
        BY <3>1, <3>2, <3>3, <3>4, Zenon DEF VictimOf
      <3>6. \A u \in Threads : pc[u] \in {"unmap", "delete"} => u = t
        BY <2>1, <3>1, Zenon DEF MapLockInv, Writes
      <3>7. /\ \A q \in Pids : q # p => node'[q] = node[q]
            /\ \A u \in Threads : u # t => pc'[u] = pc[u] /\ victim'[u] = victim[u]
            /\ node'[p] # "none" /\ victim'[t] \in {p, Nil}
        BY <2>1, <2>6, <3>2, Zenon
           DEF Unmap, Delete, DestroyDone, Goto, NodeTypes
      <3>8. ASSUME NEW u \in Threads PROVE VictimOf(u)'
        <4>1. VictimOf(u) /\ victim[u] \in Pids \cup {Nil}
          BY Zenon DEF CountInv
        <4> QED
          BY <3>7, <4>1, Zenon DEF VictimOf
      <3>9. ASSUME NEW q \in Pids, q # p PROVE UnmappedOf(q)'
        <4>1. UnmappedOf(q) /\ ~\E u \in Threads : pc[u] = "delete" /\ victim[u] = q
          BY <3>2, <3>6, <3>9, Zenon DEF CountInv
        <4>2. ~\E u \in Threads : pc'[u] = "delete" /\ victim'[u] = q
          BY <3>4, <3>7, <3>9, <4>1, ProcessAssumption, Zenon
        <4> QED
          BY <3>7, <3>9, <4>1, <4>2, Zenon DEF UnmappedOf
      <3>10. CASE Unmap(t)
        <4>1. node'[p] = "unmapped" /\ pc'[t] = "delete" /\ victim'[t] = p
          BY <2>1, <3>2, <3>10, Zenon DEF Unmap, Goto, NodeTypes
        <4>2. Counted' = Counted /\ nodeCount' = nodeCount
          BY <3>5, <3>7, <3>10, <4>1, Zenon DEF Counted, Unmap
        <4>3. UnmappedOf(p)'
          BY <2>1, <4>1, Zenon DEF UnmappedOf
        <4> QED
          BY <3>8, <3>9, <4>2, <4>3, Zenon DEF CountInv
      <3>11. CASE Delete(t)
        <4>1. /\ pc[t] = "delete" /\ node'[p] = "freed" /\ victim'[t] = Nil
              /\ pc'[t] # "delete" /\ nodeCount' = nodeCount - 1
          BY <2>1, <3>2, <3>11, Zenon DEF Delete, DestroyDone, At, Goto, NodeTypes
        <4>2. Counted' = Counted \ {p} /\ p \in Counted
          BY <3>5, <3>7, <4>1 DEF Counted
        <4>3. IsFiniteSet(Counted') /\ Cardinality(Counted') = Cardinality(Counted) - 1
          BY <4>2, FS_RemoveElement DEF CountInv
        <4>4. UnmappedOf(p)'
          BY <3>6, <3>7, <4>1, Zenon DEF UnmappedOf
        <4> QED
          BY <3>8, <3>9, <4>1, <4>3, <4>4, Zenon DEF CountInv
      <3> QED
        BY <2>6, <3>10, <3>11, Zenon
    <2> QED
      BY <2>2, <2>3, <2>4, <2>5, <2>6, Zenon DEF Destroy
  <1> SUFFICES ASSUME IInv, CountInv, [Next]_vars PROVE CountInv'
    OBVIOUS
  <1> USE DEF IInv
  <1>1. Processors \subseteq Threads /\ Devices \subseteq Threads /\ Clock \in Threads
    BY Zenon DEF Threads
  <1>2. CASE UNCHANGED vars
    <2>1. \A t \in Threads : VictimOf(t)'
      BY <1>2, Zenon DEF CountInv, VictimOf, vars, procVars, threadVars
    <2>2. \A p \in Pids : UnmappedOf(p)'
      BY <1>2, Zenon DEF CountInv, UnmappedOf, vars, procVars, threadVars
    <2>3. Counted' = Counted /\ nodeCount' = nodeCount
      BY <1>2, Zenon DEF Counted, vars, procVars
    <2> QED
      BY <2>1, <2>2, <2>3, Zenon DEF CountInv
  <1>3. ASSUME NEW t \in Processors, Processor(t) PROVE CountInv'
    BY <1>1, <1>3, <1>QuietCount, <1>SpawnCount, <1>DestroyCount, Zenon DEF Processor, Slice
  <1>4. CASE ClockStep
    <2>1. pc[Clock] \notin {"delete", "destroy"}
      BY <1>1, ProcessAssumption, Zenon
         DEF WorkInv, Work, SendPlaces, RespPlaces
    <2>2. ASSUME NEW ev \in timers, TimerSignal(ev) \/ SleepOver(ev) PROVE CountInv'
      <3>1. /\ Others(Clock) /\ pc' = pc /\ victim' = victim /\ node' = node
            /\ nodeCount' = nodeCount
        BY <2>2, Zenon DEF TimerSignal, SleepOver, Response, threadVars, Others
      <3> QED
        BY <1>1, <2>1, <3>1, <1>CountKept, Zenon
    <2>3. ASSUME NEW ev \in timers, SendTimeoutMsg(ev) PROVE CountInv'
      BY <1>1, <2>3, <1>SendLockCount, Zenon DEF SendTimeoutMsg, Fire, At, procVars
    <2> QED
      BY <1>1, <1>4, <2>2, <2>3, <1>QuietCount, Zenon DEF ClockStep
  <1>5. ASSUME NEW d \in Devices, DeviceStep(d) PROVE CountInv'
    BY <1>1, <1>5, <1>QuietCount, Zenon DEF DeviceStep
  <1> QED
    BY <1>2, <1>3, <1>4, <1>5, Zenon DEF Next

(* Whatever calls the programs make, kill included, NodeCount is the       *)
(* number of processes in the map when nobody is changing the map.         *)
THEOREM NodesAreCounted == Spec => []CountIsRight
  <1>1. Init => CountInv
    <2> SUFFICES ASSUME Init PROVE CountInv
      OBVIOUS
    <2>1. Counted = {Main}
      BY ProcessAssumption DEF Init, Counted
    <2>2. IsFiniteSet(Counted) /\ nodeCount = Cardinality(Counted)
      BY <2>1, FS_Singleton, Zenon DEF Init
    <2>3. \A t \in Threads : victim[t] = Nil /\ pc[t] \in {"get", "idle"}
      BY Zenon DEF Init, Home
    <2>4. \A p \in Pids : node[p] # "unmapped"
      BY Zenon DEF Init
    <2> QED
      BY <2>2, <2>3, <2>4, Zenon DEF CountInv, VictimOf, UnmappedOf
  <1>2. IInv /\ CountInv => CountIsRight
    <2> SUFFICES ASSUME IInv, CountInv, writer = Nil
                 PROVE  nodeCount = Cardinality({p \in Pids : Mapped(p)})
      BY Zenon DEF CountIsRight
    <2>1. \A t \in Threads : pc[t] # "delete"
      BY ProcessAssumption, Zenon DEF IInv, MapLockInv, Writes
    <2>2. \A p \in Pids : node[p] # "unmapped"
      BY <2>1, Zenon DEF CountInv, UnmappedOf
    <2>3. {p \in Pids : Mapped(p)} = Counted
      BY <2>2 DEF Mapped, Counted
    <2> QED
      BY <2>3, Zenon DEF CountInv
  <1> QED
    BY <1>1, <1>2, StepCounts, Invariance, PTL DEF Spec
==============================================================================
