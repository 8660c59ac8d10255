-------------------------- MODULE SocketLinkProofs --------------------------
(***************************************************************************)
(* Proofs about SocketLink, for any processes, calls, stream and sizes of  *)
(* the cache.                                                              *)
(***************************************************************************)
EXTENDS SocketLink, TLAPS, SequenceTheorems, WellFoundedInduction

(* The cache: room behind the data, and the data in order.                 *)
Sound(c) == c \in Caches /\ c.begin <= c.end /\ Reserved(c) > 0

(* Growing by what was received in the room keeps the room: the buffer is  *)
(* doubled unless moving the data down frees at least Step bytes.          *)
LEMMA GrowKeeps ==
    ASSUME NEW c, Sound(c), NEW n \in Nat, n <= Reserved(c)
    PROVE  Sound(Grow(c, n)) /\ DataSize(Grow(c, n)) = DataSize(c) + n
  <1> DEFINE end == c.end + n
  <1>1. /\ c \in [size : Nat, begin : Nat, end : Nat]
        /\ c.begin <= c.end /\ c.end < c.size /\ end <= c.size
        /\ Step \in Nat /\ 0 < Step
    BY CacheAssumption DEF Sound, Caches, Reserved
  <1>2. CASE c.size - end > 0
    <2>1. Grow(c, n) = [c EXCEPT !.end = end]
      BY <1>2 DEF Grow
    <2> QED
      BY <1>1, <1>2, <2>1 DEF Sound, Caches, Reserved, DataSize
  <1>3. CASE ~(c.size - end > 0) /\ end - c.begin > c.size - Step
    <2>1. Grow(c, n) = [size |-> 2 * c.size, begin |-> c.begin, end |-> end]
      BY <1>1, <1>3, Zenon DEF Grow
    <2> QED
      BY <1>1, <1>3, <2>1 DEF Sound, Caches, Reserved, DataSize
  <1>4. CASE ~(c.size - end > 0) /\ ~(end - c.begin > c.size - Step)
    <2>1. Grow(c, n) = [size |-> c.size, begin |-> 0, end |-> end - c.begin]
      BY <1>1, <1>4, Zenon DEF Grow
    <2> QED
      BY <1>1, <1>4, <2>1 DEF Sound, Caches, Reserved, DataSize
  <1> QED
    BY <1>2, <1>3, <1>4

(* Eating at most the data there is.                                       *)
LEMMA EatKeeps ==
    ASSUME NEW c, Sound(c), NEW n \in Nat, n <= DataSize(c)
    PROVE  Sound(Eat(c, n)) /\ DataSize(Eat(c, n)) = DataSize(c) - n
  <1>1. /\ c \in [size : Nat, begin : Nat, end : Nat]
        /\ c.begin + n <= c.end /\ c.end < c.size
    BY DEF Sound, Caches, Reserved, DataSize
  <1>2. CASE c.begin + n = c.end
    <2>1. Eat(c, n) = [size |-> c.size, begin |-> 0, end |-> 0]
      BY <1>1, <1>2, Zenon DEF Eat
    <2> QED
      BY <1>1, <1>2, <2>1 DEF Sound, Caches, Reserved, DataSize
  <1>3. CASE c.begin + n # c.end
    <2>1. Eat(c, n) = [c EXCEPT !.begin = c.begin + n]
      BY <1>3 DEF Eat
    <2> QED
      BY <1>1, <1>3, <2>1 DEF Sound, Caches, Reserved, DataSize
  <1> QED
    BY <1>2, <1>3

LEMMA LeastExists ==
    ASSUME NEW S, S \subseteq Nat, S # {}
    PROVE  \E i \in S : \A j \in S : i <= j
  <1> DEFINE R == {ss \in Nat \X Nat : ss[1] < ss[2]}
  <1>1. IsWellFoundedOn(R, Nat)
    BY NatLessThanWellFounded DEF OpToRel
  <1>2. \A i, j \in Nat : <<j, i>> \notin R => i <= j
    OBVIOUS
  <1> HIDE DEF R
  <1>3. PICK i \in S : \A j \in S : ~(<<j, i>> \in R)
    BY <1>1, WFMin, Zenon
  <1> QED
    BY <1>2, <1>3, Zenon

(* A request is never given more than the cache holds.                     *)
LEMMA PortionFits ==
    ASSUME Sound(cache), NEW t \in Tasks \cup Calls \cup {NoTask}
    PROVE  Portion(t) \in Nat /\ Portion(t) <= DataSize(cache)
  <1>1. DataSize(cache) \in Nat
    BY DEF Sound, DataSize, Caches
  <1>2. t.type = "RECV" => t.len \in Nat
    BY SocketAssumption DEF Tasks, NoTask
  <1>3. LineLen \in Nat /\ LineLen <= DataSize(cache)
    <2> DEFINE ends == {i \in 1..DataSize(cache) : Stream[eaten + i] = "n"}
    <2>1. ASSUME ends # {}
          PROVE  \E i \in ends : \A j \in ends : i <= j
      <3>1. ends \subseteq Nat
        BY <1>1
      <3> HIDE DEF ends
      <3> QED
        BY <2>1, <3>1, LeastExists, Zenon
    <2> QED
      BY <1>1, <2>1 DEF LineLen
  <1> QED
    BY <1>1, <1>2, <1>3 DEF Portion

-----------------------------------------------------------------------------
(* Bytes and requests *)

(* The bytes: all that RoomLeft and HandedOnce speak of.                   *)
Bytes ==
    /\ Sound(cache)
    /\ sent \in 0..Len(Stream) /\ got \in 0..sent /\ eaten \in 0..got /\ given \in Nat
    /\ HandedOnce

(* Everything else, and that a process in a call has one and the worker    *)
(* that answers has a task to answer.                                      *)
Requests ==
    /\ open \in BOOLEAN /\ hanguped \in BOOLEAN /\ shut \in BOOLEAN
    /\ tasks \in Seq(Tasks) /\ sends \in Seq(Tasks)
    /\ peer \in {"open", "closed", "reset"}
    /\ registered \in BOOLEAN
    /\ events \subseteq {"IN", "OUT"} /\ snap \subseteq {"IN", "OUT", "HUP"}
    /\ wpc \in WorkerPlaces /\ cur \in Tasks \cup {NoTask}
    /\ wpc \in {"answer", "sent", "drainAnswer"} => cur \in Tasks
    /\ wpc = "answer" => tasks # <<>>
    /\ pc \in [Procs -> Places] /\ call \in [Procs -> Calls \cup {NoTask}]
    /\ \A p \in Procs : pc[p] # "idle" => call[p] \in Calls
    /\ calls \in 0..MaxCalls /\ tick \in [Procs -> Nat]
    /\ seen \in [Procs -> Nat \cup {-1}]
    /\ late \subseteq Procs \X Nat

(* Handing over at most what the cache holds.                              *)
LEMMA HandKeeps ==
    ASSUME Bytes, NEW n \in Nat, n <= DataSize(cache), Hand(n),
           UNCHANGED <<sent, got>>
    PROVE  Bytes'
  <1>1. Sound(cache') /\ DataSize(cache') = DataSize(cache) - n
    BY EatKeeps DEF Bytes, Hand
  <1>2. DataSize(cache) \in Nat
    BY DEF Bytes, Sound, Caches, DataSize
  <1> QED
    BY <1>1, <1>2 DEF Bytes, Hand, HandedOnce

(* One pass of OnRecv's loop reads no more than there is room for.         *)
LEMMA RecvKeeps ==
    ASSUME Bytes, Recv
    PROVE  Bytes'
  <1> DEFINE n == IF sent - got < Reserved(cache) THEN sent - got ELSE Reserved(cache)
  <1>1. n \in Nat /\ n <= Reserved(cache) /\ n <= sent - got
    BY DEF Bytes, Sound, Caches, Reserved
  <1>2. UNCHANGED <<sent, eaten, given>>
    BY DEF Recv
  <1>3. CASE cache' = Grow(cache, n) /\ got' = got + n
    <2>1. Sound(cache') /\ DataSize(cache') = DataSize(cache) + n
      BY <1>1, <1>3, GrowKeeps DEF Bytes
    <2>2. DataSize(cache) \in Int
      BY DEF Bytes, Sound, Caches, DataSize
    <2> QED
      BY <1>1, <1>2, <1>3, <2>1, <2>2 DEF Bytes, HandedOnce
  <1>4. CASE UNCHANGED <<cache, got>>
    BY <1>2, <1>4 DEF Bytes, HandedOnce, Sound, Caches, DataSize, Reserved
  <1> QED
    BY <1>3, <1>4 DEF Recv

LEMMA BytesStep ==
    ASSUME Bytes, Requests, [Next]_vars
    PROVE  Bytes'
  <1> USE DEF linkVars, dataVars, pollVars, procVars
  <1>1. CASE UNCHANGED <<cache, sent, got, eaten, given>>
    BY <1>1 DEF Bytes, HandedOnce, Sound, Caches, DataSize, Reserved
  <1>2. ASSUME NEW p \in Procs, Call(p) \/ Slice(p) \/ TimeOut(p)
        PROVE  Bytes'
    <2>1. CASE FastRecvReturn(p)
      <3>1. call[p] \in Calls
        BY <2>1 DEF Requests, FastRecvReturn
      <3>2. Portion(call[p]) \in Nat /\ Portion(call[p]) <= DataSize(cache)
        BY <3>1, PortionFits DEF Bytes
      <3> QED
        BY <1>1, <2>1, <3>2, HandKeeps DEF FastRecvReturn
    <2> QED
      BY <1>1, <1>2, <2>1
         DEF Call, Slice, Enter, Look, Put, Register, TimeOut, Resume
  <1>3. CASE PeerSend
    BY <1>3, SocketAssumption
       DEF PeerSend, Bytes, HandedOnce, Sound, Caches, DataSize, Reserved
  <1>4. CASE Answer
    <2>1. Portion(cur) \in Nat /\ Portion(cur) <= DataSize(cache)
      BY PortionFits DEF Bytes, Requests
    <2> QED
      BY <1>1, <1>4, <2>1, HandKeeps DEF Answer
  <1> QED
    BY <1>1, <1>2, <1>3, <1>4, RecvKeeps
       DEF vars, Next, PeerClose, Worker, Snapshot, Poll, OnRecv, Respond, Leave,
           RemoveIn, OnSend, RemoveOut, Sent, OnErr, Drain, DrainAnswer

(* What the sequence operators of the queues return.                       *)
LEMMA Queues ==
    ASSUME NEW s \in Seq(Tasks)
    PROVE  /\ s # <<>> => Head(s) \in Tasks /\ Tail(s) \in Seq(Tasks)
           /\ \A t \in Tasks : Append(s, t) \in Seq(Tasks)
  BY HeadTailProperties, AppendProperties

LEMMA RequestsStep ==
    ASSUME Bytes, Requests, [Next]_vars
    PROVE  Requests'
  <1> USE DEF linkVars, dataVars, pollVars, procVars, Requests
  <1>1. CASE UNCHANGED vars
    BY <1>1 DEF vars
  <1>2. ASSUME NEW p \in Procs, Call(p)
        PROVE  Requests'
    BY <1>2, SocketAssumption DEF Call, Goto, Places, Inside
  <1>3. ASSUME NEW p \in Procs, Enter(p)
        PROVE  Requests'
    <2>1. shut' \in BOOLEAN
      BY <1>3 DEF Enter
    <2>2. /\ pc' \in [Procs -> Places]
          /\ \A q \in Procs : pc'[q] # "idle" => pc[q] # "idle"
      BY <1>3, Zenon DEF Enter, Goto, Places, Inside
    <2>3. seen' \in [Procs -> Nat \cup {-1}]
      <3>1. got \in Nat
        BY DEF Bytes
      <3>2. UNCHANGED seen \/ \E v \in {got, -1} : seen' = [seen EXCEPT ![p] = v]
        BY <1>3 DEF Enter
      <3> QED
        BY <3>1, <3>2, Zenon
    <2> QED
      BY <1>3, <2>1, <2>2, <2>3 DEF Enter
  <1>4. ASSUME NEW p \in Procs, Look(p)
        PROVE  Requests'
    BY <1>4, Zenon DEF Look, Goto, Places, Inside
  <1>5. ASSUME NEW p \in Procs, FastRecvReturn(p)
        PROVE  Requests'
    BY <1>5 DEF FastRecvReturn, Goto, Places, Inside, Bytes
  <1>6. ASSUME NEW p \in Procs, Put(p)
        PROVE  Requests'
    <2>1. call[p] \in Calls
      BY <1>6 DEF Put
    <2> DEFINE t == [type |-> call[p].type, len |-> call[p].len, pid |-> p, tick |-> tick[p]]
    <2>2. t \in Tasks /\ [t EXCEPT !.len = SendLen] \in Tasks
      BY <2>1, SocketAssumption, Zenon DEF Tasks
    <2>3. tasks' \in Seq(Tasks) /\ sends' \in Seq(Tasks)
      BY <1>6, <2>2, Queues, Zenon DEF Put
    <2>4. late' \subseteq Procs \X Nat
      BY <1>6 DEF Put, Id
    <2> HIDE DEF t
    <2> QED
      BY <1>6, <2>3, <2>4 DEF Put, Goto, Places, Inside
  <1>7. ASSUME NEW p \in Procs, Register(p)
        PROVE  Requests'
    <2>1. late' \subseteq Procs \X Nat
      <3>1. Id(p) \in Procs \X Nat
        BY DEF Id
      <3>2. late' \in {late, late \cup {Id(p)}}
        BY <1>7 DEF Register
      <3> QED
        BY <3>1, <3>2
    <2>2. events' \subseteq {"IN", "OUT"}
      BY <1>7 DEF Register
    <2>3. /\ pc' \in [Procs -> Places]
          /\ \A q \in Procs : pc'[q] # "idle" => pc[q] # "idle"
      BY <1>7 DEF Register, Goto, Places, Inside
    <2> QED
      BY <1>7, <2>1, <2>2, <2>3, Zenon DEF Register
  <1>8. ASSUME NEW p \in Procs, TimeOut(p) \/ Resume(p)
        PROVE  Requests'
    <2>1. /\ pc' \in [Procs -> Places]
          /\ \A q \in Procs : pc'[q] # "idle" => pc[q] # "idle"
      BY <1>8, Zenon DEF TimeOut, Resume, Goto, Places, Inside
    <2>2. tick' \in [Procs -> Nat]
      BY <1>8 DEF TimeOut, Resume
    <2> QED
      BY <1>8, <2>1, <2>2, Zenon DEF TimeOut, Resume
  <1>9. CASE PeerSend \/ PeerClose
    BY <1>9, Zenon DEF PeerSend, PeerClose
  <1>10. CASE Snapshot \/ Poll \/ OnRecv \/ Recv \/ Leave \/ OnErr
    BY <1>10, Zenon DEF Snapshot, Poll, OnRecv, Recv, Leave, OnErr, WorkerPlaces, Serving,
                 TakingApart
  <1>11. CASE Respond
    BY <1>11, Queues, Zenon DEF Respond, WorkerPlaces, Serving, TakingApart
  <1>12. CASE Answer
    <2>1. tasks # <<>>
      BY <1>12 DEF Answer
    <2> QED
      BY <1>12, <2>1, Queues, Zenon DEF Answer, Woken, WorkerPlaces, Serving, Places
  <1>13. CASE RemoveIn \/ RemoveOut
    BY <1>13, Zenon DEF RemoveIn, RemoveOut, Remove, WorkerPlaces, Serving, TakingApart
  <1>14. CASE OnSend
    <2>1. sends # <<>> => Head(sends) \in Tasks /\ Tail(sends) \in Seq(Tasks)
      BY Queues
    <2>2. ASSUME sends # <<>>, NEW n \in Nat, n < Head(sends).len
          PROVE  [sends EXCEPT ![1].len = @ - n] \in Seq(Tasks)
      <3>1. 1 \in 1..Len(sends) /\ sends[1] = Head(sends)
        BY <2>2
      <3>2. sends[1] \in Tasks /\ n < sends[1].len
        BY <2>1, <2>2, <3>1
      <3>3. [sends[1] EXCEPT !.len = @ - n] \in Tasks
        <4>1. sends[1].len - n \in Nat
          BY <3>2 DEF Tasks
        <4> QED
          BY <3>2, <4>1, Zenon DEF Tasks
      <3> QED
        BY <3>1, <3>3, ExceptSeq
    <2>3. sends' \in Seq(Tasks)
      <3>1. sends # <<>> => 1..Head(sends).len \subseteq Nat
        BY <2>1 DEF Tasks
      <3> QED
        BY <1>14, <2>1, <2>2, <3>1, Zenon DEF OnSend
    <2>4. /\ wpc' \in WorkerPlaces /\ cur' \in Tasks \cup {NoTask}
          /\ wpc' \in {"answer", "sent", "drainAnswer"} => cur' \in Tasks
          /\ wpc' # "answer"
      BY <1>14, <2>1 DEF OnSend, WorkerPlaces
    <2> QED
      BY <1>14, <2>3, <2>4 DEF OnSend
  <1>15. CASE Sent \/ DrainAnswer
    BY <1>15, Zenon DEF Sent, DrainAnswer, Woken, WorkerPlaces, Serving, TakingApart, Places
  <1>16. CASE Drain
    <2>1. /\ tasks # <<>> => Head(tasks) \in Tasks /\ Tail(tasks) \in Seq(Tasks)
          /\ sends # <<>> => Head(sends) \in Tasks /\ Tail(sends) \in Seq(Tasks)
      BY Queues
    <2>2. tasks \o sends # <<>> => tasks # <<>> \/ sends # <<>>
      OBVIOUS
    <2> QED
      BY <1>16, <2>1, <2>2, Zenon DEF Drain, WorkerPlaces, Serving, TakingApart
  <1> QED
    BY <1>1, <1>2, <1>3, <1>4, <1>5, <1>6, <1>7, <1>8, <1>9, <1>10, <1>11, <1>12,
       <1>13, <1>14, <1>15, <1>16 DEF Next, Slice, Worker

(* Bytes and Requests hold from the start and are kept by every step.      *)
LEMMA BytesRequestsInv == Spec => [](Bytes /\ Requests)
  <1>1. Init => Bytes
    BY CacheAssumption, SocketAssumption
       DEF Init, Bytes, HandedOnce, Sound, NewCache, Caches, DataSize, Reserved
  <1>2. Init => Requests
    <2>1. <<>> \in Seq(Tasks)
      OBVIOUS
    <2>2. \A e \in OldBits : e \subseteq {"IN", "OUT"}
      BY SocketAssumption
    <2>3. MaxCalls \in Nat
      BY SocketAssumption
    <2>4. ASSUME Init
          PROVE  /\ pc \in [Procs -> Places] /\ call \in [Procs -> Calls \cup {NoTask}]
                 /\ \A p \in Procs : pc[p] # "idle" => call[p] \in Calls
                 /\ tick \in [Procs -> Nat] /\ seen \in [Procs -> Nat \cup {-1}]
      BY <2>4 DEF Init, Places
    <2>5. ASSUME Init
          PROVE  /\ wpc \in WorkerPlaces /\ cur \in Tasks \cup {NoTask}
                 /\ wpc \notin {"answer", "sent", "drainAnswer"}
      BY <2>5 DEF Init, WorkerPlaces
    <2>6. ASSUME Init
          PROVE  /\ open \in BOOLEAN /\ hanguped \in BOOLEAN /\ shut \in BOOLEAN
                 /\ tasks \in Seq(Tasks) /\ sends \in Seq(Tasks)
                 /\ peer \in {"open", "closed", "reset"} /\ registered \in BOOLEAN
      BY <2>1, <2>6, Zenon DEF Init
    <2>7. ASSUME Init
          PROVE  /\ events \subseteq {"IN", "OUT"} /\ snap \subseteq {"IN", "OUT", "HUP"}
                 /\ calls \in 0..MaxCalls /\ late \subseteq Procs \X Nat
      BY <2>2, <2>3, <2>7 DEF Init
    <2> QED
      BY <2>4, <2>5, <2>6, <2>7 DEF Requests
  <1>3. Bytes /\ Requests /\ [Next]_vars => (Bytes /\ Requests)'
    BY BytesStep, RequestsStep
  <1> QED
    BY <1>1, <1>2, <1>3, PTL DEF Spec

(* The types of SocketLink's variables.                                    *)
THEOREM TypeCorrect == Spec => []TypeOK
  <1>1. Bytes /\ Requests => TypeOK
    BY DEF Bytes, Requests, Sound, TypeOK
  <1> QED
    BY <1>1, BytesRequestsInv, PTL

(* For any calls and any order of timeouts, answers and reads, the bytes   *)
(* of the connection reach processes in order, each once, and those not    *)
(* yet handed out are in the cache.  TcpCache::Grow leaves room behind     *)
(* them whatever the sizes of page and step: OnRecv never asks for 0 bytes *)
(* and so never takes a full buffer for the end of the connection.         *)
THEOREM BytesAreKept == Spec => []BytesKept
  <1>1. Bytes => BytesKept
    BY DEF Bytes, Sound, RoomLeft, BytesKept
  <1> QED
    BY <1>1, BytesRequestsInv, PTL

-----------------------------------------------------------------------------
(* The link's life *)

(* The inductive form of NoUseAfterDelete: the device's lock keeps the     *)
(* worker that takes the link apart and the processes inside a call away   *)
(* from each other, and a deleted link is in neither copy of the slots.    *)
Life ==
    /\ wpc # "poll" => snap = {}
    /\ wpc \in TakingApart => \A p \in Procs : pc[p] \notin Inside
    /\ ~open => /\ ~registered /\ snap = {} /\ wpc \in {"wait", "poll"}
                /\ \A p \in Procs : pc[p] \notin Inside

LEMMA LifeStep ==
    ASSUME Requests, Life, [Next]_vars
    PROVE  Life'
  <1> USE DEF linkVars, dataVars, pollVars, procVars, Life, Inside, TakingApart
  <1>1. CASE UNCHANGED vars
    BY <1>1 DEF vars
  <1>2. ASSUME NEW p \in Procs, Call(p) \/ Slice(p) \/ TimeOut(p)
        PROVE  Life'
    <2>1. CASE Enter(p)
      <3>1. UNCHANGED <<open, registered, snap, wpc>> /\ wpc \notin TakingApart
        BY <2>1 DEF Enter
      <3>2. ~open => pc' = [pc EXCEPT ![p] = "idle"]
        BY <2>1 DEF Enter, Goto
      <3> QED
        BY <3>1, <3>2 DEF Requests
    <2>2. CASE Call(p) \/ Resume(p) \/ TimeOut(p)
      <3>1. UNCHANGED <<open, registered, snap, wpc>>
        BY <2>2 DEF Call, Resume, TimeOut
      <3>2. \E w \in {"enter", "idle", "woken"} : pc' = [pc EXCEPT ![p] = w]
        BY <2>2 DEF Call, Resume, TimeOut, Goto
      <3> QED
        BY <3>1, <3>2 DEF Requests
    <2>3. CASE Look(p) \/ FastRecvReturn(p) \/ Put(p) \/ Register(p)
      <3>1. pc[p] \in Inside /\ open /\ wpc \notin TakingApart
        BY <2>3 DEF Look, FastRecvReturn, Put, Register
      <3>2. UNCHANGED <<open, snap, wpc>>
        BY <2>3 DEF Look, FastRecvReturn, Put, Register
      <3> QED
        BY <3>1, <3>2
    <2> QED
      BY <1>2, <2>1, <2>2, <2>3 DEF Slice
  <1>3. CASE PeerSend \/ PeerClose
    BY <1>3 DEF PeerSend, PeerClose
  <1>4. CASE Snapshot \/ Poll
    BY <1>4 DEF Snapshot, Poll
  <1>5. CASE OnRecv \/ Recv \/ Respond \/ Leave \/ RemoveIn \/ OnSend \/ RemoveOut
    BY <1>5 DEF OnRecv, Recv, Respond, Leave, RemoveIn, Remove, OnSend, RemoveOut
  <1>6. CASE Answer \/ Sent \/ DrainAnswer
    <2>1. \A p \in Procs : pc'[p] \in Inside => pc[p] \in Inside
      BY <1>6 DEF Answer, Sent, DrainAnswer, Woken, Requests
    <2> QED
      BY <1>6, <2>1 DEF Answer, Sent, DrainAnswer
  <1>7. CASE OnErr \/ Drain
    BY <1>7 DEF OnErr, Drain
  <1> QED
    BY <1>1, <1>2, <1>3, <1>4, <1>5, <1>6, <1>7 DEF Next, Worker

(* The link is not deleted under a process or the worker, for any number   *)
(* of processes and calls: assert(ls!=NULL) in OnRecv cannot fail.         *)
THEOREM LinkOutlivesUsers == Spec => []NoUseAfterDelete
  <1>1. Init => Life
    BY DEF Init, Life, TakingApart
  <1>2. Life => NoUseAfterDelete
    BY DEF Life, NoUseAfterDelete
  <1>3. Requests /\ Life /\ [Next]_vars => Life'
    BY LifeStep
  <1> QED
    BY <1>1, <1>2, <1>3, BytesRequestsInv, PTL DEF Spec

-----------------------------------------------------------------------------
(* The embrace *)

(* A request other than a poll whose tick is its process's is that of the  *)
(* present call, and the process is past every lock of this call.          *)
Fresh(t) ==
    /\ t.type # "CLOSE"
    /\ t.tick <= tick[t.pid]
    /\ t.type # "POLL" /\ t.tick = tick[t.pid]
       => pc[t.pid] \in {"register", "wait", "woken"} /\ call[t.pid].type = t.type

Elems(s) == {s[i] : i \in 1..Len(s)}

Known == Elems(tasks) \cup Elems(sends) \cup ({cur} \ {NoTask})

AllFresh ==
    /\ \A t \in Known : Fresh(t)
    /\ wpc \in {"answer", "drainAnswer"} => cur.type # "POLL"
    /\ \A p \in Procs : pc[p] \in {"look", "fast", "put"} => call[p].type # "CLOSE"

(* What a step does to a request that is already known.                    *)
LEMMA FreshStays ==
    ASSUME Requests, [Next]_vars, NEW t \in Tasks, Fresh(t)
    PROVE  Fresh(t)'
  <1> USE DEF linkVars, dataVars, pollVars, procVars
  <1>1. t.pid \in Procs /\ t.tick \in Nat /\ tick[t.pid] \in Nat
    BY DEF Tasks, Requests
  <1>2. CASE UNCHANGED <<pc, call, tick>>
    BY <1>2 DEF Fresh
  <1>3. ASSUME NEW p \in Procs, Call(p) \/ Slice(p) \/ TimeOut(p)
        PROVE  Fresh(t)'
    <2>1. CASE t.pid # p
      <3>1. UNCHANGED <<pc[t.pid], call[t.pid], tick[t.pid]>>
        BY <1>1, <1>3, <2>1
           DEF Call, Slice, Enter, Look, FastRecvReturn, Put, Register, TimeOut, Resume,
               Goto, Requests
      <3> QED
        BY <3>1 DEF Fresh
    <2>2. CASE t.pid = p /\ Resume(p)
      <3>1. tick'[p] = tick[p] + 1
        BY <2>2 DEF Resume, Requests
      <3> QED
        BY <1>1, <2>2, <3>1 DEF Fresh
    <2>3. CASE t.pid = p /\ (Put(p) \/ Register(p) \/ TimeOut(p))
      <3>1. UNCHANGED <<call, tick>>
        BY <2>3 DEF Put, Register, TimeOut
      <3>2. \/ pc'[p] \in {"register", "wait", "woken"}
            \/ pc[p] = "register" /\ call[p].type \in {"POLL", "CLOSE"}
        BY <2>3 DEF Put, Register, TimeOut, Goto, Requests
      <3> QED
        BY <1>1, <2>3, <3>1, <3>2 DEF Fresh
    <2>4. CASE t.pid = p /\ (Call(p) \/ Enter(p) \/ Look(p) \/ FastRecvReturn(p))
      <3>1. UNCHANGED tick /\ pc[p] \notin {"register", "wait", "woken"}
        BY <2>4 DEF Call, Enter, Look, FastRecvReturn
      <3> QED
        BY <1>1, <2>4, <3>1 DEF Fresh
    <2> QED
      BY <1>3, <2>1, <2>2, <2>3, <2>4 DEF Slice
  <1>4. CASE Answer \/ Sent \/ DrainAnswer
    <2>1. /\ UNCHANGED <<call, tick>>
          /\ \A p \in Procs : pc'[p] = pc[p] \/ (pc[p] = "wait" /\ pc'[p] = "woken")
      BY <1>4 DEF Answer, Sent, DrainAnswer, Woken, Requests
    <2> QED
      BY <1>1, <2>1 DEF Fresh
  <1> QED
    BY <1>2, <1>3, <1>4
       DEF vars, Next, PeerSend, PeerClose, Worker, Snapshot, Poll, OnRecv, Recv,
           Respond, Leave, RemoveIn, OnSend, RemoveOut, OnErr, Drain

(* The elements of the queues, before and after an operation on them.      *)
LEMMA QueueElems ==
    ASSUME NEW s \in Seq(Tasks)
    PROVE  /\ Elems(s) \subseteq Tasks
           /\ s # <<>> => Head(s) \in Elems(s) /\ Elems(Tail(s)) \subseteq Elems(s)
           /\ \A t \in Tasks : Elems(Append(s, t)) \subseteq Elems(s) \cup {t}
           /\ \A t \in Tasks : s # <<>>
                => Elems([s EXCEPT ![1] = t]) \subseteq Elems(s) \cup {t}
  <1>1. Elems(s) \subseteq Tasks
    BY DEF Elems
  <1>2. ASSUME s # <<>>
        PROVE  Head(s) \in Elems(s) /\ Elems(Tail(s)) \subseteq Elems(s)
    <2>1. /\ Head(s) = s[1] /\ Len(s) \in Nat \ {0} /\ Len(Tail(s)) = Len(s) - 1
          /\ \A i \in 1..Len(Tail(s)) : Tail(s)[i] = s[i + 1]
      BY <1>2, HeadTailProperties
    <2> QED
      BY <2>1 DEF Elems
  <1>3. ASSUME NEW t \in Tasks
        PROVE  Elems(Append(s, t)) \subseteq Elems(s) \cup {t}
    BY AppendProperties DEF Elems
  <1>4. ASSUME NEW t \in Tasks, s # <<>>
        PROVE  Elems([s EXCEPT ![1] = t]) \subseteq Elems(s) \cup {t}
    <2>1. 1 \in 1..Len(s)
      BY <1>4
    <2>2. /\ Len([s EXCEPT ![1] = t]) = Len(s)
          /\ \A j \in 1..Len(s) : [s EXCEPT ![1] = t][j] = IF j = 1 THEN t ELSE s[j]
      BY <2>1, ExceptSeq
    <2> QED
      BY <2>2 DEF Elems
  <1> QED
    BY <1>1, <1>2, <1>3, <1>4

(* No step but Put and OnSend makes a request that was not known.          *)
LEMMA KnownStep ==
    ASSUME Requests, [Next]_vars, ~OnSend, \A p \in Procs : ~Put(p)
    PROVE  Known' \subseteq Known
  <1> USE DEF linkVars, dataVars, pollVars, procVars
  <1>1. /\ tasks # <<>> => Head(tasks) \in Elems(tasks) /\ Elems(Tail(tasks)) \subseteq Elems(tasks)
        /\ sends # <<>> => Head(sends) \in Elems(sends) /\ Elems(Tail(sends)) \subseteq Elems(sends)
    BY QueueElems DEF Requests
  <1>2. CASE UNCHANGED <<tasks, sends, cur>>
    BY <1>2 DEF Known, Elems
  <1>3. CASE Respond
    BY <1>1, <1>2, <1>3, Zenon DEF Respond, Known
  <1>4. CASE Answer
    BY <1>1, <1>4 DEF Answer, Known, Requests
  <1>5. CASE Sent \/ DrainAnswer
    BY <1>5 DEF Sent, DrainAnswer, Known
  <1>6. CASE Drain
    <2>1. tasks \o sends # <<>> => tasks # <<>> \/ sends # <<>>
      BY DEF Requests
    <2>2. /\ Elems(tasks)' \subseteq Elems(tasks) /\ Elems(sends)' \subseteq Elems(sends)
          /\ cur' \in {cur} \cup Elems(tasks) \cup Elems(sends)
      BY <1>1, <1>6, <2>1, Zenon DEF Drain
    <2> QED
      BY <2>2 DEF Known
  <1> QED
    BY <1>2, <1>3, <1>4, <1>5, <1>6
       DEF vars, Next, Slice, Worker, Call, Enter, Look, FastRecvReturn, Register,
           TimeOut, Resume, PeerSend, PeerClose, Snapshot, Poll, OnRecv, Recv, Leave,
           RemoveIn, RemoveOut, OnErr

LEMMA AllFreshStep ==
    ASSUME Requests, AllFresh, [Next]_vars
    PROVE  AllFresh'
  <1> USE DEF linkVars, dataVars, pollVars, procVars
  <1>1. Known \subseteq Tasks
    BY QueueElems DEF Requests, Known
  <1>2. \A t \in Known : Fresh(t)'
    BY <1>1, FreshStays DEF AllFresh
  <1>3. \A t \in Known' : Fresh(t)'
    <2>1. CASE ~OnSend /\ \A p \in Procs : ~Put(p)
      BY <1>2, <2>1, KnownStep
    <2>2. ASSUME NEW p \in Procs, Put(p)
          PROVE  \A t \in Known' : Fresh(t)'
      <3> DEFINE t == [type |-> call[p].type, len |-> call[p].len, pid |-> p, tick |-> tick[p]]
                 u == [t EXCEPT !.len = SendLen]
      <3>1. call[p] \in Calls /\ call[p].type # "CLOSE"
        BY <2>2 DEF Put, Requests, AllFresh
      <3>2. t \in Tasks /\ u \in Tasks
        BY <3>1, SocketAssumption, Zenon DEF Tasks, Requests
      <3>3. Known' \subseteq Known \cup {t, u}
        <4>1. /\ Elems(Append(tasks, t)) \subseteq Elems(tasks) \cup {t}
              /\ Elems(Append(sends, u)) \subseteq Elems(sends) \cup {u}
          BY <3>2, QueueElems DEF Requests
        <4> QED
          BY <2>2, <4>1, Zenon DEF Put, Known
      <3>4. /\ pc'[p] = "register" /\ UNCHANGED <<call, tick>> /\ tick[p] \in Nat
        BY <2>2 DEF Put, Goto, Requests
      <3>5. \A w \in {t, u} : w.pid = p /\ w.type = call[p].type /\ w.tick = tick[p]
        OBVIOUS
      <3> HIDE DEF t, u
      <3>6. \A w \in {t, u} : Fresh(w)'
        BY <3>1, <3>4, <3>5 DEF Fresh
      <3> QED
        BY <1>2, <3>3, <3>6
    <2>3. CASE OnSend
      <3>1. CASE sends = <<>> \/ sends' = sends
        BY <1>2, <2>3, <3>1 DEF OnSend, Known
      <3>2. CASE sends # <<>> /\ sends' # sends
        <4>1. Head(sends) \in Elems(sends) /\ Elems(Tail(sends)) \subseteq Elems(sends)
          BY <3>2, QueueElems DEF Requests
        <4>2. CASE sends' = Tail(sends) /\ cur' = Head(sends)
          BY <1>2, <2>3, <4>1, <4>2 DEF OnSend, Known
        <4>3. ASSUME NEW n \in 1..Head(sends).len, n < Head(sends).len,
                     sends' = [sends EXCEPT ![1].len = @ - n], UNCHANGED cur
              PROVE  \A t \in Known' : Fresh(t)'
          <5> DEFINE u == [sends[1] EXCEPT !.len = @ - n]
          <5>1. sends[1] = Head(sends) /\ sends[1] \in Tasks /\ sends[1] \in Known
            BY <1>1, <3>2, <4>1 DEF Known, Requests
          <5>2. sends[1].len - n \in Nat
            BY <4>3, <5>1 DEF Tasks
          <5>3. /\ u \in Tasks
                /\ u.pid = sends[1].pid /\ u.type = sends[1].type /\ u.tick = sends[1].tick
            BY <5>1, <5>2 DEF Tasks
          <5>4. Known' \subseteq Known \cup {u}
            <6>1. Elems([sends EXCEPT ![1] = u]) \subseteq Elems(sends) \cup {u}
              <7> HIDE DEF u
              <7> QED
                BY <3>2, <5>3, QueueElems DEF Requests
            <6> QED
              BY <2>3, <4>3, <6>1 DEF OnSend, Known, Elems
          <5>5. UNCHANGED <<pc, call, tick>>
            BY <2>3 DEF OnSend
          <5> HIDE DEF u
          <5>6. Fresh(sends[1])
            BY <5>1 DEF AllFresh
          <5>7. \A w \in {u} : Fresh(w)'
            BY <5>3, <5>5, <5>6 DEF Fresh
          <5> QED
            BY <1>2, <5>4, <5>7
        <4> QED
          BY <2>3, <3>2, <4>2, <4>3 DEF OnSend
      <3> QED
        BY <3>1, <3>2
    <2> QED
      BY <2>1, <2>2, <2>3
  <1>4. wpc' \in {"answer", "drainAnswer"} => cur'.type # "POLL"
    BY Zenon DEF AllFresh, vars, Next, Slice, Worker, Call, Enter, Look, FastRecvReturn, Put,
           Register, TimeOut, Resume, PeerSend, PeerClose, Snapshot, Poll, OnRecv, Recv,
           Respond, Answer, Leave, RemoveIn, OnSend, RemoveOut, Sent, OnErr, Drain,
           DrainAnswer
  <1>5. \A p \in Procs : pc'[p] \in {"look", "fast", "put"} => call'[p].type # "CLOSE"
    <2>1. ASSUME NEW p \in Procs, Call(p) \/ Slice(p) \/ TimeOut(p)
          PROVE  /\ \A q \in Procs \ {p} : UNCHANGED <<pc[q], call[q]>>
                 /\ \/ pc'[p] \notin {"look", "fast", "put"}
                    \/ pc[p] \in {"look", "fast", "put"} /\ UNCHANGED call[p]
                    \/ UNCHANGED call[p] /\ call[p].type # "CLOSE"
      BY <2>1 DEF Call, Slice, Enter, Look, FastRecvReturn, Put, Register, TimeOut, Resume,
                  Goto, Requests
    <2>2. CASE Answer \/ Sent \/ DrainAnswer
      <3>1. /\ UNCHANGED call
            /\ \A p \in Procs : pc'[p] = pc[p] \/ pc'[p] = "woken"
        BY <2>2 DEF Answer, Sent, DrainAnswer, Woken, Requests
      <3> QED
        BY <3>1 DEF AllFresh
    <2>3. CASE UNCHANGED <<pc, call>>
      BY <2>3 DEF AllFresh
    <2> QED
      BY <2>1, <2>2, <2>3
         DEF AllFresh, vars, Next, PeerSend, PeerClose, Worker, Snapshot, Poll, OnRecv,
             Recv, Respond, Leave, RemoveIn, OnSend, RemoveOut, OnErr, Drain
  <1> QED
    BY <1>3, <1>4, <1>5 DEF AllFresh

(* For any processes and calls: the worker, waiting for the _IntLock of a  *)
(* process that waits for a lock of the worker's, holds a request of an    *)
(* earlier slice, whose wait the timeout ended while ResponseEx was        *)
(* between its look at the tick and the lock.                              *)
THEOREM EmbraceAfterTimeout == Spec => []EmbraceOnlyAfterTimeout
  <1>1. Init => AllFresh
    BY DEF Init, AllFresh, Known, Elems
  <1>2. Requests /\ AllFresh => EmbraceOnlyAfterTimeout
    <2>1. ASSUME Requests, AllFresh, Embrace
          PROVE  tick[cur.pid] # cur.tick
      <3>1. cur \in Tasks /\ cur # NoTask /\ cur.type # "POLL"
        BY <2>1 DEF Embrace, Requests, AllFresh, Tasks, NoTask
      <3>2. Fresh(cur)
        BY <2>1, <3>1 DEF AllFresh, Known
      <3> QED
        BY <2>1, <3>1, <3>2 DEF Embrace, Fresh
    <2> QED
      BY <2>1 DEF EmbraceOnlyAfterTimeout
  <1>3. Requests /\ AllFresh /\ [Next]_vars => AllFresh'
    BY AllFreshStep
  <1> QED
    BY <1>1, <1>2, <1>3, BytesRequestsInv, PTL DEF Spec

-----------------------------------------------------------------------------
(* Requests are kept *)

LEMMA QueueKeeps ==
    ASSUME NEW s \in Seq(Tasks)
    PROVE  /\ s # <<>> => Elems(s) \subseteq Elems(Tail(s)) \cup {Head(s)}
           /\ \A t \in Tasks : /\ Elems(s) \cup {t} \subseteq Elems(Append(s, t))
                               /\ s = <<>> => Head(Append(s, t)) = t
                               /\ s # <<>> => Head(Append(s, t)) = Head(s)
           /\ \A t \in Tasks : s # <<>> =>
                 /\ Elems(s) \cup {t} \subseteq Elems([s EXCEPT ![1] = t]) \cup {s[1]}
                 /\ t \in Elems([s EXCEPT ![1] = t])
  <1>1. ASSUME s # <<>>
        PROVE  Elems(s) \subseteq Elems(Tail(s)) \cup {Head(s)}
    <2>1. /\ Head(s) = s[1] /\ Len(s) \in Nat \ {0} /\ Len(Tail(s)) = Len(s) - 1
          /\ \A i \in 1..Len(Tail(s)) : Tail(s)[i] = s[i + 1]
      BY <1>1, HeadTailProperties
    <2>2. ASSUME NEW i \in 1..Len(s), i # 1
          PROVE  s[i] \in Elems(Tail(s))
      <3>1. i - 1 \in 1..Len(Tail(s)) /\ Tail(s)[i - 1] = s[i]
        BY <2>1, <2>2
      <3> QED
        BY <3>1 DEF Elems
    <2> QED
      BY <2>1, <2>2 DEF Elems
  <1>2. ASSUME NEW t \in Tasks
        PROVE  /\ Elems(s) \cup {t} \subseteq Elems(Append(s, t))
               /\ s = <<>> => Head(Append(s, t)) = t
               /\ s # <<>> => Head(Append(s, t)) = Head(s)
    <2>1. /\ Append(s, t) \in Seq(Tasks) /\ Len(Append(s, t)) = Len(s) + 1 /\ Len(s) \in Nat
          /\ \A i \in 1..Len(s) : Append(s, t)[i] = s[i]
          /\ Append(s, t)[Len(s) + 1] = t
      OBVIOUS
    <2>2. \A i \in 1..Len(s) + 1 : Append(s, t)[i] \in Elems(Append(s, t))
      BY <2>1 DEF Elems
    <2>3. Elems(s) \cup {t} \subseteq Elems(Append(s, t))
      BY <2>1, <2>2 DEF Elems
    <2> QED
      BY <2>3
  <1>3. ASSUME NEW t \in Tasks, s # <<>>
        PROVE  /\ Elems(s) \cup {t} \subseteq Elems([s EXCEPT ![1] = t]) \cup {s[1]}
               /\ t \in Elems([s EXCEPT ![1] = t])
    <2>1. 1 \in 1..Len(s)
      BY <1>3
    <2>2. /\ Len([s EXCEPT ![1] = t]) = Len(s)
          /\ \A j \in 1..Len(s) : [s EXCEPT ![1] = t][j] = IF j = 1 THEN t ELSE s[j]
      BY <2>1, ExceptSeq
    <2> QED
      BY <2>1, <2>2 DEF Elems
  <1> QED
    BY <1>1, <1>2, <1>3

(* A cache without enough for a request has not enough after bytes have    *)
(* been taken out of it.                                                   *)
LEMMA LineLenIs ==
    ASSUME Sound(cache)
    PROVE  LineLen = 0 <=> \A i \in 1..DataSize(cache) : Stream[eaten + i] # "n"
  <1> DEFINE ends == {i \in 1..DataSize(cache) : Stream[eaten + i] = "n"}
  <1>1. ends \subseteq Nat /\ 0 \notin ends
    BY DEF Sound, DataSize, Caches
  <1>2. CASE ends = {}
    BY <1>2 DEF LineLen
  <1>3. CASE ends # {}
    <2>1. \E i \in ends : \A j \in ends : i <= j
      <3> HIDE DEF ends
      <3> QED
        BY <1>1, <1>3, LeastExists, Zenon
    <2>2. LineLen \in ends
      BY <1>3, <2>1 DEF LineLen
    <2> QED
      BY <1>1, <1>3, <2>2
  <1> QED
    BY <1>2, <1>3

LEMMA StaysShort ==
    ASSUME Bytes, NEW n \in Nat, n <= DataSize(cache), Hand(n),
           NEW t \in Tasks \cup Calls, ~Servable(t)
    PROVE  ~Servable(t)'
  <1>1. /\ Sound(cache') /\ DataSize(cache') = DataSize(cache) - n
        /\ Sound(cache) /\ DataSize(cache) \in Nat /\ eaten' = eaten + n /\ eaten \in Nat
    <2>1. Sound(cache') /\ DataSize(cache') = DataSize(cache) - n
      BY EatKeeps DEF Bytes, Hand
    <2>2. Sound(cache) /\ DataSize(cache) \in Nat
      BY DEF Bytes, Sound, Caches, DataSize
    <2>3. eaten' = eaten + n /\ eaten \in Nat
      BY DEF Bytes, Hand
    <2> QED
      BY <2>1, <2>2, <2>3
  <1>2. t.len \in Nat /\ t.type \in Types
    BY SocketAssumption DEF Tasks
  <1>3. ASSUME LineLen = 0
        PROVE  LineLen' = 0
    <2>1. \A i \in 1..DataSize(cache) : Stream[eaten + i] # "n"
      BY <1>1, <1>3, LineLenIs
    <2>2. ASSUME NEW i \in 1..DataSize(cache')
          PROVE  Stream[eaten' + i] # "n"
      <3>1. n + i \in 1..DataSize(cache) /\ eaten' + i = eaten + (n + i)
        BY <1>1
      <3> QED
        BY <2>1, <3>1
    <2>3. Sound(cache)' => (LineLen = 0 <=> \A i \in 1..DataSize(cache) : Stream[eaten + i] # "n")'
      BY LineLenIs, PTL
    <2> QED
      BY <1>1, <2>2, <2>3
  <1> QED
    BY <1>1, <1>2, <1>3 DEF Servable, Portion, Types

(* A process that waits, or is about to, for an answer.                    *)
Awaits(p) == pc[p] = "wait" \/ (pc[p] = "register" /\ call[p].type \notin {"POLL", "CLOSE"})

(* The request of its present call.  A poll of the same slice has the same *)
(* pid and tick: the kind tells them apart.                                *)
IsOf(t, p) == t.pid = p /\ t.tick = tick[p] /\ t.type = call[p].type

Remembered(p) ==
    \/ \E t \in Elems(tasks) \cup Elems(sends) : IsOf(t, p)
    \/ wpc \in {"removeOut", "sent", "drainAnswer"} /\ cur \in Tasks /\ cur.pid = p
    \/ call[p].type = "RECV_LINE" /\ (~open \/ wpc \in TakingApart)

(* The inductive form of NotForgotten.                                     *)
AllRemembered ==
    /\ wpc = "answer" => cur = Head(tasks)
    /\ \A p \in Procs : pc[p] = "wait" => call[p].type \notin {"POLL", "CLOSE"}
    /\ \A p \in Procs : Awaits(p) => Remembered(p)

(* Steps that leave the process alone and take no request of its away.     *)
LEMMA RememberedStays ==
    ASSUME NEW p \in Procs, Remembered(p),
           UNCHANGED <<call[p], tick[p]>>, ~open => ~open',
           \A t \in Elems(tasks) \cup Elems(sends) : IsOf(t, p) =>
              \/ t \in Elems(tasks') \cup Elems(sends')
              \/ wpc' \in {"removeOut", "sent", "drainAnswer"} /\ cur' = t /\ t \in Tasks
              \/ t.type = "RECV_LINE" /\ wpc' \in TakingApart,
           wpc \in {"removeOut", "sent", "drainAnswer"} /\ cur \in Tasks /\ cur.pid = p =>
              wpc' \in {"removeOut", "sent", "drainAnswer"} /\ cur' = cur,
           wpc \in TakingApart => wpc' \in TakingApart \/ ~open'
    PROVE  Remembered(p)'
  <1>1. ASSUME NEW t \in Elems(tasks) \cup Elems(sends), IsOf(t, p)
        PROVE  Remembered(p)'
    <2>1. IsOf(t, p)'
      BY <1>1 DEF IsOf
    <2>2. CASE t \in Elems(tasks') \cup Elems(sends')
      BY <2>1, <2>2 DEF Remembered, Elems
    <2>3. CASE wpc' \in {"removeOut", "sent", "drainAnswer"} /\ cur' = t /\ t \in Tasks
      BY <1>1, <2>3 DEF Remembered, IsOf
    <2>4. CASE t.type = "RECV_LINE" /\ wpc' \in TakingApart
      BY <1>1, <2>4 DEF Remembered, IsOf
    <2> QED
      BY <1>1, <2>2, <2>3, <2>4
  <1>2. CASE wpc \in {"removeOut", "sent", "drainAnswer"} /\ cur \in Tasks /\ cur.pid = p
    BY <1>2 DEF Remembered
  <1>3. CASE call[p].type = "RECV_LINE" /\ (~open \/ wpc \in TakingApart)
    BY <1>3 DEF Remembered
  <1> QED
    BY <1>1, <1>2, <1>3 DEF Remembered

(* The steps of a process: only Put changes the queues, at their ends.     *)
LEMMA CallsRemembered ==
    ASSUME Requests, AllFresh, AllRemembered, NEW q \in Procs, Call(q) \/ Slice(q) \/ TimeOut(q)
    PROVE  AllRemembered'
  <1> USE DEF linkVars, dataVars, pollVars, procVars
  <1>1. UNCHANGED <<open, wpc, cur>>
    BY DEF Call, Slice, Enter, Look, FastRecvReturn, Put, Register, TimeOut, Resume
  <1>2. \A p \in Procs \ {q} : UNCHANGED <<pc[p], call[p], tick[p]>>
    BY DEF Call, Slice, Enter, Look, FastRecvReturn, Put, Register, TimeOut, Resume, Goto, Requests
  <1>3. /\ Elems(tasks) \subseteq Elems(tasks') /\ Elems(sends) \subseteq Elems(sends')
        /\ tasks # <<>> => Head(tasks') = Head(tasks)
        /\ Put(q) => \E t \in Elems(tasks') \cup Elems(sends') :
                        t.pid = q /\ t.tick = tick[q] /\ t.type = call[q].type
    <2>1. CASE Put(q)
      <3> DEFINE t == [type |-> call[q].type, len |-> call[q].len, pid |-> q, tick |-> tick[q]]
                 u == [t EXCEPT !.len = SendLen]
      <3>1. call[q] \in Calls
        BY <2>1 DEF Put, Requests
      <3>2. t \in Tasks /\ u \in Tasks
        BY <3>1, SocketAssumption, Zenon DEF Tasks, Requests
      <3>3. /\ t.pid = q /\ t.tick = tick[q] /\ t.type = call[q].type
            /\ u.pid = q /\ u.tick = tick[q] /\ u.type = call[q].type
        OBVIOUS
      <3>4. \/ sends' = Append(sends, u) /\ tasks' = tasks
            \/ tasks' = Append(tasks, t) /\ sends' = sends
        BY <2>1, Zenon DEF Put
      <3> HIDE DEF t, u
      <3>5. tasks \in Seq(Tasks) /\ sends \in Seq(Tasks)
        BY DEF Requests
      <3>6. /\ Elems(sends) \cup {u} \subseteq Elems(Append(sends, u))
            /\ Elems(tasks) \cup {t} \subseteq Elems(Append(tasks, t))
            /\ tasks # <<>> => Head(Append(tasks, t)) = Head(tasks)
        BY <3>2, <3>5, QueueKeeps
      <3> QED
        BY <3>3, <3>4, <3>6, Zenon
    <2>2. CASE UNCHANGED <<tasks, sends>> /\ ~Put(q)
      BY <2>2, Zenon
    <2> QED
      BY <2>1, <2>2 DEF Call, Slice, Enter, Look, FastRecvReturn, Register, TimeOut, Resume
  <1>4. wpc' = "answer" => cur' = Head(tasks')
    BY <1>1, <1>3 DEF AllRemembered, Requests
  <1>5. ASSUME NEW p \in Procs, pc'[p] = "wait"
        PROVE  call'[p].type \notin {"POLL", "CLOSE"}
    <2>1. CASE p # q
      BY <1>2, <1>5, <2>1 DEF AllRemembered
    <2>2. CASE p = q
      <3>1. UNCHANGED call /\ (pc[p] = "wait" \/ call[p].type \notin {"POLL", "CLOSE"})
        BY <1>5, <2>2 DEF Call, Slice, Enter, Look, FastRecvReturn, Put, Register, TimeOut,
                          Resume, Goto, Requests
      <3> QED
        BY <3>1 DEF AllRemembered
    <2> QED
      BY <2>1, <2>2
  <1>6. ASSUME NEW p \in Procs, Awaits(p)', Awaits(p), UNCHANGED <<call[p], tick[p]>>
        PROVE  Remembered(p)'
    <2>1. Remembered(p)
      BY <1>6 DEF AllRemembered
    <2> QED
      BY <1>1, <1>3, <1>6, <2>1, RememberedStays, Zenon
  <1>7. ASSUME NEW p \in Procs, Awaits(p)'
        PROVE  Remembered(p)'
    <2>1. CASE p # q
      BY <1>2, <1>6, <1>7, <2>1 DEF Awaits
    <2>2. CASE p = q /\ Put(q)
      <3>1. UNCHANGED <<call, tick>>
        BY <2>2 DEF Put
      <3> QED
        BY <1>3, <2>2, <3>1 DEF Remembered, IsOf, Elems
    <2>3. CASE p = q /\ ~Put(q)
      <3>1. UNCHANGED <<call[p], tick[p]>> /\ pc[p] = "register" /\ call[p].type \notin {"POLL", "CLOSE"}
        BY <1>7, <2>3 DEF Call, Slice, Enter, Look, FastRecvReturn, Register, TimeOut,
                          Resume, Goto, Requests, Awaits
      <3> QED
        BY <1>6, <1>7, <3>1 DEF Awaits
    <2> QED
      BY <2>1, <2>2, <2>3
  <1> QED
    BY <1>4, <1>5, <1>7 DEF AllRemembered

(* The steps of the worker: what it takes off a queue is not the request   *)
(* of a process that goes on waiting, or is what it answers next.          *)
LEMMA WorkerRemembers ==
    ASSUME Requests, Life, AllFresh, AllRemembered, Worker
    PROVE  AllRemembered'
  <1> USE DEF linkVars, dataVars, pollVars, procVars
  <1>1. UNCHANGED <<call, tick>> /\ (~open => ~open')
    BY DEF Worker, Snapshot, Poll, OnRecv, Recv, Respond, Answer, Leave, RemoveIn, OnSend,
           RemoveOut, Sent, OnErr, Drain, DrainAnswer
  <1>2. \A p \in Procs : pc'[p] = pc[p] \/ pc'[p] = "woken"
    BY DEF Worker, Snapshot, Poll, OnRecv, Recv, Respond, Answer, Leave, RemoveIn, OnSend,
           RemoveOut, Sent, OnErr, Drain, DrainAnswer, Woken, Requests
  <1>3. wpc' = "answer" => cur' = Head(tasks')
    BY DEF Worker, Snapshot, Poll, OnRecv, Recv, Respond, Answer, Leave, RemoveIn, OnSend,
           RemoveOut, Sent, OnErr, Drain, DrainAnswer
  <1>4. \A p \in Procs : pc'[p] = "wait" => call'[p].type \notin {"POLL", "CLOSE"}
    BY <1>1, <1>2 DEF AllRemembered
  <1>5. tasks \in Seq(Tasks) /\ sends \in Seq(Tasks) /\ NoTask \notin Tasks
    BY DEF Requests, NoTask, Tasks, Types
  <1>6. ASSUME NEW p \in Procs, Awaits(p)'
        PROVE  Remembered(p)'
    <2>1. pc'[p] = pc[p] /\ Awaits(p) /\ call[p].type \notin {"POLL", "CLOSE"} /\ Remembered(p)
      BY <1>1, <1>2, <1>6 DEF Awaits, AllRemembered
    <2>2. CASE Snapshot \/ Poll \/ OnRecv \/ Recv \/ Leave \/ RemoveIn \/ OnErr
      <3>1. UNCHANGED <<tasks, sends>>
            /\ wpc \notin {"removeOut", "sent", "drainAnswer"} \cup TakingApart
        BY <2>2 DEF Snapshot, Poll, OnRecv, Recv, Leave, RemoveIn, OnErr, TakingApart
      <3> QED
        BY <1>1, <2>1, <3>1, RememberedStays
    <2>3. CASE Respond
      <3>1. wpc = "respond" /\ UNCHANGED sends
        BY <2>3 DEF Respond
      <3>2. ASSUME NEW t \in Elems(tasks), IsOf(t, p)
            PROVE  t \in Elems(tasks')
        <4>1. CASE tasks' = tasks
          BY <3>2, <4>1
        <4>2. CASE tasks' # tasks
          <5>1. /\ tasks # <<>> /\ tasks' = Tail(tasks)
                /\ Head(tasks).type = "POLL" \/ Cancelled(Head(tasks))
            BY <2>3, <4>2 DEF Respond
          <5>2. t # Head(tasks)
            BY <2>1, <3>2, <5>1 DEF IsOf, Cancelled
          <5> QED
            BY <1>5, <3>2, <5>1, <5>2, QueueKeeps
        <4> QED
          BY <4>1, <4>2
      <3> QED
        BY <1>1, <2>1, <3>1, <3>2, RememberedStays DEF TakingApart
    <2>4. CASE Answer
      <3>1. wpc = "answer" /\ UNCHANGED sends /\ tasks # <<>> /\ tasks' = Tail(tasks) /\ cur = Head(tasks)
            /\ cur \in Tasks
        BY <2>4 DEF Answer, Requests, AllRemembered
      <3>2. p # cur.pid
        BY <1>6, <2>1, <2>4, <3>1 DEF Answer, Woken, InSlice, Inside, Awaits, Requests
      <3>3. \A t \in Elems(tasks) : IsOf(t, p) => t \in Elems(tasks')
        BY <1>5, <3>1, <3>2, QueueKeeps DEF IsOf
      <3> QED
        BY <1>1, <2>1, <3>1, <3>3, RememberedStays DEF TakingApart
    <2>5. CASE RemoveOut
      <3>1. UNCHANGED <<tasks, sends, cur>> /\ wpc = "removeOut" /\ (cur # NoTask => wpc' = "sent")
        BY <2>5 DEF RemoveOut
      <3> QED
        BY <1>1, <1>5, <2>1, <3>1, RememberedStays DEF TakingApart
    <2>6. CASE Sent \/ DrainAnswer
      <3>1. /\ UNCHANGED <<tasks, sends>> /\ wpc \in {"sent", "drainAnswer"} /\ cur \in Tasks
            /\ wpc = "drainAnswer" => wpc' = "drain"
        BY <2>6 DEF Sent, DrainAnswer, Requests
      <3>2. p # cur.pid
        BY <1>6, <2>1, <2>6, <3>1 DEF Sent, DrainAnswer, Woken, InSlice, Inside, Awaits, Requests
      <3> QED
        BY <1>1, <2>1, <3>1, <3>2, RememberedStays DEF TakingApart
    <2>7. CASE OnSend
      <3>1. wpc = "onSend" /\ UNCHANGED tasks
        BY <2>7 DEF OnSend
      <3>2. CASE UNCHANGED sends
        BY <1>1, <2>1, <3>1, <3>2, RememberedStays DEF TakingApart
      <3>3. CASE sends # <<>> /\ sends' = Tail(sends) /\ cur' = Head(sends) /\ wpc' \in {"removeOut", "sent"}
        <4>1. Elems(sends) \subseteq Elems(sends') \cup {cur'}
          BY <1>5, <3>3, QueueKeeps
        <4>2. cur' \in Tasks
          BY <1>5, <3>3
        <4> QED
          BY <1>1, <2>1, <3>1, <3>3, <4>1, <4>2, RememberedStays DEF TakingApart
      <3>4. ASSUME NEW n \in 1..Head(sends).len, sends # <<>>, n < Head(sends).len,
                   sends' = [sends EXCEPT ![1].len = @ - n]
            PROVE  Remembered(p)'
        <4>1. PICK h \in Tasks : h = Head(sends) /\ h = sends[1] /\ 1 \in 1..Len(sends)
          BY <1>5, <3>4
        <4>2. PICK u : u = [type |-> h.type, len |-> h.len - n, pid |-> h.pid, tick |-> h.tick]
          BY Zenon
        <4>3. /\ u = [h EXCEPT !.len = @ - n] /\ u \in Tasks
              /\ u.pid = h.pid /\ u.tick = h.tick /\ u.type = h.type
          BY <3>4, <4>1, <4>2 DEF Tasks
        <4>4. sends' = [sends EXCEPT ![1] = u]
          BY <3>4, <4>1, <4>3
        <4>5. /\ Elems(sends) \subseteq Elems(sends') \cup {h} /\ u \in Elems(sends')
          BY <1>5, <3>4, <4>1, <4>3, <4>4, QueueKeeps, Zenon
        <4>6. CASE IsOf(h, p)
          <5>1. IsOf(u, p)'
            BY <1>1, <4>3, <4>6 DEF IsOf
          <5> QED
            BY <4>5, <5>1 DEF Remembered, Elems
        <4>7. CASE ~IsOf(h, p)
          BY <1>1, <2>1, <3>1, <4>5, <4>7, RememberedStays DEF TakingApart
        <4> QED
          BY <4>6, <4>7
      <3> QED
        BY <2>7, <3>2, <3>3, <3>4 DEF OnSend
    <2>8. CASE Drain
      <3> DEFINE h == IF tasks # <<>> THEN Head(tasks) ELSE Head(sends)
      <3>1. wpc = "drain"
        BY <2>8 DEF Drain
      <3>2. CASE UNCHANGED <<tasks, sends>> /\ ~open'
        BY <1>1, <2>1, <3>1, <3>2, RememberedStays DEF TakingApart
      <3>3. CASE /\ tasks \o sends # <<>>
                 /\ tasks' = IF tasks # <<>> THEN Tail(tasks) ELSE tasks
                 /\ sends' = IF tasks # <<>> THEN sends ELSE Tail(sends)
                 /\ IF h.type = "SEND" \/ (h.type = "RECV" /\ ~Cancelled(h))
                    THEN wpc' = "drainAnswer" /\ cur' = h
                    ELSE UNCHANGED <<wpc, cur>>
        <4>1. h \in Tasks /\ (tasks # <<>> \/ sends # <<>>)
          BY <1>5, <3>3
        <4>2. Elems(tasks) \cup Elems(sends) \subseteq Elems(tasks') \cup Elems(sends') \cup {h}
          BY <1>5, <3>3, <4>1, QueueKeeps
        <4>3. IsOf(h, p) => \/ wpc' = "drainAnswer" /\ cur' = h
                            \/ h.type = "RECV_LINE"
          BY <2>1, <3>3, <4>1 DEF IsOf, Cancelled, Tasks, Types
        <4>4. wpc' \in TakingApart
          BY <3>1, <3>3 DEF TakingApart
        <4> HIDE DEF h
        <4> QED
          BY <1>1, <2>1, <3>1, <4>1, <4>2, <4>3, <4>4, RememberedStays
      <3> QED
        BY <2>8, <3>2, <3>3 DEF Drain
    <2> QED
      BY <2>2, <2>3, <2>4, <2>5, <2>6, <2>7, <2>8 DEF Worker
  <1> QED
    BY <1>3, <1>4, <1>6 DEF AllRemembered

LEMMA AllRememberedStep ==
    ASSUME Requests, Life, AllFresh, AllRemembered, [Next]_vars
    PROVE  AllRemembered'
  <1>1. CASE UNCHANGED vars
    BY <1>1 DEF vars, linkVars, procVars, AllRemembered, Awaits, Remembered, IsOf, Elems
  <1>2. CASE PeerSend \/ PeerClose
    BY <1>2 DEF PeerSend, PeerClose, linkVars, procVars, AllRemembered, Awaits, Remembered, IsOf, Elems
  <1> QED
    BY <1>1, <1>2, CallsRemembered, WorkerRemembers DEF Next

(* Where the worker is past the queue, or before it: between two passes    *)
(* of Response.                                                            *)
Past == {"wait", "poll", "onRecv", "onSend", "removeOut", "sent", "leave", "removeIn"}

(* A request not yet queued was compared with the cache: what was read     *)
(* since then makes it late.                                               *)
Looked(p) ==
    /\ pc[p] = "put" /\ call[p].type # "SEND" =>
          seen[p] <= got /\ (seen[p] = got => ~Servable(call[p]))
    /\ pc[p] \in {"look", "fast"} => call[p].type \in {"RECV", "RECV_LINE"}

(* The inductive form of NotStranded.                                      *)
AllLooked ==
    /\ wpc \in Past /\ tasks # <<>> =>
          ~Servable(Head(tasks)) \/ <<Head(tasks).pid, Head(tasks).tick>> \in late
    /\ \A p \in Procs : Looked(p)

LEMMA SameCache ==
    ASSUME NEW t, UNCHANGED <<cache, eaten>>
    PROVE  Servable(t)' <=> Servable(t)
BY DEF Servable, Portion, LineLen

(* Another process's comparison with the cache stands when bytes are taken *)
(* out of it, and is out of date when bytes are read into it.              *)
LEMMA LookStands ==
    ASSUME Bytes, Requests, AllLooked, NEW p \in Procs, UNCHANGED <<pc[p], call[p], seen[p]>>,
           \/ UNCHANGED <<cache, eaten, got>>
           \/ UNCHANGED got /\ \E n \in Nat : n <= DataSize(cache) /\ Hand(n)
           \/ got' \in Nat /\ got' > got
    PROVE  Looked(p)'
  <1>1. pc'[p] \in {"look", "fast"} => call'[p].type \in {"RECV", "RECV_LINE"}
    BY DEF AllLooked, Looked
  <1>2. ASSUME pc'[p] = "put", call'[p].type # "SEND"
        PROVE  seen'[p] <= got' /\ (seen'[p] = got' => ~Servable(call[p])')
    <2>1. seen[p] <= got /\ (seen[p] = got => ~Servable(call[p]))
      BY <1>2, Zenon DEF AllLooked, Looked
    <2>2. PICK c \in Calls : c = call[p] /\ c = call'[p]
      BY <1>2, Zenon DEF Requests
    <2>3. got \in Nat /\ seen[p] \in Nat \cup {-1}
      BY DEF Bytes, Requests
    <2>4. CASE UNCHANGED <<cache, eaten, got>>
      BY <2>1, <2>2, <2>4, SameCache
    <2>5. CASE UNCHANGED got /\ \E n \in Nat : n <= DataSize(cache) /\ Hand(n)
      <3>1. ~Servable(c) => ~Servable(c)'
        BY <2>5, StaysShort
      <3> QED
        BY <2>1, <2>2, <2>5, <3>1
    <2>6. CASE got' \in Nat /\ got' > got
      BY <2>1, <2>3, <2>6
    <2> QED
      BY <2>4, <2>5, <2>6
  <1> QED
    BY <1>1, <1>2 DEF Looked

(* A step between passes that leaves the queue's head and the cache alone. *)
LEMMA HeadStands ==
    ASSUME AllLooked, wpc \in Past, UNCHANGED <<cache, eaten>>, tasks # <<>>,
           Head(tasks') = Head(tasks), late \subseteq late'
    PROVE  ~Servable(Head(tasks))' \/ (<<Head(tasks).pid, Head(tasks).tick>> \in late)'
  <1>1. PICK t : t = Head(tasks) /\ t = Head(tasks')
    OBVIOUS
  <1>2. Servable(t)' <=> Servable(t)
    BY SameCache
  <1>3. ~Servable(t) \/ <<t.pid, t.tick>> \in late
    BY <1>1 DEF AllLooked
  <1> QED
    BY <1>1, <1>2, <1>3

LEMMA CallsLooked ==
    ASSUME Bytes, Requests, AllLooked, NEW q \in Procs, Call(q) \/ Slice(q) \/ TimeOut(q)
    PROVE  AllLooked'
  <1> USE DEF linkVars, dataVars, pollVars, procVars
  <1>1. UNCHANGED <<got, wpc>> /\ late \subseteq late'
    BY DEF Call, Slice, Enter, Look, FastRecvReturn, Put, Register, TimeOut, Resume
  <1>2. \A p \in Procs \ {q} : UNCHANGED <<pc[p], call[p], seen[p]>>
    BY DEF Call, Slice, Enter, Look, FastRecvReturn, Put, Register, TimeOut, Resume, Goto, Requests
  <1>3. \/ UNCHANGED <<cache, eaten>>
        \/ tasks = <<>> /\ UNCHANGED tasks /\ \E n \in Nat : n <= DataSize(cache) /\ Hand(n)
    <2>1. CASE FastRecvReturn(q)
      <3>1. call[q] \in Calls
        BY <2>1 DEF FastRecvReturn, Requests
      <3>2. Portion(call[q]) \in Nat /\ Portion(call[q]) <= DataSize(cache)
        BY <3>1, PortionFits DEF Bytes
      <3> QED
        BY <2>1, <3>2 DEF FastRecvReturn
    <2>2. CASE ~FastRecvReturn(q)
      BY <2>2 DEF Call, Slice, Enter, Look, Put, Register, TimeOut, Resume
    <2> QED
      BY <2>1, <2>2
  <1>4. ASSUME NEW p \in Procs, p # q
        PROVE  Looked(p)'
    BY <1>1, <1>2, <1>3, <1>4, LookStands
  <1>5. pc'[q] \in {"look", "fast"} => call'[q].type \in {"RECV", "RECV_LINE"}
    BY DEF AllLooked, Looked, Call, Slice, Enter, Look, FastRecvReturn, Put, Register, TimeOut,
           Resume, Goto, Requests
  <1>6. ASSUME pc'[q] = "put", call'[q].type # "SEND"
        PROVE  seen'[q] <= got' /\ (seen'[q] = got' => ~Servable(call[q])')
    <2>1. PICK c : c = call[q]
      OBVIOUS
    <2>2. /\ UNCHANGED <<call, cache, eaten>>
          /\ \/ seen'[q] = got /\ c.type = "POLL" /\ DataSize(cache) = 0
             \/ seen'[q] = -1
             \/ FastRecvReturn(q) /\ seen'[q] = got /\ Portion(c) = 0
      <3>1. CASE Enter(q)
        <4>1. c \in Calls /\ c.type \in Types
          BY <2>1, <3>1, SocketAssumption DEF Enter, Requests
        <4>2. /\ open /\ seen' = [seen EXCEPT ![q] = IF c.type = "POLL" THEN got ELSE -1]
              /\ UNCHANGED <<call, cache, eaten>>
              /\ c.type = "POLL" => DataSize(cache) = 0
          BY <1>6, <2>1, <3>1, <4>1 DEF Enter, Goto, Requests, Types
        <4> QED
          BY <4>2 DEF Requests
      <3>2. CASE Look(q)
        BY <1>6, <3>2 DEF Look, Goto, Requests
      <3>3. CASE FastRecvReturn(q)
        BY <1>6, <2>1, <3>3 DEF FastRecvReturn, Goto, Requests
      <3> QED
        BY <1>6, <3>1, <3>2, <3>3
           DEF Call, Slice, Put, Register, TimeOut, Resume, Goto, Requests
    <2>3. got \in Nat
      BY DEF Bytes
    <2>4. FastRecvReturn(q) => c.type # "POLL"
      BY <2>1, Zenon DEF FastRecvReturn, AllLooked, Looked
    <2>5. seen'[q] = -1 \/ ~Servable(c)
      BY <2>2, <2>4 DEF Servable
    <2>6. Servable(c)' <=> Servable(c)
      BY <2>2, SameCache
    <2> QED
      BY <1>1, <2>1, <2>2, <2>3, <2>5, <2>6
  <1>7. ASSUME wpc' \in Past, tasks' # <<>>
        PROVE  ~Servable(Head(tasks))' \/ (<<Head(tasks).pid, Head(tasks).tick>> \in late)'
    <2>1. UNCHANGED <<cache, eaten>>
      BY <1>3, <1>7
    <2>2. CASE UNCHANGED tasks
      BY <1>1, <1>7, <2>1, <2>2, HeadStands
    <2>3. CASE tasks' # tasks
      <3>1. PICK t : t = [type |-> call[q].type, len |-> call[q].len, pid |-> q, tick |-> tick[q]]
        BY Zenon
      <3>2. /\ Put(q) /\ tasks' = Append(tasks, t) /\ call[q].type # "SEND"
            /\ late' = IF seen[q] = got THEN late ELSE late \cup {Id(q)}
        BY <2>3, <3>1 DEF Call, Slice, Enter, Look, FastRecvReturn, Put, Register, TimeOut, Resume
      <3>3. call[q] \in Calls /\ tasks \in Seq(Tasks)
        BY <3>2 DEF Put, Requests
      <3>4. t \in Tasks
        BY <3>1, <3>3, SocketAssumption DEF Tasks, Requests
      <3>5. CASE tasks # <<>>
        <4>1. Head(tasks') = Head(tasks)
          BY <3>2, <3>3, <3>4, <3>5, QueueKeeps
        <4> QED
          BY <1>1, <1>7, <2>1, <3>5, <4>1, HeadStands
      <3>6. CASE tasks = <<>>
        <4>1. Head(tasks') = t
          BY <3>2, <3>3, <3>4, <3>6, QueueKeeps
        <4>2. CASE seen[q] = got
          <5>1. ~Servable(call[q])
            BY <3>2, <4>2, Zenon DEF AllLooked, Looked, Put
          <5>2. ~Servable(t)
            BY <3>1, <5>1 DEF Servable, Portion
          <5> QED
            BY <2>1, <4>1, <5>2, SameCache
        <4>3. CASE seen[q] # got
          <5>1. <<t.pid, t.tick>> \in late'
            BY <3>1, <3>2, <4>3 DEF Id
          <5> QED
            BY <4>1, <5>1, Zenon
        <4> QED
          BY <4>2, <4>3
      <3> QED
        BY <3>5, <3>6
    <2> QED
      BY <2>2, <2>3
  <1> QED
    BY <1>4, <1>5, <1>6, <1>7 DEF AllLooked, Looked

LEMMA WorkerLooked ==
    ASSUME Bytes, Requests, Life, AllLooked, Worker
    PROVE  AllLooked'
  <1> USE DEF linkVars, dataVars, pollVars, procVars
  <1>1. UNCHANGED <<call, seen>>
    BY DEF Worker, Snapshot, Poll, OnRecv, Recv, Respond, Answer, Leave, RemoveIn, OnSend,
           RemoveOut, Sent, OnErr, Drain, DrainAnswer
  <1>2. \A p \in Procs : pc'[p] = pc[p] \/ pc'[p] = "woken"
    BY DEF Worker, Snapshot, Poll, OnRecv, Recv, Respond, Answer, Leave, RemoveIn, OnSend,
           RemoveOut, Sent, OnErr, Drain, DrainAnswer, Woken, Requests
  <1>3. \/ UNCHANGED <<cache, eaten, got>>
        \/ UNCHANGED got /\ \E n \in Nat : n <= DataSize(cache) /\ Hand(n)
        \/ got' \in Nat /\ got' > got
    <2>1. CASE Answer
      <3>1. cur \in Tasks
        BY <2>1 DEF Answer, Requests
      <3>2. Portion(cur) \in Nat /\ Portion(cur) <= DataSize(cache)
        BY <3>1, PortionFits DEF Bytes
      <3> QED
        BY <2>1, <3>2 DEF Answer
    <2>2. CASE Recv
      <3> DEFINE n == IF sent - got < Reserved(cache) THEN sent - got ELSE Reserved(cache)
      <3>1. UNCHANGED <<cache, eaten, got>> \/ (n > 0 /\ got' = got + n)
        BY <2>2 DEF Recv
      <3>2. sent \in Nat /\ got \in Nat /\ Reserved(cache) \in Int
        BY CacheAssumption DEF Bytes, Sound, Caches, Reserved
      <3>3. n \in Int
        BY <3>2
      <3> HIDE DEF n
      <3> QED
        BY <3>1, <3>2, <3>3
    <2>3. CASE ~Answer /\ ~Recv
      BY <2>3 DEF Worker, Snapshot, Poll, OnRecv, Respond, Leave, RemoveIn, OnSend,
                  RemoveOut, Sent, OnErr, Drain, DrainAnswer
    <2> QED
      BY <2>1, <2>2, <2>3
  <1>4. ASSUME NEW p \in Procs
        PROVE  Looked(p)'
    <2>1. CASE pc'[p] = pc[p]
      BY <1>1, <1>3, <2>1, LookStands
    <2>2. CASE pc'[p] = "woken"
      BY <2>2, Zenon DEF Looked
    <2> QED
      BY <1>2, <2>1, <2>2
  <1>5. ASSUME wpc' \in Past, tasks' # <<>>
        PROVE  ~Servable(Head(tasks))' \/ (<<Head(tasks).pid, Head(tasks).tick>> \in late)'
    <2>1. CASE Snapshot \/ Poll \/ OnRecv \/ Leave \/ RemoveIn \/ OnSend \/ RemoveOut \/ Sent
      <3>1. UNCHANGED <<cache, eaten, tasks, late>> /\ wpc \in Past
        BY <2>1 DEF Snapshot, Poll, OnRecv, Leave, RemoveIn, OnSend, RemoveOut, Sent, Past
      <3> QED
        BY <1>5, <3>1, HeadStands, Zenon
    <2>2. CASE Recv \/ Answer \/ OnErr \/ DrainAnswer
      BY <1>5, <2>2, Zenon DEF Recv, Answer, OnErr, DrainAnswer, Past, Life
    <2>3. CASE Respond
      <3>1. PICK t : t = Head(tasks)
        OBVIOUS
      <3>2. UNCHANGED <<cache, eaten, tasks>> /\ tasks # <<>> /\ ~Servable(t)
        BY <1>5, <2>3, <3>1 DEF Respond, Past
      <3>3. ~Servable(t)'
        BY <3>2, SameCache
      <3> QED
        BY <3>1, <3>2, <3>3
    <2>4. CASE Drain
      <3>1. tasks \in Seq(Tasks) /\ sends \in Seq(Tasks)
        BY DEF Requests
      <3>2. tasks \o sends = <<>> /\ UNCHANGED tasks
        BY <1>5, <2>4 DEF Drain, Past
      <3> QED
        BY <1>5, <3>1, <3>2
    <2> QED
      BY <2>1, <2>2, <2>3, <2>4 DEF Worker
  <1> QED
    BY <1>4, <1>5 DEF AllLooked

LEMMA AllLookedStep ==
    ASSUME Bytes, Requests, Life, AllLooked, [Next]_vars
    PROVE  AllLooked'
  <1>1. ASSUME UNCHANGED <<cache, eaten, got, wpc, tasks, late, pc, call, seen>>
        PROVE  AllLooked'
    <2>1. \A p \in Procs : Looked(p)'
      BY <1>1, LookStands
    <2>2. wpc \in Past /\ tasks # <<>> =>
             ~Servable(Head(tasks))' \/ (<<Head(tasks).pid, Head(tasks).tick>> \in late)'
      BY <1>1, HeadStands
    <2> QED
      BY <1>1, <2>1, <2>2 DEF AllLooked
  <1>2. CASE UNCHANGED vars
    BY <1>1, <1>2 DEF vars, linkVars, dataVars, procVars
  <1>3. CASE PeerSend \/ PeerClose
    BY <1>1, <1>3 DEF PeerSend, PeerClose, linkVars, procVars
  <1> QED
    BY <1>2, <1>3, CallsLooked, WorkerLooked DEF Next

(* For any processes, calls and stream: a process that waits has its       *)
(* request in a queue or in the worker's hands, unless it is a get_line    *)
(* that OnErr dropped; and between two passes of StreamLinkStack::Response *)
(* the foremost request is one the cache cannot serve, or one that came to *)
(* the queue without a look at what the cache holds now.                   *)
THEOREM RequestsAreKept == Spec => []RequestsKept
  <1>1. Init => Life /\ AllFresh /\ AllRemembered /\ AllLooked
    <2> SUFFICES ASSUME Init
                 PROVE  Life /\ AllFresh /\ AllRemembered /\ AllLooked
      OBVIOUS
    <2>1. Life
      BY DEF Init, Life, TakingApart
    <2>2. AllFresh
      BY DEF Init, AllFresh, Known, Elems
    <2>3. AllRemembered
      BY DEF Init, AllRemembered, Awaits
    <2>4. AllLooked
      BY DEF Init, AllLooked, Looked
    <2> QED
      BY <2>1, <2>2, <2>3, <2>4
  <1>2. Requests /\ AllRemembered /\ AllLooked => RequestsKept
    <2> SUFFICES ASSUME Requests, AllRemembered, AllLooked
                 PROVE  RequestsKept
      OBVIOUS
    <2>1. ASSUME NEW p \in Procs, pc[p] = "wait"
          PROVE  \/ Id(p) \in Ids(tasks) \cup Ids(sends)
                 \/ wpc \in {"removeOut", "sent", "drainAnswer"} /\ cur.pid = p
                 \/ call[p].type = "RECV_LINE" /\ (~open \/ wpc \in TakingApart)
      <3>1. Remembered(p)
        BY <2>1 DEF AllRemembered, Awaits
      <3>2. \A t \in Elems(tasks) \cup Elems(sends) : IsOf(t, p) => Id(p) \in Ids(tasks) \cup Ids(sends)
        BY DEF Elems, IsOf, Id, Ids
      <3> QED
        BY <3>1, <3>2 DEF Remembered
    <2>2. NotForgotten
      BY <2>1 DEF NotForgotten
    <2>3. NotStranded
      BY DEF NotStranded, AllLooked, Past
    <2> QED
      BY <2>2, <2>3 DEF RequestsKept
  <1>3. Requests /\ Life /\ [Next]_vars => Life'
    BY LifeStep
  <1>4. Requests /\ AllFresh /\ [Next]_vars => AllFresh'
    BY AllFreshStep
  <1>5. Requests /\ Life /\ AllFresh /\ AllRemembered /\ [Next]_vars => AllRemembered'
    BY AllRememberedStep
  <1>6. Bytes /\ Requests /\ Life /\ AllLooked /\ [Next]_vars => AllLooked'
    BY AllLookedStep
  <1> QED
    BY <1>1, <1>2, <1>3, <1>4, <1>5, <1>6, BytesRequestsInv, PTL DEF Spec
=============================================================================
