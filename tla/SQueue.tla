------------------------------- MODULE SQueue -------------------------------
(***************************************************************************)
(* One queue (CSQSuite) of the shared-memory message queues in             *)
(* AMQ/GalaxyMQ, as threads of several processes use it.  A message is a   *)
(* node with a chain of pages.  Put takes a node from the queue's private  *)
(* pool (_PPL), or from the pool all queues share, allocates pages and     *)
(* appends the node to the bounded queue; Get undoes this in reverse.      *)
(*                                                                         *)
(* The private pool has a lock with one condition (CSQEvent), the queue a  *)
(* lock with two (CSQDoor), the allocator a lock (CSQLock).  What a thread *)
(* does between taking such a lock and giving it up, or waiting, is one    *)
(* step.  The locks live in the shared file and are not robust: when their *)
(* holder is killed nobody takes them again.                               *)
(***************************************************************************)
EXTENDS Integers, Sequences, FiniteSets

CONSTANTS Threads,    \* the threads that use the queue
          Worker,     \* the AMQWorker of the queue's owner
          Nodes,      \* the nodes of the shared pool (CSQPooler)
          Pages,      \* the pages of the allocator
          MaxDepth,   \* CSQDoorQueue::_MaxDepth, 0: no limit
          Catches,    \* the values of CSQPrivatePooler::_Catch
          Size,       \* the pages of the messages each thread puts
          PutModes,   \* the timeouts of the calls: wait (< 0), nowait (0),
          GetModes,   \* timed (> 0); Put and Get are calls with wait
          MaxLurkers, \* bound: no spurious wake-up once a count is here
          Killable    \* bound: the threads that may be killed

ASSUME SQueueAssumption ==
    /\ IsFiniteSet(Threads) /\ Worker \in Threads
    /\ {Nodes, Pages, MaxDepth, MaxLurkers} \subseteq Nat /\ Killable \subseteq Threads
    /\ Catches \subseteq 0..Nodes
    /\ Size \in [Threads -> Nat \ {0}]
    /\ PutModes \cup GetModes \subseteq {"wait", "nowait", "timed"}
    /\ MaxDepth <= Nodes /\ Pages >= 2 * Nodes  \* CGalaxyMQCreator

VARIABLES catch,   \* CSQPrivatePooler::_Catch
          priv,    \* nodes in CSQPrivatePooler::_List
          pool,    \* nodes in the shared CSQPooler
          pages,   \* pages in CSQAllocator::_List
          others,  \* nodes (each with a page) that the other queues hold
          queue,   \* CSQDoorQueue::_List, the pages of each message
          wat,     \* CSQCond::_WAT of the three conditions
          at,      \* where each thread is
          sleep,   \* and whether it sleeps there
          mode,    \* the timeout of its call: < 0, 0 or > 0
          size,    \* the pages of the message it carries, or wants
          dead,    \* the threads killed
          broken   \* the locks whose holder was killed

poolVars == <<catch, priv, pool, pages, others>>
vars == <<poolVars, queue, wat, at, sleep, mode, size, dead, broken>>

(* The waits: node (_PPL.Get), put and get (the two sides of the door).    *)
Waits == {"node", "put", "get"}

(* Puts go idle, node, alloc, put, idle, or give up by back, free.  Gets   *)
(* go idle, get, read, done, idle.                                         *)
Where == Waits \cup {"idle", "alloc", "back", "free", "read", "done"}

HasNode == {t \in Threads : at[t] \in {"alloc", "put", "back", "read", "done"}}
HasPages == {t \in Threads : at[t] \in {"put", "back", "free", "read"}}

(* CSQPrivatePooler and CSQDoorQueue each have one lock.                   *)
LockOf(w) == CASE w \in {"node", "back", "done"} -> "ppl"
               [] w \in {"put", "get"} -> "door"
               [] OTHER -> "alloc"

Asleep(c) == {t \in Threads \ dead : at[t] = c /\ sleep[t] = "asleep"}
Woken(c) == {t \in Threads : at[t] = c /\ sleep[t] = "woken"}

(* Put2Head of CSQPrivatePooler::Init, for catch nodes.                    *)
Init ==
    /\ catch \in Catches
    /\ priv = catch
    /\ pool = Nodes - catch
    /\ pages = Pages
    /\ others = 0
    /\ queue = <<>>
    /\ wat = [c \in Waits |-> 0]
    /\ at = [t \in Threads |-> "idle"]
    /\ sleep = [t \in Threads |-> "no"]
    /\ mode = [t \in Threads |-> "wait"]
    /\ size = [t \in Threads |-> 0]
    /\ dead = {}
    /\ broken = {}

-----------------------------------------------------------------------------
(* CSQCond *)

(* Variant: the signal is forgotten.                                       *)
NotifyNot(c, s) == sleep' = s /\ UNCHANGED wat

(* NotifyOne, when there are Lurkers: the thread that signals also counts  *)
(* the sleeper out.  s is what sleep becomes otherwise.                    *)
Notify(c, s) ==
    IF wat[c] = 0
    THEN sleep' = s /\ UNCHANGED wat
    ELSE /\ wat' = [wat EXCEPT ![c] = @ - 1]
         /\ IF Asleep(c) = {}
            THEN sleep' = s
            ELSE \E u \in Asleep(c) : sleep' = [s EXCEPT ![u] = "woken"]

(* A thread may enter the critical section it is in front of.              *)
MayRun(t) == t \notin dead /\ sleep[t] # "asleep"
MayLock(t) == MayRun(t) /\ LockOf(at[t]) \notin broken

(* What Hibernate waits for.                                               *)
Open(c) == CASE c = "node" -> priv > 0
             [] c = "put" -> MaxDepth = 0 \/ Len(queue) < MaxDepth
             [] c = "get" -> queue # <<>>

Goto(t, w) ==
    /\ at' = [at EXCEPT ![t] = w]
    /\ mode' = [mode EXCEPT ![t] = IF w = "idle" THEN "wait" ELSE @]

(* The test comes before the first wait and after every wake-up, never     *)
(* after a timeout.  CSQPrivatePooler::Get tries the shared pool first.    *)
Passes(t) == MayLock(t) /\ sleep[t] # "expired" /\ Open(at[t])
FromPool(t) == at[t] = "node" /\ sleep[t] = "no" /\ pool > 0

(* Variant: a thread that goes back to sleep is not counted again.         *)
HibernateOnce(t) ==
    /\ at[t] \in Waits
    /\ MayLock(t) /\ ~Open(at[t]) /\ ~FromPool(t)
    /\ sleep[t] \in {"no", "woken"} /\ mode[t] # "nowait"
    /\ wat' = [wat EXCEPT ![at[t]] = IF sleep[t] = "no" THEN @ + 1 ELSE @]
    /\ sleep' = [sleep EXCEPT ![t] = "asleep"]
    /\ UNCHANGED <<poolVars, queue, at, mode, size, dead, broken>>

(* Variant: TIMED_NOWAIT waits like a negative timeout.                    *)
HibernateNowait(t) ==
    /\ at[t] \in Waits
    /\ MayLock(t) /\ ~Open(at[t]) /\ ~FromPool(t)
    /\ sleep[t] \in {"no", "woken"}
    /\ wat' = [wat EXCEPT ![at[t]] = @ + 1]
    /\ sleep' = [sleep EXCEPT ![t] = "asleep"]
    /\ UNCHANGED <<poolVars, queue, at, mode, size, dead, broken>>

(* Wait and TimedWait, the same for the loops of all Hibernates.  Every    *)
(* round starts with the full timeout.                                     *)
Hibernate(t) ==
    /\ at[t] \in Waits
    /\ MayLock(t) /\ ~Open(at[t]) /\ ~FromPool(t)
    /\ sleep[t] \in {"no", "woken"} /\ mode[t] # "nowait"
    /\ wat' = [wat EXCEPT ![at[t]] = @ + 1]
    /\ sleep' = [sleep EXCEPT ![t] = "asleep"]
    /\ UNCHANGED <<poolVars, queue, at, mode, size, dead, broken>>

(* pthread_cond_wait returns without a signal.                             *)
Spurious(t) ==
    /\ at[t] \in Waits
    /\ t \in Asleep(at[t])
    /\ wat[at[t]] < MaxLurkers
    /\ sleep' = [sleep EXCEPT ![t] = "woken"]
    /\ UNCHANGED <<poolVars, queue, wat, at, mode, size, dead, broken>>

(* The time of pthread_cond_timedwait is over; it has yet to lock again.   *)
Expire(t) ==
    /\ at[t] \in Waits
    /\ t \in Asleep(at[t])
    /\ mode[t] = "timed"
    /\ sleep' = [sleep EXCEPT ![t] = "expired"]
    /\ UNCHANGED <<poolVars, queue, wat, at, mode, size, dead, broken>>

(* ETIMEDOUT: TimedWait counts the thread out, if anyone is counted.       *)
CountOut(c) == [wat EXCEPT ![c] = IF @ > 0 THEN @ - 1 ELSE 0]

(* TimedHibernate returns false: after a timeout, without another look, or *)
(* at once for TIMED_NOWAIT.  A TimedPut that has a node gives it back.    *)
GiveUp(t) ==
    /\ at[t] \in Waits
    /\ MayLock(t)
    /\ \/ sleep[t] = "expired" /\ wat' = CountOut(at[t])
       \/ sleep[t] = "no" /\ mode[t] = "nowait" /\ ~Open(at[t]) /\ ~FromPool(t)
          /\ UNCHANGED wat
    /\ sleep' = [sleep EXCEPT ![t] = "no"]
    /\ Goto(t, IF at[t] = "put" THEN "back" ELSE "idle")
    /\ size' = [size EXCEPT ![t] = IF at[t] = "put" THEN @ ELSE 0]
    /\ UNCHANGED <<poolVars, queue, dead, broken>>

-----------------------------------------------------------------------------
(* CSQSuite::Put and TimedPut *)

Put(t, m) ==
    /\ t # Worker /\ t \notin dead /\ at[t] = "idle" /\ m \in PutModes
    /\ at' = [at EXCEPT ![t] = "node"]
    /\ size' = [size EXCEPT ![t] = Size[t]]
    /\ mode' = [mode EXCEPT ![t] = m]
    /\ UNCHANGED <<poolVars, queue, wat, sleep, dead, broken>>

(* CSQPrivatePooler::Get and TimedGet return a node.                       *)
GetNode(t) ==
    /\ at[t] = "node"
    /\ \/ Passes(t) /\ priv' = priv - 1 /\ UNCHANGED pool
       \/ MayLock(t) /\ priv = 0 /\ FromPool(t) /\ pool' = pool - 1 /\ UNCHANGED priv
    /\ Goto(t, "alloc")
    /\ sleep' = [sleep EXCEPT ![t] = "no"]
    /\ UNCHANGED <<catch, pages, others, queue, wat, size, dead, broken>>

(* CSQAllocator::Allocate; with too few pages Put throws, and the node's   *)
(* CMQNursery gives it back.                                               *)
Allocate(t) ==
    /\ at[t] = "alloc" /\ MayLock(t)
    /\ IF pages >= size[t]
       THEN pages' = pages - size[t] /\ Goto(t, "put") /\ UNCHANGED size
       ELSE Goto(t, "back") /\ size' = [size EXCEPT ![t] = 0] /\ UNCHANGED pages
    /\ UNCHANGED <<catch, priv, pool, others, queue, wat, sleep, dead, broken>>

(* CSQDoorQueue::Put and TimedPut append the node; GET_Wakeup.             *)
DoorPut(t) ==
    /\ at[t] = "put" /\ Passes(t)
    /\ queue' = Append(queue, size[t])
    /\ Notify("get", [sleep EXCEPT ![t] = "no"])
    /\ Goto(t, "idle")
    /\ size' = [size EXCEPT ![t] = 0]
    /\ UNCHANGED <<poolVars, dead, broken>>

-----------------------------------------------------------------------------
(* CSQSuite::Get, TimedGet, GetCB and TimedGetCB; the worker uses GetCB.   *)

Get(t, m) ==
    /\ t \notin dead /\ at[t] = "idle"
    /\ m \in IF t = Worker THEN {"wait"} ELSE GetModes
    /\ at' = [at EXCEPT ![t] = "get"]
    /\ mode' = [mode EXCEPT ![t] = m]
    /\ UNCHANGED <<poolVars, queue, wat, sleep, size, dead, broken>>

(* CSQDoorQueue::Get and TimedGet take the first node; PUT_Wakeup.         *)
DoorGet(t) ==
    /\ at[t] = "get" /\ Passes(t)
    /\ queue' = Tail(queue)
    /\ IF MaxDepth > 0 /\ Len(queue) - 1 < MaxDepth
       THEN Notify("put", [sleep EXCEPT ![t] = "no"])
       ELSE sleep' = [sleep EXCEPT ![t] = "no"] /\ UNCHANGED wat
    /\ Goto(t, "read")
    /\ size' = [size EXCEPT ![t] = Head(queue)]
    /\ UNCHANGED <<poolVars, dead, broken>>

(* Variant: a TimedPut that gives up keeps its pages.                      *)
FreedRead(t) == IF at[t] = "read" THEN size[t] ELSE 0

(* T_Free: the whole chain.                                                *)
Freed(t) == size[t]

(* CSQAllocator::Free, from the CMQNursery of the pages.                   *)
Free(t) ==
    /\ at[t] \in {"read", "free"} /\ MayLock(t)
    /\ pages' = pages + Freed(t)
    /\ Goto(t, IF at[t] = "read" THEN "done" ELSE "idle")
    /\ size' = [size EXCEPT ![t] = 0]
    /\ UNCHANGED <<catch, priv, pool, others, queue, wat, sleep, dead, broken>>

(* _List.Count() < _Catch                                                  *)
Keep == priv < catch

(* CSQPrivatePooler::Put, from the CMQNursery of the node: to the private  *)
(* pool, or to the shared one when that is full; Wakeup in either case.  A *)
(* reader is then done; a writer that gives up frees its pages.            *)
Back(t) ==
    /\ at[t] \in {"done", "back"} /\ MayLock(t)
    /\ IF Keep
       THEN priv' = priv + 1 /\ UNCHANGED pool
       ELSE pool' = pool + 1 /\ UNCHANGED priv
    /\ Notify("node", sleep)
    /\ Goto(t, IF at[t] = "back" /\ size[t] > 0 THEN "free" ELSE "idle")
    /\ UNCHANGED <<catch, pages, others, queue, size, dead, broken>>

-----------------------------------------------------------------------------
(* The other queues, and processes that are killed *)

OtherPut ==
    /\ pool > 0 /\ pages > 0
    /\ pool' = pool - 1 /\ pages' = pages - 1 /\ others' = others + 1
    /\ UNCHANGED <<catch, priv, queue, wat, at, sleep, mode, size, dead, broken>>

OtherGet ==
    /\ others > 0
    /\ pool' = pool + 1 /\ pages' = pages + 1 /\ others' = others - 1
    /\ UNCHANGED <<catch, priv, queue, wat, at, sleep, mode, size, dead, broken>>

(* A thread is killed, perhaps inside a critical section: its lock is then *)
(* never free again.  Its node and its pages stay with it.                 *)
Crash(t) ==
    /\ t \in Killable \ dead /\ at[t] # "idle"
    /\ dead' = dead \cup {t}
    /\ \/ UNCHANGED broken
       \/ MayLock(t) /\ broken' = broken \cup {LockOf(at[t])}
    /\ UNCHANGED <<poolVars, queue, wat, at, sleep, mode, size>>

Modes == {"wait", "nowait", "timed"}

(* The steps of a call that is on its way.                                 *)
Step(t) ==
    \/ Hibernate(t) \/ GiveUp(t)
    \/ GetNode(t) \/ Allocate(t) \/ DoorPut(t)
    \/ DoorGet(t) \/ Free(t) \/ Back(t)

Next ==
    \/ \E t \in Threads :
          \/ Step(t) \/ Spurious(t) \/ Expire(t) \/ Crash(t)
          \/ \E m \in Modes : Get(t, m) \/ Put(t, m)
    \/ OtherPut \/ OtherGet

(* Threads run, timeouts come, and the worker's loop calls GetCB again.    *)
Fairness ==
    /\ \A t \in Threads : WF_vars(Step(t)) /\ WF_vars(Expire(t))
    /\ WF_vars(Get(Worker, "wait"))

Spec == Init /\ [][Next]_vars /\ Fairness

-----------------------------------------------------------------------------
(* Properties *)

(* Every variable has its type; the private pool never holds more than     *)
(* _Catch nodes (CSQPrivatePooler::Put), and only a thread at one of the   *)
(* three waits sleeps.                                                     *)
TypeOK ==
    /\ catch \in Catches
    /\ priv \in 0..catch
    /\ pool \in 0..Nodes /\ others \in 0..Nodes
    /\ pages \in 0..Pages
    /\ queue \in Seq({Size[t] : t \in Threads})
    /\ wat \in [Waits -> Nat]
    /\ at \in [Threads -> Where]
    /\ sleep \in [Threads -> {"no", "asleep", "woken", "expired"}]
    /\ \A t \in Threads : sleep[t] # "no" => at[t] \in Waits
    /\ mode \in [Threads -> Modes]
    /\ size \in [Threads -> {0} \cup {Size[u] : u \in Threads}]
    /\ dead \subseteq Threads
    /\ broken \subseteq {"ppl", "door", "alloc"}

(* A message in the queue never makes it longer than _MaxDepth, however    *)
(* putters that were woken and putters that just come mix                  *)
(* (CSQDoorQueue::Put, PUT_Hibernate and PUT_TimedHibernate).              *)
DepthKept == MaxDepth > 0 => Len(queue) <= MaxDepth

(* The pages of the messages in a sequence, and of those in threads' hands:*)
(* f[x] of them for each x in S.                                           *)
PagesOf(f, S) == UNION {{x} \X (1..f[x]) : x \in S}

(* Every node and every page is at all times in a pool, in a queue or in   *)
(* one call's hands: no way out of Put and TimedPut (timeout, no pages) or *)
(* Get loses or doubles one (the CMQNursery objects of CSQSuite).  Only a  *)
(* killed thread keeps what it had.                                        *)
NodesKept == Nodes = pool + priv + others + Len(queue) + Cardinality(HasNode)
PagesKept == Pages = pages + others + Cardinality(PagesOf(queue, DOMAIN queue))
                                    + Cardinality(PagesOf(size, HasPages))
NothingLeaks == NodesKept /\ PagesKept

(* The queue never owns fewer nodes than its private pool began with: a    *)
(* putter that sleeps for a node, and looks only at the private pool from  *)
(* then on (CSQPrivatePooler::Hibernate), has one coming from a message or *)
(* a call of its own queue, whatever the other queues do.                  *)
OwnShare == priv + Len(queue) + Cardinality(HasNode) >= catch

(* What the queue holds is accounted for: nodes and pages (NothingLeaks),  *)
(* its reserved nodes (OwnShare) and its depth (DepthKept); every variable *)
(* has its type.                                                           *)
StockKept == TypeOK /\ DepthKept /\ NothingLeaks /\ OwnShare

(* What can be taken at a wait: the nodes, the messages, the free places.  *)
Stock(c) == CASE c = "node" -> priv
              [] c = "get" -> Len(queue)
              [] c = "put" -> IF MaxDepth = 0 THEN 0 ELSE MaxDepth - Len(queue)

Undercounted(c) == wat[c] < Cardinality(Asleep(c))

(* No lost wake-up: while a thread sleeps at a wait, everything that could *)
(* be taken there is promised to threads already woken; the exceptions are *)
(* a woken thread that was killed (it counts as woken here) and a _WAT of  *)
(* 0 though a thread sleeps (Lurkers before NotifyOne).                    *)
NoneForgotten ==
    \A c \in Waits :
        Asleep(c) # {} => Stock(c) <= Cardinality(Woken(c)) \/ wat[c] = 0

(* _WAT falls below the number of sleepers in one way only: a thread whose *)
(* timed wait is over counts itself out after a signal was already spent   *)
(* on it (TimedWait, the decrement after ETIMEDOUT).                       *)
OnlyTimeoutUndercounts ==
    [][\A c \in Waits : Undercounted(c)' /\ ~Undercounted(c)
          => \E t \in Threads : at[t] = c /\ sleep[t] = "expired"
                                 /\ sleep'[t] = "no"]_vars

Returned(t) == at[t] = "idle" \/ t \in dead \/ broken # {}

(* TimedGet, TimedGetCB and TimedPut return, with or without a message,    *)
(* unless a lock died with its holder or the caller is woken again and     *)
(* again: every wake-up starts the timeout anew.                           *)
TimedReturns ==
    \A t \in Threads \ {Worker} :
        \/ [](mode[t] # "wait" => <>Returned(t))
        \/ []<>(sleep[t] = "woken")

(* While the worker reads the queue every Put ends, unless a thread was    *)
(* killed, a count went wrong after a timeout, other putters overtake the  *)
(* caller for ever, or the queue has no private nodes (_Catch = 0): then a *)
(* putter that sleeps for a node is never given one, as                    *)
(* CSQPrivatePooler::Put gives every node to the shared pool.              *)
PutEnds ==
    \A t \in Threads \ {Worker} :
        \/ [](at[t] \in {"node", "alloc", "put"} => <>(at[t] = "idle"))
        \/ <>(dead # {})
        \/ <>(\E c \in Waits : Undercounted(c))
        \/ []<>(\E u \in Threads \ {t} : at[u] = "alloc")
        \/ catch = 0

(* Calls return, with the exceptions of TimedReturns and PutEnds.          *)
CallsReturn == TimedReturns /\ PutEnds
=============================================================================
