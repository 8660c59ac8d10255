------------------------------- MODULE CQueue -------------------------------
(***************************************************************************)
(* The ready queue of the GLR scheduler: the condition-variable queue      *)
(* CQueue (Runtime/Queue.hpp) as the Processor threads (GLR/Schedule.cpp)  *)
(* use it.  A processor takes a process with Get, runs one slice of it     *)
(* and puts it back (YIELD), drops it (it waits for a message or an        *)
(* answer) or destroys it.  Any thread that wakes a process calls PutTask. *)
(* When the last process is destroyed the Exiter thread runs               *)
(* Schedule::Stop: it closes the queue and joins every processor.          *)
(*                                                                         *)
(* Everything Get and Put do between taking the mutex and releasing it is  *)
(* atomic with respect to Get and Put.  Close is not: it writes m_closed   *)
(* and broadcasts without the mutex, so Get is cut at its test of m_closed *)
(* and at the wait, and Close between its two statements.                  *)
(***************************************************************************)
EXTENDS Naturals, Sequences, FiniteSets

CONSTANTS Processors,   \* the threads of Schedule::_Cores
          Tasks,        \* the GLR processes (a queue entry is a Process*)
          NoOne,        \* "no thread" and "no process"
          MaxWaitNo     \* bound: no spurious wake-up once WaitNo is here

ASSUME QueueAssumption ==
    /\ IsFiniteSet(Processors)
    /\ NoOne \notin Processors
    /\ NoOne \notin Tasks
    /\ MaxWaitNo \in Nat

VARIABLES queue,    \* CQueue::Queue
          waitNo,   \* CQueue::WaitNo
          closed,   \* CQueue::m_closed
          mutex,    \* owner of m_cond's lock
          pc,       \* where each processor is in Run / Get
          hand,     \* the process each processor is running
          live,     \* the processes not yet destroyed
          exiter    \* progress of Schedule::Stop

vars == <<queue, waitNo, closed, mutex, pc, hand, live, exiter>>

(* get: about to call Get (or to lock); test: holds the mutex, at the      *)
(* while; wait: holds the mutex, has counted itself in WaitNo; asleep:     *)
(* inside pthread_cond_wait; woken: signalled, must take the mutex again;  *)
(* slice: Get has returned; exited: Run has returned.                      *)
Where == {"get", "test", "wait", "asleep", "woken", "slice", "exited"}

At(w) == {t \in Processors : pc[t] = w}

(* On the way to an entry; not, or about to be not.                        *)
Awake == At("woken") \cup At("test")
Sleepers == At("wait") \cup At("asleep")

(* The entries of the queue and the processes being run.                   *)
Queued == {queue[i] : i \in 1..Len(queue)}
Held == {hand[t] : t \in Processors} \ {NoOne}

TypeOK ==
    /\ queue \in Seq(Tasks)
    /\ waitNo \in Nat
    /\ closed \in BOOLEAN
    /\ mutex \in Processors \cup {NoOne}
    /\ pc \in [Processors -> Where]
    /\ hand \in [Processors -> Tasks \cup {NoOne}]
    /\ live \subseteq Tasks
    /\ exiter \in {"idle", "close", "notify", "join", "stopped"}

Init ==
    /\ queue = <<>>
    /\ waitNo = 0
    /\ closed = FALSE
    /\ mutex = NoOne
    /\ pc = [t \in Processors |-> "get"]
    /\ hand = [t \in Processors |-> NoOne]
    /\ live = Tasks
    /\ exiter = "idle"

-----------------------------------------------------------------------------
(* CQueue::Get *)

GetLock(t) ==
    /\ pc[t] \in {"get", "woken"}
    /\ mutex = NoOne
    /\ mutex' = t
    /\ pc' = [pc EXCEPT ![t] = "test"]
    /\ UNCHANGED <<queue, waitNo, closed, hand, live, exiter>>

(* Variant: the sleeper is not counted.                                    *)
GetEmptyUncounted(t) ==
    /\ pc[t] = "test"
    /\ queue = <<>>
    /\ ~closed
    /\ pc' = [pc EXCEPT ![t] = "wait"]
    /\ UNCHANGED <<queue, waitNo, closed, mutex, hand, live, exiter>>

(* while (Queue.empty() && !m_closed) ++WaitNo;                            *)
GetEmpty(t) ==
    /\ pc[t] = "test"
    /\ queue = <<>>
    /\ ~closed
    /\ waitNo' = waitNo + 1
    /\ pc' = [pc EXCEPT ![t] = "wait"]
    /\ UNCHANGED <<queue, closed, mutex, hand, live, exiter>>

(* m_cond.Wait() releases the mutex and goes to sleep in one step.         *)
GetWait(t) ==
    /\ pc[t] = "wait"
    /\ mutex' = NoOne
    /\ pc' = [pc EXCEPT ![t] = "asleep"]
    /\ UNCHANGED <<queue, waitNo, closed, hand, live, exiter>>

(* pthread_cond_wait may return without a signal.  The sleeper counts      *)
(* itself again, so these wake-ups are what lets WaitNo grow.              *)
SpuriousWake(t) ==
    /\ pc[t] = "asleep"
    /\ waitNo < MaxWaitNo
    /\ pc' = [pc EXCEPT ![t] = "woken"]
    /\ UNCHANGED <<queue, waitNo, closed, mutex, hand, live, exiter>>

GetPop(t) ==
    /\ pc[t] = "test"
    /\ queue # <<>>
    /\ hand' = [hand EXCEPT ![t] = Head(queue)]
    /\ queue' = Tail(queue)
    /\ mutex' = NoOne
    /\ pc' = [pc EXCEPT ![t] = "slice"]
    /\ UNCHANGED <<waitNo, closed, live, exiter>>

(* CQueueClosedException: Processor::Run returns.                          *)
GetClosed(t) ==
    /\ pc[t] = "test"
    /\ queue = <<>>
    /\ closed
    /\ mutex' = NoOne
    /\ pc' = [pc EXCEPT ![t] = "exited"]
    /\ UNCHANGED <<queue, waitNo, closed, hand, live, exiter>>

-----------------------------------------------------------------------------

(* CQueue::Put, called with the mutex free; after is pc at its return.     *)
Put(x, after) ==
    /\ mutex = NoOne
    /\ ~closed      \* Put on a closed queue throws: see CloseAfterLast
    /\ queue' = Append(queue, x)
    /\ waitNo' = IF waitNo = 0 THEN 0 ELSE waitNo - 1
    /\ IF waitNo = 0 \/ At("asleep") = {}
       THEN pc' = after
       ELSE \E s \in At("asleep") : pc' = [after EXCEPT ![s] = "woken"]
    /\ UNCHANGED <<closed, mutex, live, exiter>>

(* A waker (sender, timer, device thread) puts a suspended process back.   *)
PutTask(x) ==
    /\ x \in live \ (Queued \cup Held)
    /\ Put(x, pc)
    /\ UNCHANGED hand

(* End of a slice: the process yielded, and is put at the tail again.      *)
SliceYield(t) ==
    /\ pc[t] = "slice"
    /\ Put(hand[t], [pc EXCEPT ![t] = "get"])
    /\ hand' = [hand EXCEPT ![t] = NoOne]

(* End of a slice: the process waits; it stays out of the queue.           *)
SliceSuspend(t) ==
    /\ pc[t] = "slice"
    /\ hand' = [hand EXCEPT ![t] = NoOne]
    /\ pc' = [pc EXCEPT ![t] = "get"]
    /\ UNCHANGED <<queue, waitNo, closed, mutex, live, exiter>>

(* End of a slice: the process is destroyed; the last one starts Exiter.   *)
SliceDestroy(t) ==
    /\ pc[t] = "slice"
    /\ live' = live \ {hand[t]}
    /\ hand' = [hand EXCEPT ![t] = NoOne]
    /\ pc' = [pc EXCEPT ![t] = "get"]
    /\ exiter' = IF live \ {hand[t]} = {} THEN "close" ELSE exiter
    /\ UNCHANGED <<queue, waitNo, closed, mutex>>

-----------------------------------------------------------------------------
(* Schedule::Stop: CQueue::Close is two statements, neither locked.        *)

CloseSet ==
    /\ exiter = "close"
    /\ closed' = TRUE
    /\ exiter' = "notify"
    /\ UNCHANGED <<queue, waitNo, mutex, pc, hand, live>>

(* Variant: one sleeper is woken.                                          *)
CloseNotifyOne ==
    /\ exiter = "notify"
    /\ IF At("asleep") = {}
       THEN UNCHANGED pc
       ELSE \E s \in At("asleep") : pc' = [pc EXCEPT ![s] = "woken"]
    /\ exiter' = "join"
    /\ UNCHANGED <<queue, waitNo, closed, mutex, hand, live>>

CloseNotify ==
    /\ exiter = "notify"
    /\ pc' = [t \in Processors |-> IF pc[t] = "asleep" THEN "woken" ELSE pc[t]]
    /\ exiter' = "join"
    /\ UNCHANGED <<queue, waitNo, closed, mutex, hand, live>>

Join ==
    /\ exiter = "join"
    /\ At("exited") = Processors
    /\ exiter' = "stopped"
    /\ UNCHANGED <<queue, waitNo, closed, mutex, pc, hand, live>>

-----------------------------------------------------------------------------
Step(t) ==
    \/ GetLock(t) \/ GetEmpty(t) \/ GetWait(t) \/ GetPop(t) \/ GetClosed(t)
    \/ SliceYield(t) \/ SliceSuspend(t) \/ SliceDestroy(t)

Stop == CloseSet \/ CloseNotify \/ Join

Next ==
    \/ \E t \in Processors : Step(t) \/ SpuriousWake(t)
    \/ \E x \in Tasks : PutTask(x)
    \/ Stop

Spec == Init /\ [][Next]_vars

(* A processor that can go on goes on (in particular a slice ends), and    *)
(* the Exiter thread runs.  Wakers and spurious wake-ups owe nothing, and  *)
(* no processor is promised the mutex when others keep taking it.          *)
Fairness ==
    /\ \A t \in Processors : WF_vars(Step(t))
    /\ WF_vars(Stop)

FairSpec == Spec /\ Fairness

-----------------------------------------------------------------------------
(* While a processor sleeps, every queued process has a processor of its   *)
(* own on the way to fetch it: WaitNo never under-counts the sleepers, so  *)
(* Put (Queue.hpp:146) never leaves out a signal that is needed.           *)
NoLostWakeup ==
    At("asleep") # {} =>
        Len(queue) <= Cardinality(Awake)

(* The inductive strengthening of NoLostWakeup and CloseAfterLast: the     *)
(* mutex excludes, a processor that has decided to wait saw an empty queue *)
(* that is still empty, WaitNo counts at least the sleepers, a process is  *)
(* queued or run at most once and only while it lives, and the Exiter      *)
(* starts after the last one.                                              *)
MutexInv ==
    /\ \A t \in Processors : pc[t] \in {"test", "wait"} <=> mutex = t
    /\ At("wait") # {} => queue = <<>>
    /\ Cardinality(Sleepers) <= waitNo

OnceInv ==
    /\ \A t \in Processors : pc[t] = "slice" <=> hand[t] # NoOne
    /\ \A t \in Processors : hand[t] # NoOne => hand[t] \in live
    /\ \A t, u \in Processors : hand[t] = hand[u] /\ t # u => hand[t] = NoOne
    /\ \A i \in 1..Len(queue) : queue[i] \in live
    /\ \A i, j \in 1..Len(queue) : queue[i] = queue[j] => i = j
    /\ \A i \in 1..Len(queue), t \in Processors : hand[t] # queue[i]
    /\ exiter # "idle" => live = {}
    /\ closed => exiter # "idle"

(* Stop closes the queue only once nothing is left that could be put: no   *)
(* process lives, none is queued and no processor is in a slice, so the    *)
(* CQueueClosedException of Put (Queue.hpp:143) is never thrown.           *)
CloseAfterLast ==
    closed => live = {} /\ queue = <<>> /\ At("slice") = {}

(* A process in the ready queue is eventually taken out and run.           *)
QueuedIsFetched ==
    \A x \in Tasks : (x \in Queued) ~> (x \notin Queued)

(* Schedule.cpp:112 calls the end of Processor::Run an "elegant exit": a   *)
(* processor leaves Get once Close has set m_closed, wherever it is but    *)
(* between its test and its wait.  There, as Close takes no lock, it       *)
(* misses both the flag and the broadcast, and Stop never joins it.        *)
ExitsUnlessMidWait ==
    \A t \in Processors :
        (exiter = "notify" /\ pc[t] # "wait") ~> (pc[t] = "exited")
=============================================================================
