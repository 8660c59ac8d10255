------------------------------- MODULE Process -------------------------------
(***************************************************************************)
(* GLR processes (GLR/LuaNode.cpp), the Processor loop that runs them      *)
(* (GLR/Schedule.cpp), and the Bus (GLR/Bus.cpp) through which the clock   *)
(* and the device threads wake them, at the granularity of the locks: the  *)
(* process map's read-write lock, and each process's _Lock (its channel)   *)
(* and _IntLock (its Lua state: held for the whole of a slice).            *)
(*                                                                         *)
(* A Lua program is any sequence of glr calls: Calls is the set of calls   *)
(* the programs make, MaxCalls bounds how many each of them makes.  What   *)
(* a thread does while it holds a lock, without waiting for another one,   *)
(* and what no unlocked access observes, is one step.  Time is abstract: a *)
(* timer that is set may fire at any later moment.                         *)
(*                                                                         *)
(* A pid is used once (pid allocation and reuse are PidTable's), a message *)
(* is known by its sender, and the ready queue is a sequence (its waiting  *)
(* and signalling are CQueue's).  A process table entry that is deleted    *)
(* keeps its last field values; a thread about to touch one is Dangling    *)
(* and the model goes no further: what follows is undefined.               *)
(***************************************************************************)
EXTENDS Integers, Sequences, FiniteSets

CONSTANTS Pids,         \* process ids, each used at most once
          Main,         \* the first process
          Processors,   \* scheduler threads
          Devices,      \* device threads (sockets, node bus, AMQ)
          Clock,        \* the timer thread
          Nil,          \* no thread, no process
          Calls,        \* the calls the Lua programs make
          MaxCalls,     \* bound: calls per process
          MaxDeviceMsgs \* bound: messages each device brings in

AllCalls == {"spawn", "send", "recv", "recvTimeout", "request", "write",
             "requestTimeout", "return", "sleep", "signal", "kill"}

Threads == Processors \cup Devices \cup {Clock}
Senders == Pids \cup Devices \cup {Clock}

ASSUME ProcessAssumption ==
    /\ Main \in Pids
    /\ Nil \notin Pids \cup Threads
    /\ Clock \notin Processors \cup Devices
    /\ Processors \cap Devices = {}
    /\ Calls \subseteq AllCalls
    /\ MaxCalls \in Nat
    /\ MaxDeviceMsgs \in Nat

VARIABLES
    node,       \* none, mapped (in NodeMap), unmapped, freed
    nodeCount,  \* Process::NodeCount
    status,     \* _Status._State
    tick,       \* _Status._Tick
    killed,     \* _Status._Killed
    parent,     \* _ParentId
    chan,       \* _Channel
    inbox,      \* message return values left on the Lua stack by a sender
    calls,      \* calls made so far (bounded by MaxCalls)
    lock,       \* owner of _Lock
    intLock,    \* owner of _IntLock
    readers,    \* threads holding ProcessMapLock for reading
    writer,     \* thread holding it for writing
    ready,      \* Schedule::_ScheQueue
    timers,     \* pending ClockEvents <<pid, tick>>, and the tick they are of
    requests,   \* accepted and not answered: <<pid, tick, how it is answered>>
    pc,         \* where each thread is
    run,        \* the process a processor runs
    tgt,        \* the process a thread sends to, or answers
    victim,     \* the process a thread destroys
    arg         \* the tick of the request a device answers

procVars == <<node, nodeCount, status, tick, killed, parent, chan, inbox, calls>>
lockVars == <<lock, intLock, readers, writer>>
busVars == <<ready, timers, requests>>
threadVars == <<pc, run, tgt, victim, arg>>
vars == <<procVars, lockVars, busVars, threadVars>>

Waits == {"RECV_WAIT", "INT_WAIT"}
States == Waits \cup {"CREATED", "STOPED", "RUNNING", "YIELD", "RECV_RETURN",
                      "INT_RESP", "GLR_CALL", "KILLED"}

TIMER == -1     \* the ticks of ClockEvents that are not a wait's timeout
SIGNAL == -2

Mapped(p) == p \in Pids /\ node[p] = "mapped"

(* The process objects a thread is in the middle of using.                 *)
Uses(t) ==
    {p \in Pids : \/ p \in {run[t], tgt[t]}
                  \/ p = victim[t] /\ (pc[t] # "destroy" \/ run[t] = Nil)}

Dangling == \E t \in Threads : \E p \in Uses(t) : node[p] = "freed"

(* A step is taken from here, while what the threads use exists.           *)
At(t, where) == pc[t] \in where /\ ~Dangling

Goto(t, where) == pc' = [pc EXCEPT ![t] = where]

(* Where a thread is when it has nothing to do.                            *)
Home(t) == IF t \in Processors THEN "get" ELSE "idle"

Init ==
    /\ node = [p \in Pids |-> IF p = Main THEN "mapped" ELSE "none"]
    /\ nodeCount = 1
    /\ status = [p \in Pids |-> "CREATED"]
    /\ tick = [p \in Pids |-> 0]
    /\ killed = [p \in Pids |-> FALSE]
    /\ parent = [p \in Pids |-> Nil]
    /\ chan = [p \in Pids |-> <<>>]
    /\ inbox = [p \in Pids |-> <<>>]
    /\ calls = [s \in Senders |-> 0]
    /\ lock = [p \in Pids |-> Nil]
    /\ intLock = [p \in Pids |-> Nil]
    /\ readers = {}
    /\ writer = Nil
    /\ ready = <<Main>>
    /\ timers = {}
    /\ requests = {}
    /\ pc = [t \in Threads |-> Home(t)]
    /\ run = [t \in Threads |-> Nil]
    /\ tgt = [t \in Threads |-> Nil]
    /\ victim = [t \in Threads |-> Nil]
    /\ arg = [t \in Threads |-> 0]

-----------------------------------------------------------------------------
(* Processor::Run and Process::Resume *)

GetTask(t) ==
    /\ At(t, {"get"})
    /\ ready # <<>>
    /\ run' = [run EXCEPT ![t] = Head(ready)]
    /\ ready' = Tail(ready)
    /\ Goto(t, "resume")
    /\ UNCHANGED <<procVars, lockVars, timers, requests, tgt, victim, arg>>

Resume(t) ==
    LET p == run[t] IN
    /\ At(t, {"resume"})
    /\ intLock[p] = Nil
    /\ intLock' = [intLock EXCEPT ![p] = t]
    /\ status' = [status EXCEPT ![p] = "RUNNING"]
    /\ tick' = [tick EXCEPT ![p] = @ + 1]
    /\ inbox' = [inbox EXCEPT ![p] = <<>>]
    /\ Goto(t, "slice")
    /\ UNCHANGED <<node, nodeCount, killed, parent, chan, calls, lock, readers,
                   writer, busVars, run, tgt, victim, arg>>

(* Mutant: _IntLock is kept.                                               *)
ResumeYieldedLocked(t) ==
    LET p == run[t] IN
    /\ At(t, {"yielded"})
    /\ status' = [status EXCEPT ![p] = IF killed[p] THEN "KILLED"
                                       ELSE IF @ \in Waits THEN @ ELSE "YIELD"]
    /\ UNCHANGED intLock
    /\ IF killed[p]
       THEN /\ Goto(t, "destroy")
            /\ victim' = [victim EXCEPT ![t] = p]
            /\ run' = [run EXCEPT ![t] = Nil]
       ELSE Goto(t, "after") /\ UNCHANGED <<victim, run>>
    /\ UNCHANGED <<node, nodeCount, tick, killed, parent, chan, inbox, calls,
                   lock, readers, writer, busVars, tgt, arg>>

(* lua_resume has returned LUA_YIELD.                                      *)
ResumeYielded(t) ==
    LET p == run[t] IN
    /\ At(t, {"yielded"})
    /\ status' = [status EXCEPT ![p] = IF killed[p] THEN "KILLED"
                                       ELSE IF @ \in Waits THEN @ ELSE "YIELD"]
    /\ intLock' = [intLock EXCEPT ![p] = Nil]
    /\ IF killed[p]
       THEN /\ Goto(t, "destroy")
            /\ victim' = [victim EXCEPT ![t] = p]
            /\ run' = [run EXCEPT ![t] = Nil]
       ELSE Goto(t, "after") /\ UNCHANGED <<victim, run>>
    /\ UNCHANGED <<node, nodeCount, tick, killed, parent, chan, inbox, calls,
                   lock, readers, writer, busVars, tgt, arg>>

(* Mutant: Destory is called inside Resume, under _IntLock.                *)
ResumeReturnedLocked(t) ==
    LET p == run[t] IN
    /\ At(t, {"slice"})
    /\ status' = [status EXCEPT ![p] = IF killed[p] THEN "KILLED" ELSE "STOPED"]
    /\ UNCHANGED intLock
    /\ Goto(t, "destroy")
    /\ victim' = [victim EXCEPT ![t] = p]
    /\ run' = [run EXCEPT ![t] = Nil]
    /\ UNCHANGED <<node, nodeCount, tick, killed, parent, chan, inbox, calls,
                   lock, readers, writer, busVars, tgt, arg>>

(* lua_resume has returned 0 or an error: the entry function is over.      *)
ResumeReturned(t) ==
    LET p == run[t] IN
    /\ At(t, {"slice"})
    /\ status' = [status EXCEPT ![p] = IF killed[p] THEN "KILLED" ELSE "STOPED"]
    /\ intLock' = [intLock EXCEPT ![p] = Nil]
    /\ Goto(t, "destroy")
    /\ victim' = [victim EXCEPT ![t] = p]
    /\ run' = [run EXCEPT ![t] = Nil]
    /\ UNCHANGED <<node, nodeCount, tick, killed, parent, chan, inbox, calls,
                   lock, readers, writer, busVars, tgt, arg>>

(* if (node->State() == YIELD) _ScheQueue.Put(node): no lock is held.      *)
AfterResume(t) ==
    /\ At(t, {"after"})
    /\ ready' = IF status[run[t]] = "YIELD" THEN Append(ready, run[t]) ELSE ready
    /\ run' = [run EXCEPT ![t] = Nil]
    /\ Goto(t, "get")
    /\ UNCHANGED <<procVars, lockVars, timers, requests, tgt, victim, arg>>

-----------------------------------------------------------------------------
(* Process::SendMsgToNode and Process::SendMsg, for any thread.  The map's *)
(* read lock and _Lock are taken in one step: nothing happens in between   *)
(* but waiting for _Lock, during which the map cannot change.              *)

(* Where a thread goes on after sending: destroying, running, or home.     *)
AfterSend(t) == IF victim[t] # Nil THEN "unlink"
                ELSE IF run[t] # Nil THEN "slice" ELSE Home(t)

(* The sender a message is from.                                           *)
From(t) == IF victim[t] # Nil THEN victim[t]
           ELSE IF run[t] # Nil THEN run[t] ELSE t

(* Mutant: the sender does not wait for _Lock.                             *)
SendLockShared(t, q) ==
    /\ writer = Nil
    /\ IF Mapped(q)
       THEN /\ lock' = [lock EXCEPT ![q] = t]
            /\ readers' = readers \cup {t}
            /\ tgt' = [tgt EXCEPT ![t] = q]
            /\ Goto(t, "send")
       ELSE /\ Goto(t, AfterSend(t))              \* "Process Not Exist"
            /\ UNCHANGED <<lock, readers, tgt>>
    /\ UNCHANGED <<intLock, writer>>

SendLock(t, q) ==
    /\ writer = Nil
    /\ IF Mapped(q)
       THEN /\ lock[q] = Nil
            /\ lock' = [lock EXCEPT ![q] = t]
            /\ readers' = readers \cup {t}
            /\ tgt' = [tgt EXCEPT ![t] = q]
            /\ Goto(t, "send")
       ELSE /\ Goto(t, AfterSend(t))              \* "Process Not Exist"
            /\ UNCHANGED <<lock, readers, tgt>>
    /\ UNCHANGED <<intLock, writer>>

SendUnlock(t) ==
    /\ lock' = [lock EXCEPT ![tgt[t]] = Nil]
    /\ readers' = readers \ {t}
    /\ tgt' = [tgt EXCEPT ![t] = Nil]
    /\ Goto(t, AfterSend(t))

(* Mutant: the woken receiver is not put into the queue.                   *)
SendHandOverOnly(t) ==
    LET p == tgt[t] IN
    /\ At(t, {"send"})
    /\ chan[p] = <<>> /\ status[p] = "RECV_WAIT"
    /\ intLock[p] = Nil
    /\ inbox' = [inbox EXCEPT ![p] = <<From(t)>>]
    /\ status' = [status EXCEPT ![p] = "RECV_RETURN"]
    /\ UNCHANGED ready
    /\ SendUnlock(t)
    /\ UNCHANGED <<node, nodeCount, tick, killed, parent, chan, calls, intLock,
                   writer, timers, requests, run, victim, arg>>

(* Mutant: the return is missing and _Channel.Put follows.                 *)
SendHandOverAndPut(t) ==
    LET p == tgt[t] IN
    /\ At(t, {"send"})
    /\ chan[p] = <<>> /\ status[p] = "RECV_WAIT"
    /\ intLock[p] = Nil
    /\ inbox' = [inbox EXCEPT ![p] = <<From(t)>>]
    /\ status' = [status EXCEPT ![p] = "RECV_RETURN"]
    /\ chan' = [chan EXCEPT ![p] = Append(@, From(t))]
    /\ ready' = Append(ready, p)
    /\ SendUnlock(t)
    /\ UNCHANGED <<node, nodeCount, tick, killed, parent, calls, intLock,
                   writer, timers, requests, run, victim, arg>>

(* The receiver waits: hand it the message.  While _IntLock is busy the    *)
(* TryLock throws and the sender tries again.                              *)
SendHandOver(t) ==
    LET p == tgt[t] IN
    /\ At(t, {"send"})
    /\ chan[p] = <<>> /\ status[p] = "RECV_WAIT"
    /\ intLock[p] = Nil
    /\ inbox' = [inbox EXCEPT ![p] = <<From(t)>>]
    /\ status' = [status EXCEPT ![p] = "RECV_RETURN"]
    /\ ready' = Append(ready, p)
    /\ SendUnlock(t)
    /\ UNCHANGED <<node, nodeCount, tick, killed, parent, chan, calls, intLock,
                   writer, timers, requests, run, victim, arg>>

(* The loop's condition is false: on to _Channel.Put, still holding _Lock. *)
SendTest(t) ==
    /\ At(t, {"send"})
    /\ ~(chan[tgt[t]] = <<>> /\ status[tgt[t]] = "RECV_WAIT")
    /\ Goto(t, "put")
    /\ UNCHANGED <<procVars, lockVars, busVars, run, tgt, victim, arg>>

SendPut(t) ==
    /\ At(t, {"put"})
    /\ chan' = [chan EXCEPT ![tgt[t]] = Append(@, From(t))]
    /\ SendUnlock(t)
    /\ UNCHANGED <<node, nodeCount, status, tick, killed, parent, inbox, calls,
                   intLock, writer, busVars, run, victim, arg>>

-----------------------------------------------------------------------------
(* The calls of a Lua program, made by the thread that runs it.            *)

Call(t, c) ==
    /\ c \in Calls
    /\ At(t, {"slice"})
    /\ calls[run[t]] < MaxCalls
    /\ calls' = [calls EXCEPT ![run[t]] = @ + 1]

Send(t) ==
    /\ Call(t, "send")
    /\ \E q \in Pids : SendLock(t, q)
    /\ UNCHANGED <<node, nodeCount, status, tick, killed, parent, chan, inbox,
                   busVars, run, victim, arg>>

(* Process::Recieve takes its own _Lock to look at its channel.            *)
Recieve(t, c) ==
    /\ Call(t, c)
    /\ writer = Nil
    /\ lock[run[t]] = Nil
    /\ lock' = [lock EXCEPT ![run[t]] = t]
    /\ readers' = readers \cup {t}
    /\ Goto(t, c)
    /\ UNCHANGED <<node, nodeCount, status, tick, killed, parent, chan, inbox,
                   intLock, writer, busVars, run, tgt, victim, arg>>

(* A message is there: the receiver takes it and runs on.                  *)
RecieveMsg(t) ==
    LET p == run[t] IN
    /\ At(t, {"recv", "recvTimeout"})
    /\ chan[p] # <<>>
    /\ chan' = [chan EXCEPT ![p] = Tail(@)]
    /\ lock' = [lock EXCEPT ![p] = Nil]
    /\ readers' = readers \ {t}
    /\ Goto(t, "slice")
    /\ UNCHANGED <<node, nodeCount, status, tick, killed, parent, inbox, calls,
                   intLock, writer, busVars, run, tgt, victim, arg>>

(* Nothing is there: RECV_WAIT, the timeout if one is given, and yield.    *)
RecieveWait(t) ==
    LET p == run[t] IN
    /\ At(t, {"recv", "recvTimeout"})
    /\ chan[p] = <<>>
    /\ status' = [status EXCEPT ![p] = "RECV_WAIT"]
    /\ timers' = IF pc[t] = "recv" THEN timers ELSE timers \cup {<<p, tick[p], tick[p]>>}
    /\ lock' = [lock EXCEPT ![p] = Nil]
    /\ readers' = readers \ {t}
    /\ Goto(t, "yielded")
    /\ UNCHANGED <<node, nodeCount, tick, killed, parent, chan, inbox, calls,
                   intLock, writer, ready, requests, run, tgt, victim, arg>>

(* Process::Interrupt: trap into the device ...                            *)
Interrupt(t, c) ==
    /\ Call(t, c)
    /\ status' = [status EXCEPT ![run[t]] = "GLR_CALL"]
    /\ Goto(t, c)
    /\ UNCHANGED <<node, nodeCount, tick, killed, parent, chan, inbox,
                   lockVars, busVars, run, tgt, victim, arg>>

(* ... which answers at once (Bus::Return), ...                            *)
IntReturn(t) ==
    /\ At(t, {"return"})
    /\ status' = [status EXCEPT ![run[t]] = "INT_RESP"]
    /\ Goto(t, "slice")
    /\ UNCHANGED <<node, nodeCount, tick, killed, parent, chan, inbox, calls,
                   lockVars, busVars, run, tgt, victim, arg>>

(* ... takes the request and suspends the caller (Bus::IntSuspend), with   *)
(* the general timeout of glr.int if one is given (a read, an accept or a  *)
(* connect; a write has none, and is answered by Response), ...            *)
IntRequest(t) ==
    LET p == run[t] IN
    /\ At(t, {"request", "requestTimeout", "write"})
    /\ status' = [status EXCEPT ![p] = "INT_WAIT"]
    /\ requests' = requests \cup
                     {<<p, tick[p], IF pc[t] = "write" THEN "Response" ELSE "ResponseEx">>}
    /\ timers' = IF pc[t] = "requestTimeout"
                 THEN timers \cup {<<p, tick[p], tick[p]>>} ELSE timers
    /\ Goto(t, "yielded")
    /\ UNCHANGED <<node, nodeCount, tick, killed, parent, chan, inbox, calls,
                   lockVars, ready, run, tgt, victim, arg>>

(* ... or is the clock: sleep suspends, signal only sets a timer, so the   *)
(* caller yields in state GLR_CALL.                                        *)
IntTimer(t) ==
    LET p == run[t] IN
    /\ At(t, {"sleep", "signal"})
    /\ status' = [status EXCEPT ![p] = IF pc[t] = "sleep" THEN "INT_WAIT" ELSE @]
    /\ timers' = timers \cup
                   {<<p, IF pc[t] = "sleep" THEN TIMER ELSE SIGNAL, tick[p]>>}
    /\ Goto(t, "yielded")
    /\ UNCHANGED <<node, nodeCount, tick, killed, parent, chan, inbox, calls,
                   lockVars, ready, requests, run, tgt, victim, arg>>

(* Mutant: NodeCount++ is missing.                                         *)
SpawnUncounted(t) ==
    /\ Call(t, "spawn")
    /\ writer = Nil /\ readers = {}
    /\ \E q \in Pids :
          /\ node[q] = "none"
          /\ node' = [node EXCEPT ![q] = "mapped"]
          /\ parent' = [parent EXCEPT ![q] = run[t]]
          /\ UNCHANGED nodeCount
          /\ ready' \in {Append(ready, q), ready}
    /\ UNCHANGED <<status, tick, killed, chan, inbox, lockVars, timers, requests,
                   threadVars>>

(* Process::Spawn: CreateNode under the write lock, then Start.  If the    *)
(* module or its entry cannot be loaded the node stays, never started.     *)
Spawn(t) ==
    /\ Call(t, "spawn")
    /\ writer = Nil /\ readers = {}
    /\ \E q \in Pids :
          /\ node[q] = "none"
          /\ node' = [node EXCEPT ![q] = "mapped"]
          /\ parent' = [parent EXCEPT ![q] = run[t]]
          /\ nodeCount' = nodeCount + 1
          /\ ready' \in {Append(ready, q), ready}
    /\ UNCHANGED <<status, tick, killed, chan, inbox, lockVars, timers, requests,
                   threadVars>>

(* Process::Kill *)
Kill(t) ==
    /\ Call(t, "kill")
    /\ \E q \in Pids : victim' = [victim EXCEPT ![t] = q]
    /\ Goto(t, "destroy")
    /\ UNCHANGED <<node, nodeCount, status, tick, killed, parent, chan, inbox,
                   lockVars, busVars, run, tgt, arg>>

-----------------------------------------------------------------------------
(* Process::Destory, by glr.kill or at the end of a slice.  The entry and  *)
(* its state are read without a lock.                                      *)

DestroyDone(t) ==
    /\ victim' = [victim EXCEPT ![t] = Nil]
    /\ Goto(t, IF run[t] = Nil THEN "get" ELSE "slice")

DestroyTest(t) ==
    LET p == victim[t] IN
    /\ At(t, {"destroy"})
    /\ IF ~Mapped(p) THEN DestroyDone(t)
       ELSE /\ Goto(t, IF status[p] \in Waits \cup {"STOPED", "KILLED"}
                       THEN "exitMsg" ELSE "setKilled")
            /\ UNCHANGED victim
    /\ UNCHANGED <<procVars, lockVars, busVars, run, tgt, arg>>

SetKilled(t) ==
    /\ At(t, {"setKilled"})
    /\ killed' = [killed EXCEPT ![victim[t]] = TRUE]
    /\ DestroyDone(t)
    /\ UNCHANGED <<node, nodeCount, status, tick, parent, chan, inbox, calls,
                   lockVars, busVars, run, tgt, arg>>

(* The first process's _ParentId is never set: its exit message may go to  *)
(* any process, or to none.                                                *)
SendExitMsg(t) ==
    /\ At(t, {"exitMsg"})
    /\ IF victim[t] = Main
       THEN \E q \in Pids \cup {Nil} : SendLock(t, q)
       ELSE SendLock(t, parent[victim[t]])
    /\ UNCHANGED <<procVars, busVars, run, victim, arg>>

(* Mutant: the map is changed while others read it.                        *)
WriteLockBusy(t) ==
    /\ At(t, {"unlink"})
    /\ writer = Nil
    /\ writer' = t
    /\ Goto(t, "unmap")
    /\ UNCHANGED <<procVars, lock, intLock, readers, busVars, run, tgt, victim,
                   arg>>

WriteLock(t) ==
    /\ At(t, {"unlink"})
    /\ writer = Nil /\ readers = {}
    /\ writer' = t
    /\ Goto(t, "unmap")
    /\ UNCHANGED <<procVars, lock, intLock, readers, busVars, run, tgt, victim,
                   arg>>

(* _IntLock is taken to clear the map's entry and released again ...       *)
Unmap(t) ==
    /\ At(t, {"unmap"})
    /\ intLock[victim[t]] = Nil
    /\ node' = [node EXCEPT ![victim[t]] = "unmapped"]
    /\ Goto(t, "delete")
    /\ UNCHANGED <<nodeCount, status, tick, killed, parent, chan, inbox, calls,
                   lockVars, busVars, run, tgt, victim, arg>>

(* ... before the process is deleted.                                      *)
Delete(t) ==
    LET p == victim[t] IN
    /\ At(t, {"delete"})
    /\ node' = [node EXCEPT ![p] = "freed"]
    /\ chan' = [chan EXCEPT ![p] = <<>>]
    /\ inbox' = [inbox EXCEPT ![p] = <<>>]
    /\ nodeCount' = nodeCount - 1
    /\ writer' = Nil
    /\ DestroyDone(t)
    /\ UNCHANGED <<status, tick, killed, parent, calls, lock, intLock, readers,
                   busVars, run, tgt, arg>>

-----------------------------------------------------------------------------
(* The Bus: what wakes a process that waits.                               *)

Wake(p) ==
    /\ status' = [status EXCEPT ![p] = "INT_RESP"]
    /\ ready' = Append(ready, p)

Fire(ev) ==
    /\ At(Clock, {"idle"})
    /\ ev \in timers
    /\ timers' = timers \ {ev}
    /\ writer = Nil

(* Mutant: neither the tick nor the state is checked.                      *)
TimerSignalAny(ev) ==
    LET p == ev[1] IN
    /\ Fire(ev)
    /\ ev[2] \notin {TIMER, SIGNAL}
    /\ IF /\ Mapped(p)
          /\ intLock[p] = Nil /\ lock[p] = Nil
       THEN Wake(p)
       ELSE UNCHANGED <<status, ready>>
    /\ UNCHANGED <<node, nodeCount, tick, killed, parent, chan, inbox, calls,
                   lockVars, requests, threadVars>>

(* Mutant: the tick is not checked.                                        *)
TimerSignalLate(ev) ==
    LET p == ev[1] IN
    /\ Fire(ev)
    /\ ev[2] \notin {TIMER, SIGNAL}
    /\ IF /\ Mapped(p)
          /\ intLock[p] = Nil /\ lock[p] = Nil
          /\ status[p] \in Waits
       THEN Wake(p)
       ELSE UNCHANGED <<status, ready>>
    /\ UNCHANGED <<node, nodeCount, tick, killed, parent, chan, inbox, calls,
                   lockVars, requests, threadVars>>

(* Mutant: only the wait for an answer is timed out.                       *)
TimerSignalInt(ev) ==
    LET p == ev[1] IN
    /\ Fire(ev)
    /\ ev[2] \notin {TIMER, SIGNAL}
    /\ IF /\ Mapped(p) /\ tick[p] = ev[2]
          /\ intLock[p] = Nil /\ lock[p] = Nil
          /\ status[p] = "INT_WAIT"
       THEN Wake(p)
       ELSE UNCHANGED <<status, ready>>
    /\ UNCHANGED <<node, nodeCount, tick, killed, parent, chan, inbox, calls,
                   lockVars, requests, threadVars>>

(* Bus::TimerSignal: both locks by TryLock, the tick checked under them.   *)
(* A busy lock drops the timeout.                                          *)
TimerSignal(ev) ==
    LET p == ev[1] IN
    /\ Fire(ev)
    /\ ev[2] \notin {TIMER, SIGNAL}
    /\ IF /\ Mapped(p) /\ tick[p] = ev[2]
          /\ intLock[p] = Nil /\ lock[p] = Nil
          /\ status[p] \in Waits
       THEN Wake(p)
       ELSE UNCHANGED <<status, ready>>
    /\ UNCHANGED <<node, nodeCount, tick, killed, parent, chan, inbox, calls,
                   lockVars, requests, threadVars>>

(* Mutant: _IntLock is only tried.                                         *)
ResponseTry(p) ==
    /\ writer = Nil
    /\ IF Mapped(p) /\ intLock[p] = Nil /\ status[p] \in Waits
       THEN Wake(p)
       ELSE UNCHANGED <<status, ready>>
    /\ UNCHANGED <<node, nodeCount, tick, killed, parent, chan, inbox, calls,
                   lockVars, threadVars>>

(* Bus::Response: waits for _IntLock, checks no tick.                      *)
Response(p) ==
    /\ writer = Nil
    /\ Mapped(p) => intLock[p] = Nil
    /\ IF Mapped(p) /\ status[p] \in Waits
       THEN Wake(p)
       ELSE UNCHANGED <<status, ready>>
    /\ UNCHANGED <<node, nodeCount, tick, killed, parent, chan, inbox, calls,
                   lockVars, threadVars>>

SleepOver(ev) ==
    /\ Fire(ev)
    /\ ev[2] = TIMER
    /\ Response(ev[1])
    /\ UNCHANGED requests

WriteDone(d, r) ==
    /\ At(d, {"idle"})
    /\ r \in requests /\ r[3] = "Response"
    /\ requests' = requests \ {r}
    /\ Response(r[1])
    /\ UNCHANGED timers

(* Process::SendTimeoutMsg, for signal.                                    *)
SendTimeoutMsg(ev) ==
    /\ Fire(ev)
    /\ ev[2] = SIGNAL
    /\ SendLock(Clock, ev[1])
    /\ UNCHANGED <<procVars, ready, requests, run, victim, arg>>

(* Bus::ResponseEx by a device thread: the tick is checked first, ...      *)
ResponseExTick(d, r) ==
    /\ At(d, {"idle"})
    /\ r \in requests /\ r[3] = "ResponseEx"
    /\ requests' = requests \ {r}
    /\ writer = Nil
    /\ IF Mapped(r[1]) /\ tick[r[1]] = r[2]
       THEN /\ readers' = readers \cup {d}
            /\ tgt' = [tgt EXCEPT ![d] = r[1]]
            /\ arg' = [arg EXCEPT ![d] = r[2]]
            /\ Goto(d, "respInt")
       ELSE UNCHANGED <<readers, tgt, arg, pc>>
    /\ UNCHANGED <<procVars, lock, intLock, writer, ready, timers, run, victim>>

(* ... then _IntLock is taken ...                                          *)
ResponseExInt(d) ==
    /\ At(d, {"respInt"})
    /\ intLock[tgt[d]] = Nil
    /\ intLock' = [intLock EXCEPT ![tgt[d]] = d]
    /\ Goto(d, "respLock")
    /\ UNCHANGED <<procVars, lock, readers, writer, busVars, run, tgt, victim,
                   arg>>

(* ... and _Lock, and the process is woken if it waits at all.             *)
ResponseExWake(d) ==
    LET p == tgt[d] IN
    /\ At(d, {"respLock"})
    /\ lock[p] = Nil
    /\ IF status[p] \in Waits THEN Wake(p) ELSE UNCHANGED <<status, ready>>
    /\ intLock' = [intLock EXCEPT ![p] = Nil]
    /\ readers' = readers \ {d}
    /\ tgt' = [tgt EXCEPT ![d] = Nil]
    /\ arg' = [arg EXCEPT ![d] = 0]
    /\ Goto(d, "idle")
    /\ UNCHANGED <<node, nodeCount, tick, killed, parent, chan, inbox, calls,
                   lock, writer, timers, requests, run, victim>>

(* Bus::Send: a device thread brings a message from elsewhere.             *)
DeviceSend(d) ==
    /\ At(d, {"idle"})
    /\ calls[d] < MaxDeviceMsgs
    /\ calls' = [calls EXCEPT ![d] = @ + 1]
    /\ \E q \in Pids : SendLock(d, q)
    /\ UNCHANGED <<node, nodeCount, status, tick, killed, parent, chan, inbox,
                   busVars, run, victim, arg>>

-----------------------------------------------------------------------------
Slice(t) ==
    \/ Send(t) \/ Spawn(t) \/ Kill(t)
    \/ \E c \in {"recv", "recvTimeout"} : Recieve(t, c)
    \/ RecieveMsg(t) \/ RecieveWait(t)
    \/ \E c \in {"request", "requestTimeout", "write", "return", "sleep", "signal"} :
          Interrupt(t, c)
    \/ IntReturn(t) \/ IntRequest(t) \/ IntTimer(t)

Sending(t) == SendHandOver(t) \/ SendTest(t) \/ SendPut(t)

Destroy(t) ==
    \/ DestroyTest(t) \/ SetKilled(t) \/ SendExitMsg(t)
    \/ WriteLock(t) \/ Unmap(t) \/ Delete(t)

Processor(t) ==
    \/ GetTask(t) \/ Resume(t) \/ ResumeYielded(t) \/ ResumeReturned(t)
    \/ AfterResume(t) \/ Slice(t) \/ Sending(t) \/ Destroy(t)

ClockStep ==
    \/ \E ev \in timers : TimerSignal(ev) \/ SleepOver(ev) \/ SendTimeoutMsg(ev)
    \/ Sending(Clock)

DeviceStep(d) ==
    \/ \E r \in requests : ResponseExTick(d, r) \/ WriteDone(d, r)
    \/ ResponseExInt(d) \/ ResponseExWake(d) \/ DeviceSend(d) \/ Sending(d)

Next ==
    \/ \E t \in Processors : Processor(t)
    \/ ClockStep
    \/ \E d \in Devices : DeviceStep(d)

Spec == Init /\ [][Next]_vars

(* Every processor goes on, the clock thread delivers every timer, and a   *)
(* device thread finishes the delivery it has begun; when a device answers *)
(* or brings a message is not promised.                                    *)
Fairness ==
    /\ \A t \in Processors : WF_vars(Processor(t))
    /\ WF_vars(ClockStep)
    /\ \A d \in Devices :
          WF_vars(ResponseExInt(d) \/ ResponseExWake(d) \/ Sending(d))

FairSpec == Spec /\ Fairness

-----------------------------------------------------------------------------
SlicePlaces == {"slice", "recv", "recvTimeout", "request", "requestTimeout",
                "write", "return", "sleep", "signal", "yielded"}
DestroyPlaces == {"destroy", "setKilled", "exitMsg", "unlink", "unmap", "delete"}
SendPlaces == {"send", "put"}
RespPlaces == {"respInt", "respLock"}
Places == {"get", "resume", "after", "idle"} \cup SlicePlaces \cup DestroyPlaces
              \cup SendPlaces \cup RespPlaces

NodeTypes ==
    /\ node \in [Pids -> {"none", "mapped", "unmapped", "freed"}]
    /\ nodeCount \in Int
    /\ status \in [Pids -> States]
    /\ tick \in [Pids -> Nat]
    /\ killed \in [Pids -> BOOLEAN]
    /\ parent \in [Pids -> Pids \cup {Nil}]

MsgTypes ==
    /\ chan \in [Pids -> Seq(Senders)]
    /\ inbox \in [Pids -> Seq(Senders)]
    /\ calls \in [Senders -> Nat]

LockTypes ==
    /\ lock \in [Pids -> Threads \cup {Nil}]
    /\ intLock \in [Pids -> Threads \cup {Nil}]
    /\ readers \subseteq Threads
    /\ writer \in Threads \cup {Nil}

BusTypes ==
    /\ ready \in Seq(Pids)
    /\ timers \subseteq Pids \X Int \X Nat
    /\ requests \subseteq Pids \X Nat \X {"Response", "ResponseEx"}

ThreadTypes ==
    /\ pc \in [Threads -> Places]
    /\ run \in [Threads -> Pids \cup {Nil}]
    /\ tgt \in [Threads -> Pids \cup {Nil}]
    /\ victim \in [Threads -> Pids \cup {Nil}]
    /\ arg \in [Threads -> Nat]

(* The variables keep their types: what the threads store in the queue,    *)
(* the channels, the timers and the requests is a process, a sender, a     *)
(* tick of the right kind.                                                 *)
TypeOK == NodeTypes /\ MsgTypes /\ LockTypes /\ BusTypes /\ ThreadTypes

(* A process in RECV_WAIT has an empty channel (LuaNode.hpp:37, "On        *)
(* glr.recv call while no msg available"): no message is stranded behind   *)
(* a receiver that sleeps, whatever the order of send, recv and wake-ups.  *)
NoStrandedMsg ==
    \A p \in Pids : status[p] = "RECV_WAIT" => chan[p] = <<>>

(* The entries of the ready queue for p, and the threads that run p or     *)
(* will put it back into the queue.                                        *)
Entries(p) == {i \in 1..Len(ready) : ready[i] = p}

Runners(p) == {t \in Threads : /\ run[t] = p
                               /\ pc[t] = "after" => status[p] = "YIELD"}

Scheduled(p) == Cardinality(Entries(p)) + Cardinality(Runners(p))

(* No process is in the ready queue or on a processor twice.               *)
ScheduledOnce == \A p \in Pids : Scheduled(p) <= 1

(* A live process that has been started either waits for a wake-up or is   *)
(* scheduled: none is forgotten.                                           *)
NoneForgotten ==
    \A p \in Pids :
        (Mapped(p) /\ status[p] \notin Waits \cup {"CREATED", "STOPED", "KILLED"})
            => Entries(p) # {} \/ Runners(p) # {}

(* The process a thread sends to or answers is in the map until the thread *)
(* is done (Bus.cpp:107: the block is protected so that the process        *)
(* it returns to is not destroyed).                                        *)
AnsweredIsMapped ==
    \A t \in Threads : tgt[t] # Nil => node[tgt[t]] = "mapped"

(* An answer that is about to wake a process that waits is the answer to   *)
(* what it waits for: that of ResponseEx, whose tick was checked before    *)
(* the locks were taken, and that of Response, whose tick never is.        *)
AnswerIsForThisWait ==
    /\ \A d \in Devices :
          pc[d] = "respLock" /\ status[tgt[d]] \in Waits => arg[d] = tick[tgt[d]]
    /\ \A r \in requests :
          /\ r[3] = "Response" /\ Mapped(r[1]) /\ intLock[r[1]] = Nil
          /\ status[r[1]] \in Waits
          => r[2] = tick[r[1]]
    /\ \A ev \in timers :
          /\ ev[2] = TIMER /\ Mapped(ev[1]) /\ intLock[ev[1]] = Nil
          /\ status[ev[1]] \in Waits
          => ev[3] = tick[ev[1]]

(* The write lock of Destory and the locks of a slice form no cycle: who   *)
(* holds the write lock never waits for the _IntLock of a process that     *)
(* runs (and may be about to ask for the read lock), and no sender spins   *)
(* for the _IntLock of a device thread that waits for the sender's _Lock.  *)
NoLockCycle ==
    /\ \A t \in Threads : pc[t] = "unmap" => intLock[victim[t]] \notin Processors
    /\ \A t \in Threads, d \in Devices :
          /\ pc[t] = "send" /\ pc[d] = "respLock"
          /\ tgt[t] = tgt[d]
          => ~(chan[tgt[t]] = <<>> /\ status[tgt[t]] = "RECV_WAIT")

(* The only use of a deleted process is the read of its State() in         *)
(* Processor::Run, once Resume has given _IntLock back (LuaNode.cpp:432    *)
(* calls destroying a process in use "very very dangerous").               *)
OnlyStateReadDangles ==
    \A t \in Threads : \A p \in Uses(t) : node[p] = "freed" => pc[t] = "after"

(* NodeCount, whose fall to zero ends the runtime, counts the processes    *)
(* of the map.                                                             *)
CountIsRight ==
    writer = Nil => nodeCount = Cardinality({p \in Pids : Mapped(p)})

(* A process in state GLR_CALL is not destroyed (Bus.cpp:56 gives this as  *)
(* the reason why Return needs no lock).                                   *)
NotDestroyedInCall ==
    \A p \in Pids : node[p] = "freed" => status[p] # "GLR_CALL"

(* The busy-wait of SendMsg ends: a sender gets the receiver's _IntLock or *)
(* finds that it no longer waits.                                          *)
SendEnds == \A t \in Threads : pc[t] = "send" ~> (pc[t] # "send" \/ Dangling)

(* A process that a message, an answer or a timer has woken goes on.       *)
WokenGoesOn ==
    \A p \in Pids : status[p] \in {"RECV_RETURN", "INT_RESP"}
                       ~> (status[p] \notin {"RECV_RETURN", "INT_RESP"} \/ Dangling)

(* A process that sleeps wakes up: Response waits for _IntLock where       *)
(* TimerSignal gives up.                                                   *)
SleepEnds ==
    \A p \in Pids : (\E ev \in timers : ev[1] = p /\ ev[2] = TIMER)
                       ~> (status[p] = "RUNNING" \/ ~Mapped(p) \/ Dangling)

(* Every wait ends whose end has come: a woken process goes on             *)
(* (WokenGoesOn) and a sleeping one is woken (SleepEnds).                  *)
WaitsEnd == WokenGoesOn /\ SleepEnds

(* A timeout of recv is lost, the process left waiting, in one way only:   *)
(* TimerSignal, which takes the locks by TryLock, comes before the slice   *)
(* that armed the timer has ended, or while a sender is about to wake the  *)
(* process.                                                                *)
OnlyBusySliceDropsTimeout ==
    [][\A ev \in timers \ timers' :
         LET p == ev[1]
         IN  /\ Mapped(p) /\ ev[2] = tick[p]
             /\ status[p] = "RECV_WAIT" /\ status'[p] = "RECV_WAIT"
             => \/ \E t \in Processors : run[t] = p /\ pc[t] = "yielded"
                \/ \E t \in Threads : tgt[t] = p]_vars

(* The channel and the hand-over together are one mailbox per process,     *)
(* which the deletion of the process closes.                               *)
Box == INSTANCE Mailbox WITH
           box <- [p \in Pids |-> inbox[p] \o chan[p]],
           ended <- {p \in Pids : node[p] = "freed"}

BoxSpec == Box!Spec

-----------------------------------------------------------------------------
(* The parts of the inductive invariant behind NoStrandedMsg,              *)
(* AnsweredIsMapped and BoxSpec.                                           *)

(* What a thread works on, from where it is.                               *)
Work(t) ==
    /\ t \in Processors =>
          /\ pc[t] \notin {"idle"} \cup RespPlaces
          /\ pc[t] = "get" => run[t] = Nil /\ victim[t] = Nil
          /\ pc[t] \in {"resume", "after"} \cup SlicePlaces
                => run[t] # Nil /\ victim[t] = Nil
          /\ pc[t] \in DestroyPlaces => victim[t] # Nil
          /\ pc[t] \in SendPlaces => run[t] # Nil \/ victim[t] # Nil
    /\ t \notin Processors =>
          /\ pc[t] \in {"idle"} \cup SendPlaces \cup RespPlaces
          /\ run[t] = Nil /\ victim[t] = Nil
    /\ tgt[t] # Nil <=> pc[t] \in SendPlaces \cup RespPlaces

WorkInv == \A t \in Threads : Work(t)

(* The process whose _Lock a thread owns: it sends to it, or looks into    *)
(* its own channel.                                                        *)
LockOf(t) == IF pc[t] \in SendPlaces THEN tgt[t]
             ELSE IF pc[t] \in {"recv", "recvTimeout"} THEN run[t] ELSE Nil

LockInv == \A p \in Pids, t \in Threads : lock[p] = t <=> LockOf(t) = p

(* The process whose _IntLock a thread owns: a processor runs it, for the  *)
(* whole slice, or a device thread answers it.                             *)
IntLockOf(t) == IF pc[t] = "respLock" THEN tgt[t]
                ELSE IF pc[t] \in {"resume", "after"} THEN Nil ELSE run[t]

IntLockInv == \A p \in Pids, t \in Threads : intLock[p] = t <=> IntLockOf(t) = p

(* The map's lock: many readers or one writer.                             *)
Reads(t) == pc[t] \in {"recv", "recvTimeout"} \cup SendPlaces \cup RespPlaces

Writes(t) == pc[t] \in {"unmap", "delete"}

MapLockInv ==
    /\ \A t \in Threads : (t \in readers <=> Reads(t)) /\ (writer = t <=> Writes(t))
    /\ writer # Nil => readers = {}

(* A sender that goes on to _Channel.Put knows that the receiver does not  *)
(* wait, because it still owns the _Lock under which it would begin to.    *)
PutInv == \A t \in Threads : pc[t] = "put" => status[tgt[t]] # "RECV_WAIT"

(* A message handed over is taken by the next Resume, and no slice runs    *)
(* until then.                                                             *)
InboxInv ==
    \A p \in Pids :
        /\ Len(inbox[p]) <= 1
        /\ inbox[p] # <<>> => status[p] = "RECV_RETURN"
        /\ intLock[p] \in Processors => status[p] # "RECV_RETURN"

-----------------------------------------------------------------------------
(* The parts of the inductive invariants behind the scheduling properties  *)
(* and CountIsRight.                                                       *)

(* A process is in the ready queue; it is there at most once.              *)
InReady(p) == \E i \in 1..Len(ready) : ready[i] = p

ReadyOnce == \A i, j \in 1..Len(ready) : ready[i] = ready[j] => i = j

(* Whatever the programs do, a started process that neither waits nor has  *)
(* ended is in the queue or on a processor, and to wait is the last thing  *)
(* that a slice does before it yields.                                     *)
QueuedOf(p) ==
    status[p] \notin Waits \cup {"CREATED", "STOPED", "KILLED"}
        => InReady(p) \/ Runners(p) # {}

WaitOf(t) ==
    (run[t] # Nil /\ pc[t] \notin {"resume", "after"} /\ status[run[t]] \in Waits)
        => pc[t] = "yielded"

KeptInv == (\A p \in Pids : QueuedOf(p)) /\ (\A t \in Threads : WaitOf(t))

(* A thread runs a process until Resume has given _IntLock back.           *)
Runs(t, p) == run[t] = p /\ pc[t] # "after"

(* Where no program calls signal, which ends a slice in YIELD, so that a   *)
(* processor that reads the state late, after a slice before, queues the   *)
(* process as well: a process is in the ready queue, or one thread runs    *)
(* it, or neither, and its state says which.                               *)
OnceOf(p) ==
    /\ \A t \in Threads : Runs(t, p) =>
          /\ ~InReady(p)
          /\ node[p] # "none" /\ status[p] # "KILLED"
          /\ status[p] \in Waits <=> pc[t] = "yielded"
          /\ \A u \in Threads : Runs(u, p) => u = t
    /\ InReady(p) => node[p] # "none" /\ status[p] \notin Waits \cup {"KILLED"}
    /\ node[p] = "none" => status[p] = "CREATED"

SignalInv == (\A t \in Threads : pc[t] # "signal") /\ (\A p \in Pids : status[p] # "YIELD")

OnceInv == SignalInv /\ ReadyOnce /\ \A p \in Pids : OnceOf(p)

(* What is asked for p and not answered, where no request has a timeout    *)
(* either: a process waits for one answer at a time, and a timeout of recv *)
(* is of an earlier slice or of this wait.                                 *)
Answers(t, p) == pc[t] \in RespPlaces /\ tgt[t] = p

AskedOf(p) ==
    /\ \A r \in requests : r[1] = p =>
          /\ status[p] = "INT_WAIT" /\ r[2] = tick[p]
          /\ \A s \in requests : s[1] = p => s = r
    /\ \A ev \in timers : ev[1] = p /\ ev[2] = TIMER =>
          /\ status[p] = "INT_WAIT" /\ ev[3] = tick[p]
          /\ \A f \in timers : f[1] = p /\ f[2] = TIMER => f = ev
          /\ \A r \in requests : r[1] # p
    /\ \A t \in Threads : Answers(t, p) =>
          /\ status[p] = "INT_WAIT" /\ arg[t] = tick[p]
          /\ \A u \in Threads : Answers(u, p) => u = t
          /\ \A r \in requests : r[1] # p
          /\ \A ev \in timers : ev[1] = p => ev[2] # TIMER
    /\ \A ev \in timers : ev[1] = p /\ ev[2] # TIMER =>
          /\ ev[3] = ev[2] /\ ev[2] <= tick[p]
          /\ ev[2] = tick[p] => status[p] \in {"RECV_WAIT", "RECV_RETURN"}

AskedInv == \A p \in Pids : status[p] = "KILLED" \/ AskedOf(p)

(* Where no program calls signal or kills a process: the process a thread  *)
(* has to itself, which it runs or destroys, ...                           *)
Held(t) == IF victim[t] # Nil THEN victim[t]
           ELSE IF pc[t] = "after" THEN Nil ELSE run[t]

(* ... is not in the queue, and is not deleted.                            *)
SchedOf(p) ==
    /\ \A t \in Threads : Held(t) = p =>
          /\ ~InReady(p)
          /\ node[p] \in {"mapped", "unmapped"}
          /\ status[p] \in Waits <=> pc[t] = "yielded"
          /\ status[p] = "STOPED" <=> victim[t] # Nil
          /\ \A u \in Threads : Held(u) = p => u = t
    /\ InReady(p) => node[p] = "mapped" /\ status[p] \notin Waits \cup {"STOPED"}
    /\ node[p] = "none" => status[p] = "CREATED"
    /\ node[p] \in {"unmapped", "freed"} => status[p] = "STOPED"
    /\ status[p] \notin Waits \cup {"CREATED", "STOPED"}
          => InReady(p) \/ \E t \in Threads : Held(t) = p

SchedInv == ReadyOnce /\ \A p \in Pids : SchedOf(p)

PlainInv ==
    /\ \A t \in Threads : /\ pc[t] \notin {"setKilled", "signal"}
                          /\ victim[t] # Nil => run[t] = Nil
    /\ \A p \in Pids : ~killed[p] /\ status[p] \notin {"YIELD", "KILLED"}
    /\ \A ev \in timers : ev[2] # SIGNAL

(* NodeCount counts the processes of the map, and the one that Destory has *)
(* taken out of it and not deleted yet.                                    *)
Counted == {p \in Pids : node[p] \in {"mapped", "unmapped"}}

(* Who destroys a process found it in the map; who has taken it out of the *)
(* map is about to delete it.                                              *)
VictimOf(t) == victim[t] # Nil /\ pc[t] # "destroy" => node[victim[t]] # "none"

UnmappedOf(p) ==
    node[p] = "unmapped" <=> \E t \in Threads : pc[t] = "delete" /\ victim[t] = p

CountInv ==
    /\ \A t \in Threads : VictimOf(t)
    /\ \A p \in Pids : UnmappedOf(p)
    /\ IsFiniteSet(Counted) /\ nodeCount = Cardinality(Counted)
==============================================================================
