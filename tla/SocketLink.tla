----------------------------- MODULE SocketLink -----------------------------
(***************************************************************************)
(* One stream connection of the socket device (GLR/Controllers/            *)
(* SocketController.cpp): processes that call recv, get_line, poll, send   *)
(* and close on it, the worker thread that polls its descriptor through a  *)
(* CPollSelector (Runtime/Event.cpp) and serves the queued requests, and   *)
(* the peer.                                                               *)
(*                                                                         *)
(* A process that is inside a call holds its own _IntLock and, past the    *)
(* first step, the device's lock for reading; the worker holds that lock   *)
(* for writing while it takes a broken link apart, and the link's _Lock    *)
(* while it serves receive requests.  A step is what one of them does      *)
(* between two points where the others can see or stop it.                 *)
(*                                                                         *)
(* The bytes of the connection are the positions of Stream: the peer has   *)
(* sent the first `sent` of them, the link has read `got` into its cache   *)
(* and taken `eaten` out of it.  Connecting and accepting, and a           *)
(* descriptor number that is used again, are outside: the link is made     *)
(* once, on a slot of the selector whose last owner left any event bits.   *)
(***************************************************************************)
EXTENDS TcpCache, Sequences, FiniteSets

CONSTANTS Procs,     \* processes that use the link
          Calls,     \* the calls they make: [type, len]
          MaxCalls,  \* bound: calls in all
          Stream,    \* what the peer sends: "c", "n" (a newline), "f" (EOF as a char)
          SendLen,   \* bytes of one send
          OldBits    \* the event bits that a slot's last owner may have left

Types == {"RECV", "RECV_LINE", "POLL", "SEND", "CLOSE"}

ASSUME SocketAssumption ==
    /\ Calls \subseteq [type : Types, len : Nat]
    /\ \A c \in Calls : c.type = "RECV" => c.len > 0
    /\ MaxCalls \in Nat /\ SendLen \in Nat \ {0}
    /\ Stream \in Seq({"c", "n", "f"})
    /\ OldBits \subseteq SUBSET {"IN", "OUT"}

VARIABLES
    open,        \* _LinkMap[fd] is not NULL
    tasks,       \* _RecvTasks
    sends,       \* _SendTasks
    cache,       \* _Cache
    hanguped,    \* _Hanguped
    sent, got, eaten,   \* bytes sent, read and taken, as above
    given,       \* bytes handed to processes
    peer,        \* open, closed, or reset
    shut,        \* close has shut the socket down
    registered,  \* the selector has a slot for the descriptor
    events,      \* the event bits of the slot
    snap,        \* the slot's bits in the copy that poll works on
    wpc, cur,    \* where the worker is, and the task it answers
    pc, call,    \* where each process is, and its present call
    calls,       \* calls so far, of all (bounded by MaxCalls)
    tick,        \* _Tick: the slices it has had
    seen,        \* got, when the process's call compared the cache (-1: did not)
    late         \* history: requests put when the worker was past them

linkVars == <<open, tasks, sends, cache, hanguped>>
dataVars == <<sent, got, eaten, given, peer, shut>>
pollVars == <<registered, events, snap>>
procVars == <<pc, call, calls, tick, seen>>
vars == <<linkVars, dataVars, pollVars, procVars, wpc, cur, late>>

NoTask == [type |-> "none"]

(* A process at these places holds the device's lock for reading, and is   *)
(* in its slice: it holds its _IntLock at "enter" too.                     *)
Inside == {"look", "fast", "put", "register"}
InSlice(p) == pc[p] \in Inside \cup {"enter"}

(* Where the worker holds the link's _Lock, and the lock for writing.      *)
Serving == {"read", "respond", "answer", "leave", "removeIn"}
TakingApart == {"drain", "drainAnswer"}

LockFree == wpc \notin Serving /\ \A p \in Procs : pc[p] # "fast"

Id(p) == <<p, tick[p]>>
Cancelled(t) == tick[t.pid] # t.tick
Ids(s) == {<<s[i].pid, s[i].tick>> : i \in 1..Len(s)}

(* GetLine: the length of the first line in the cache, or 0.               *)
LineLen ==
    LET ends == {i \in 1..DataSize(cache) : Stream[eaten + i] = "n"} IN
    IF ends = {} THEN 0 ELSE CHOOSE i \in ends : \A j \in ends : i <= j

(* The bytes the cache has for a request of this kind; 0 if not enough.    *)
Portion(c) ==
    CASE c.type = "RECV" -> IF DataSize(cache) >= c.len THEN c.len ELSE 0
      [] c.type = "RECV_LINE" -> LineLen
      [] OTHER -> 0

Servable(c) == IF c.type = "POLL" THEN DataSize(cache) # 0 ELSE Portion(c) # 0

Init ==
    /\ open = TRUE /\ tasks = <<>> /\ sends = <<>>
    /\ cache = NewCache /\ hanguped = FALSE
    /\ sent = 0 /\ got = 0 /\ eaten = 0 /\ given = 0
    /\ peer = "open" /\ shut = FALSE
    /\ registered = FALSE /\ events \in OldBits /\ snap = {}
    /\ wpc = "wait" /\ cur = NoTask
    /\ pc = [p \in Procs |-> "idle"]
    /\ call = [p \in Procs |-> NoTask]
    /\ calls = 0
    /\ tick = [p \in Procs |-> 0]
    /\ seen = [p \in Procs |-> -1]
    /\ late = {}

Goto(p, where) == pc' = [pc EXCEPT ![p] = where]

(* Hand n bytes from the front of the cache to a process.                  *)
Hand(n) ==
    /\ cache' = Eat(cache, n)
    /\ eaten' = eaten + n
    /\ given' = given + n

-----------------------------------------------------------------------------
(* Processes: SocketController::Do... *)

(* Interrupt to the device, from a slice.                                  *)
Call(p) ==
    /\ pc[p] = "idle" /\ calls < MaxCalls
    /\ \E c \in Calls : call' = [call EXCEPT ![p] = c]
    /\ calls' = calls + 1
    /\ Goto(p, "enter")
    /\ UNCHANGED <<linkVars, dataVars, pollVars, tick, seen, wpc, cur, late>>

(* The lock for reading, and the link looked up: "Invalid Fd", or on.      *)
(* PutPollTask compares the cache with 0 without the link's lock.          *)
Enter(p) ==
    /\ pc[p] = "enter"
    /\ wpc \notin TakingApart
    /\ IF ~open THEN Goto(p, "idle") /\ UNCHANGED seen
       ELSE /\ Goto(p, CASE call[p].type \in {"RECV", "RECV_LINE"} -> "look"
                         [] call[p].type = "CLOSE" -> "register"
                         [] call[p].type = "POLL" /\ DataSize(cache) # 0 -> "register"
                         [] OTHER -> "put")
            /\ seen' = [seen EXCEPT ![p] = IF call[p].type = "POLL" THEN got ELSE -1]
    /\ shut' = (shut \/ (open /\ call[p].type = "CLOSE"))
    /\ UNCHANGED <<linkVars, sent, got, eaten, given, peer, pollVars, call, calls, tick,
                   wpc, cur, late>>

(* FastRecvReturn: the link's _Lock, and the first look at the queue.      *)
Look(p) ==
    /\ pc[p] = "look" /\ LockFree
    /\ IF tasks = <<>> THEN Goto(p, "fast") /\ UNCHANGED seen
       ELSE Goto(p, "put") /\ seen' = [seen EXCEPT ![p] = -1]
    /\ UNCHANGED <<linkVars, dataVars, pollVars, call, calls, tick, wpc, cur, late>>

(* Variant: no look at the cache.                                          *)
FastRecvReturnNot(p) ==
    /\ pc[p] = "fast"
    /\ Goto(p, IF tasks = <<>> THEN "put" ELSE "idle")
    /\ seen' = [seen EXCEPT ![p] = got]
    /\ UNCHANGED <<linkVars, dataVars, pollVars, call, calls, tick, wpc, cur, late>>

(* The second look, LockIfEmpty, throws if a task has come: the call       *)
(* returns an error.  Otherwise the cache answers, or IntSuspend.          *)
FastRecvReturn(p) ==
    /\ pc[p] = "fast"
    /\ IF tasks = <<>> /\ Portion(call[p]) # 0 THEN Hand(Portion(call[p]))
       ELSE UNCHANGED <<cache, eaten, given>>
    /\ Goto(p, IF tasks = <<>> /\ Portion(call[p]) = 0 THEN "put" ELSE "idle")
    /\ seen' = [seen EXCEPT ![p] = IF tasks = <<>> /\ Portion(call[p]) = 0 THEN got ELSE -1]
    /\ UNCHANGED <<open, tasks, sends, hanguped, sent, got, peer, shut, pollVars,
                   call, calls, tick, wpc, cur, late>>

(* Variant: the request is queued before the link's lock is taken.         *)
PutFirst(p) ==
    LET t == [type |-> call[p].type, len |-> call[p].len, pid |-> p, tick |-> tick[p]]
    IN
    /\ pc[p] = "put"
    /\ Goto(p, "look")
    /\ tasks' = Append(tasks, t)
    /\ UNCHANGED <<open, sends, cache, hanguped, dataVars, pollVars, call, calls,
                   tick, seen, wpc, cur, late>>

(* PutRecvTask, PutRecvLineTask, PutPollTask, PutSendTask: no lock.        *)
Put(p) ==
    LET t == [type |-> call[p].type, len |-> call[p].len, pid |-> p, tick |-> tick[p]]
    IN
    /\ pc[p] = "put"
    /\ Goto(p, "register")
    /\ IF t.type = "SEND"
       THEN /\ sends' = Append(sends, [t EXCEPT !.len = SendLen])
            /\ UNCHANGED <<tasks, late>>
       ELSE /\ tasks' = Append(tasks, t)
            /\ late' = IF seen[p] = got THEN late ELSE late \cup {Id(p)}
            /\ UNCHANGED sends
    /\ UNCHANGED <<open, cache, hanguped, dataVars, pollVars, call, calls, tick, seen, wpc, cur>>

(* Variant: a descriptor that has no slot is not given one.                *)
RegisterKnown(p) ==
    /\ pc[p] = "register"
    /\ events' = events \cup (IF call[p].type = "SEND" THEN {"OUT"} ELSE {"IN"})
    /\ Goto(p, IF call[p].type \in {"POLL", "CLOSE"} THEN "idle" ELSE "wait")
    /\ seen' = [seen EXCEPT ![p] = -1]
    /\ UNCHANGED <<linkVars, dataVars, registered, snap, call, calls, tick, wpc, cur, late>>

(* CPollSelector::Register: the slot keeps the bits it has.  poll and      *)
(* close then return; the others have suspended and the slice ends.        *)
Register(p) ==
    LET bit == CASE call[p].type = "SEND" -> {"OUT"} [] call[p].type = "CLOSE" -> {}
                 [] OTHER -> {"IN"}
    IN
    /\ pc[p] = "register"
    /\ registered' = TRUE
    /\ events' = events \cup bit
    /\ late' = IF \/ bit = {"IN"} /\ wpc = "removeIn"
                  \/ bit = {"OUT"} /\ wpc = "removeOut"
               THEN late \cup {Id(p)} ELSE late
    /\ Goto(p, IF call[p].type \in {"POLL", "CLOSE"} THEN "idle" ELSE "wait")
    /\ seen' = [seen EXCEPT ![p] = -1]
    /\ UNCHANGED <<linkVars, dataVars, snap, call, calls, tick, wpc, cur>>

(* TimerSignal wakes a receive that was given a timeout; send has none.    *)
TimeOut(p) ==
    /\ pc[p] = "wait" /\ call[p].type # "SEND"
    /\ Goto(p, "woken")
    /\ UNCHANGED <<linkVars, dataVars, pollVars, call, calls, tick, seen, wpc, cur, late>>

(* Process::Resume of a process whose wait is over: _Tick is counted up.   *)
Resume(p) ==
    /\ pc[p] = "woken"
    /\ Goto(p, "idle")
    /\ tick' = [tick EXCEPT ![p] = @ + 1]
    /\ UNCHANGED <<linkVars, dataVars, pollVars, call, calls, seen, wpc, cur, late>>

-----------------------------------------------------------------------------
(* The peer *)

PeerSend ==
    /\ peer = "open" /\ sent < Len(Stream)
    /\ sent' = sent + 1
    /\ UNCHANGED <<linkVars, got, eaten, given, peer, shut, pollVars, procVars, wpc, cur, late>>

PeerClose ==
    /\ peer = "open"
    /\ peer' \in {"closed", "reset"}
    /\ UNCHANGED <<linkVars, sent, got, eaten, given, shut, pollVars, procVars, wpc, cur, late>>

-----------------------------------------------------------------------------
(* The worker: SocketWorker::Run and CPollSelector::WaitEvent *)

(* The selector's slots are copied under its mutex.                        *)
Snapshot ==
    /\ wpc = "wait"
    /\ snap' = IF registered THEN events \cup {"HUP"} ELSE {}
    /\ wpc' = "poll"
    /\ UNCHANGED <<linkVars, dataVars, registered, events, procVars, cur, late>>

Readable == got < sent \/ peer # "open" \/ shut

(* poll on the copy: EV_IN goes before EV_OUT, and that before a hang-up,  *)
(* which is reported unasked.  With nothing to report it returns when its  *)
(* time is over or _Notify has written to the pair.                        *)
Poll ==
    /\ wpc = "poll"
    /\ wpc' = CASE "IN" \in snap /\ Readable -> "onRecv"
                [] "OUT" \in snap /\ ~("IN" \in snap /\ Readable) -> "onSend"
                [] "HUP" \in snap /\ (shut \/ peer = "reset")
                    /\ snap \cap {"IN", "OUT"} = {} -> "err"
                [] OTHER -> "wait"
    /\ snap' = {}
    /\ UNCHANGED <<linkVars, dataVars, registered, events, procVars, cur, late>>

(* OnRecv: the link's _Lock; a link that has hung up is an error now.      *)
OnRecv ==
    /\ wpc = "onRecv" /\ LockFree
    /\ wpc' = IF hanguped THEN "err" ELSE "read"
    /\ UNCHANGED <<linkVars, dataVars, pollVars, procVars, cur, late>>

(* One Recv of the loop.  CSocketHandle::Recv takes a single byte that is  *)
(* EOF for the end of the connection too.                                  *)
Recv ==
    LET n == IF sent - got < Reserved(cache) THEN sent - got ELSE Reserved(cache)
        end == \/ n = 0 /\ (peer = "closed" \/ shut)
               \/ n = 1 /\ Stream[got + 1] = "f"
    IN
    /\ wpc = "read"
    /\ \/ /\ peer # "reset" /\ n > 0 /\ ~end
          /\ cache' = Grow(cache, n)
          /\ got' = got + n
          /\ UNCHANGED <<hanguped, wpc>>
       \/ /\ peer # "reset" /\ end
          /\ hanguped' = TRUE
          /\ wpc' = IF DataSize(cache) = 0 THEN "err" ELSE "respond"
          /\ UNCHANGED <<cache, got>>
       \/ /\ peer # "reset" /\ n = 0 /\ ~end
          /\ wpc' = "respond"
          /\ UNCHANGED <<cache, got, hanguped>>
       \/ /\ peer = "reset"
          /\ wpc' = "err"
          /\ UNCHANGED <<cache, got, hanguped>>
    /\ UNCHANGED <<open, tasks, sends, sent, eaten, given, peer, shut, pollVars,
                   procVars, cur, late>>

(* StreamLinkStack::Response, one task: a cancelled one is dropped, a poll *)
(* gets its message, a receive that the cache can serve is answered, one   *)
(* that it cannot ends the loop, or the link if it has hung up.  A poll    *)
(* that finds the cache empty does none of these: the loop never ends.     *)
Respond ==
    LET t == Head(tasks)
        drop == IF t.type = "POLL" THEN Servable(t) ELSE Cancelled(t)
    IN
    /\ wpc = "respond"
    /\ IF tasks = <<>>
       THEN wpc' = "leave" /\ UNCHANGED <<tasks, cur, late>>
       ELSE \/ /\ drop
               /\ tasks' = Tail(tasks)
               /\ UNCHANGED <<wpc, cur, late>>
            \/ /\ ~drop /\ Servable(t)
               /\ wpc' = "answer" /\ cur' = t
               /\ UNCHANGED <<tasks, late>>
            \/ /\ ~drop /\ ~Servable(t)
               /\ wpc' = IF t.type = "POLL" THEN "spin"
                         ELSE IF hanguped THEN "err" ELSE "leave"
               /\ late' = late \ Ids(tasks)
               /\ UNCHANGED <<tasks, cur>>
    /\ UNCHANGED <<open, sends, cache, hanguped, dataVars, pollVars, procVars>>

(* Bus::ResponseEx past its look at the tick, and Bus::Response, which has *)
(* none: the process's _IntLock is waited for, and whatever the process    *)
(* waits for is answered.                                                  *)
Woken(p) ==
    /\ ~InSlice(p)
    /\ pc' = IF pc[p] = "wait" THEN [pc EXCEPT ![p] = "woken"] ELSE pc

(* Variant: the bytes leave the cache whether or not anyone got them.      *)
AnswerEats ==
    /\ wpc = "answer"
    /\ Woken(cur.pid)
    /\ cur' = NoTask
    /\ tasks' = Tail(tasks)
    /\ wpc' = "respond"
    /\ cache' = Eat(cache, Portion(cur)) /\ eaten' = eaten + Portion(cur)
    /\ given' = IF pc[cur.pid] = "wait" THEN given + Portion(cur) ELSE given
    /\ UNCHANGED <<open, sends, hanguped, sent, got, peer, shut, pollVars, call,
                   calls, tick, seen, late>>

(* The bytes leave the cache only if the answer was taken.                 *)
Answer ==
    /\ wpc = "answer"
    /\ Woken(cur.pid)
    /\ cur' = NoTask
    /\ tasks' = Tail(tasks)
    /\ wpc' = "respond"
    /\ IF pc[cur.pid] = "wait" THEN Hand(Portion(cur))
       ELSE UNCHANGED <<cache, eaten, given>>
    /\ UNCHANGED <<open, sends, hanguped, sent, got, peer, shut, pollVars, call,
                   calls, tick, seen, late>>

(* After the loop the queue is tested again, and then EV_IN removed.       *)
Leave ==
    /\ wpc = "leave"
    /\ wpc' = IF tasks = <<>> THEN "removeIn" ELSE "wait"
    /\ UNCHANGED <<linkVars, dataVars, pollVars, procVars, cur, late>>

Remove(bit) ==
    /\ events' = events \ {bit}
    /\ UNCHANGED <<registered, snap>>

RemoveIn ==
    /\ wpc = "removeIn"
    /\ Remove("IN")
    /\ wpc' = "wait"
    /\ UNCHANGED <<linkVars, dataVars, procVars, cur, late>>

(* StreamLinkStack::OnSend: some of the first task's bytes are sent.       *)
OnSend ==
    /\ wpc = "onSend"
    /\ \/ /\ sends = <<>>
          /\ wpc' = "removeOut" /\ cur' = NoTask
          /\ UNCHANGED sends
       \/ /\ sends # <<>> /\ (peer = "reset" \/ shut)
          /\ wpc' = "err"
          /\ UNCHANGED <<sends, cur>>
       \/ /\ sends # <<>> /\ peer # "reset" /\ ~shut
          /\ \E n \in 1..Head(sends).len :
                IF n < Head(sends).len
                THEN /\ sends' = [sends EXCEPT ![1].len = @ - n]
                     /\ wpc' = "wait"
                     /\ UNCHANGED cur
                ELSE /\ sends' = Tail(sends)
                     /\ cur' = Head(sends)
                     /\ wpc' = IF Tail(sends) = <<>> THEN "removeOut" ELSE "sent"
    /\ UNCHANGED <<open, tasks, cache, hanguped, dataVars, pollVars, procVars, late>>

RemoveOut ==
    /\ wpc = "removeOut"
    /\ Remove("OUT")
    /\ wpc' = IF cur = NoTask THEN "wait" ELSE "sent"
    /\ UNCHANGED <<linkVars, dataVars, procVars, cur, late>>

Sent ==
    /\ wpc = "sent"
    /\ Woken(cur.pid)
    /\ cur' = NoTask
    /\ wpc' = "wait"
    /\ UNCHANGED <<linkVars, dataVars, pollVars, call, calls, tick, seen, late>>

(* Variant: the lock is not waited for.                                    *)
OnErrNow ==
    /\ wpc = "err"
    /\ wpc' = IF open THEN "drain" ELSE "wait"
    /\ UNCHANGED <<linkVars, dataVars, pollVars, procVars, cur, late>>

(* SocketWorker::OnErr: the lock for writing.                              *)
OnErr ==
    /\ wpc = "err"
    /\ \A p \in Procs : pc[p] \notin Inside
    /\ wpc' = IF open THEN "drain" ELSE "wait"
    /\ UNCHANGED <<linkVars, dataVars, pollVars, procVars, cur, late>>

(* StreamLinkStack::OnErr, one task: receives and sends get an error, a    *)
(* poll its message, a get_line nothing.  When none is left the descriptor *)
(* is removed from the selector (the bits stay) and the link deleted.      *)
Drain ==
    LET t == IF tasks # <<>> THEN Head(tasks) ELSE Head(sends) IN
    /\ wpc = "drain"
    /\ \/ /\ tasks \o sends # <<>>
          /\ tasks' = IF tasks # <<>> THEN Tail(tasks) ELSE tasks
          /\ sends' = IF tasks # <<>> THEN sends ELSE Tail(sends)
          /\ IF t.type = "SEND" \/ (t.type = "RECV" /\ ~Cancelled(t))
             THEN wpc' = "drainAnswer" /\ cur' = t
             ELSE UNCHANGED <<wpc, cur>>
          /\ UNCHANGED <<open, registered>>
       \/ /\ tasks \o sends = <<>>
          /\ registered' = FALSE /\ open' = FALSE
          /\ wpc' = "wait"
          /\ UNCHANGED <<tasks, sends, cur>>
    /\ UNCHANGED <<cache, hanguped, dataVars, events, snap, procVars, late>>

DrainAnswer ==
    /\ wpc = "drainAnswer"
    /\ Woken(cur.pid)
    /\ cur' = NoTask
    /\ wpc' = "drain"
    /\ UNCHANGED <<linkVars, dataVars, pollVars, call, calls, tick, seen, late>>

Worker ==
    \/ Snapshot \/ Poll \/ OnRecv \/ Recv \/ Respond \/ Answer \/ Leave \/ RemoveIn
    \/ OnSend \/ RemoveOut \/ Sent \/ OnErr \/ Drain \/ DrainAnswer

Slice(p) ==
    Enter(p) \/ Look(p) \/ FastRecvReturn(p) \/ Put(p) \/ Register(p) \/ Resume(p)

Next ==
    \/ \E p \in Procs : Call(p) \/ Slice(p) \/ TimeOut(p)
    \/ PeerSend \/ PeerClose \/ Worker

(* The worker and the processors go on; nobody has to call, send or close, *)
(* and no timeout has to be given.                                         *)
Spec == Init /\ [][Next]_vars /\ WF_vars(Worker) /\ \A p \in Procs : WF_vars(Slice(p))

-----------------------------------------------------------------------------
(* Properties *)

Places == {"idle", "enter", "wait", "woken"} \cup Inside
WorkerPlaces == {"wait", "poll", "onRecv", "onSend", "removeOut", "sent", "err", "spin"}
                \cup Serving \cup TakingApart
Tasks == [type : Types, len : Nat, pid : Procs, tick : Nat]

(* The types of the variables; what is read was sent, what is eaten read.  *)
TypeOK ==
    /\ open \in BOOLEAN /\ hanguped \in BOOLEAN /\ shut \in BOOLEAN
    /\ tasks \in Seq(Tasks) /\ sends \in Seq(Tasks)
    /\ cache \in Caches
    /\ sent \in 0..Len(Stream) /\ got \in 0..sent /\ eaten \in 0..got /\ given \in Nat
    /\ peer \in {"open", "closed", "reset"}
    /\ registered \in BOOLEAN
    /\ events \subseteq {"IN", "OUT"} /\ snap \subseteq {"IN", "OUT", "HUP"}
    /\ wpc \in WorkerPlaces /\ cur \in Tasks \cup {NoTask}
    /\ pc \in [Procs -> Places] /\ call \in [Procs -> Calls \cup {NoTask}]
    /\ calls \in 0..MaxCalls /\ tick \in [Procs -> Nat]
    /\ seen \in [Procs -> Nat \cup {-1}]
    /\ late \subseteq Procs \X Nat

(* TcpCache always leaves room behind the data: Recv is never called with  *)
(* a length of 0, whose result OnRecv would take for the peer's close.     *)
RoomLeft == cache.begin <= cache.end /\ Reserved(cache) > 0

(* Every byte that leaves the cache was handed to a process, once, and the *)
(* cache holds exactly the bytes read and not taken: neither cancelled     *)
(* requests (Response, ResponseEx's result) nor moving the data down loses *)
(* or repeats any.                                                         *)
HandedOnce == given = eaten /\ eaten + DataSize(cache) = got

(* No byte of the stream is lost, repeated or kept out: HandedOnce, while  *)
(* RoomLeft keeps OnRecv from mistaking a full cache for the peer's close. *)
BytesKept == RoomLeft /\ HandedOnce

(* The link outlives its users: it exists while a process is between the   *)
(* lookup and the end of its call, and while the worker, which looks it up *)
(* without the lock, handles an event (assert(ls!=NULL) in OnRecv).        *)
NoUseAfterDelete ==
    \/ open
    \/ /\ \A p \in Procs : pc[p] \notin Inside
       /\ wpc \in {"wait", "poll"} /\ (wpc = "poll" => snap = {})

(* A process that waits is known to the device: its request is queued or   *)
(* being answered.  The exception is get_line on a link that broke: OnErr  *)
(* takes such a request off the queue and answers nothing.                 *)
NotForgotten ==
    \A p \in Procs : pc[p] = "wait" =>
        \/ Id(p) \in Ids(tasks) \cup Ids(sends)
        \/ wpc \in {"removeOut", "sent", "drainAnswer"} /\ cur.pid = p
        \/ call[p].type = "RECV_LINE" /\ (~open \/ wpc \in TakingApart)

(* The foremost request is never left waiting for more data with what it   *)
(* needs in the cache, except one that was queued after the worker's pass: *)
(* its call did not compare the cache (a request was queued then), or the  *)
(* worker read between the comparison and PutRecvTask.  Such a request,    *)
(* and one behind it, waits until more bytes come.                         *)
NotStranded ==
    LET t == Head(tasks) IN
    wpc \in {"wait", "poll"} /\ tasks # <<>> => ~Servable(t) \/ <<t.pid, t.tick>> \in late

(* A waiting process is neither forgotten (NotForgotten) nor, with what it *)
(* asked for in the cache, passed over (NotStranded).                      *)
RequestsKept == NotForgotten /\ NotStranded

(* The worker waits for the _IntLock of a process that waits for a lock    *)
(* the worker holds.                                                       *)
Embrace ==
    \/ wpc = "answer" /\ pc[cur.pid] = "look"
    \/ wpc = "drainAnswer" /\ pc[cur.pid] = "enter"

(* ResponseEx compares the tick before it waits for _IntLock: the two      *)
(* threads stop each other for ever when the process was woken by its      *)
(* timeout in between and has called the device again, and only then.      *)
EmbraceOnlyAfterTimeout == Embrace => tick[cur.pid] # cur.tick

(* The worker serves nobody any more: Response found a poll request behind *)
(* a receive that emptied the cache, or the embrace above.                 *)
Stuck == wpc = "spin" \/ Embrace

(* The receive of p is at the head of the queue, and its bytes have been   *)
(* sent, or the link is broken.                                            *)
ReceiveDue(p) ==
    /\ pc[p] = "wait" /\ call[p].type = "RECV"
    /\ tasks # <<>> /\ Id(p) = <<Head(tasks).pid, Head(tasks).tick>>
    /\ sent - eaten >= call[p].len \/ peer # "open" \/ shut

SendDue(p) == pc[p] = "wait" /\ call[p].type = "SEND"

(* A receive that is due, and every send, is answered, unless it was put   *)
(* too late (NotStranded) or registered between the worker's look at the   *)
(* queue and its removal of the event bit (OnSend), or the worker is stuck.*)
(* A link that close has shut down is deleted, unless the worker is stuck. *)
RequestsEnd ==
    /\ \A p \in Procs :
          ReceiveDue(p) \/ SendDue(p) ~> pc[p] # "wait" \/ Id(p) \in late \/ Stuck
    /\ shut ~> ~open \/ Stuck

=============================================================================
