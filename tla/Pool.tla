-------------------------------- MODULE Pool --------------------------------
(***************************************************************************)
(* The process pool of the web server: the pool (Frameworks/core/pool.lua, *)
(* queue.lua), which is an rpc server (rpc.lua) that hands worker          *)
(* processes to the dispatcher; the dispatcher and the workers             *)
(* (gws/dispatcher.lua, gws/processor.lua); and the supervisor they all    *)
(* are started by, here as far as the pool sees it.  They call each other  *)
(* through rpc_client.lua: a call sends a request and takes the next       *)
(* message from the callee for the answer, with no time limit.             *)
(*                                                                         *)
(* A process is known by the number of its spawn.  Dispatcher d + 1 is     *)
(* started when dispatcher d has died.  A message to a dead process is     *)
(* dropped, as SendMsgToNode does; the model keeps those to a dead         *)
(* dispatcher, where nothing reads them.                                   *)
(***************************************************************************)
EXTENDS CoreRecv, FiniteSets

CONSTANTS MinProcs, MaxProcs, \* _min and _max of the pool
          MaxWorkers,   \* bounds: workers spawned,
          MaxDisps,     \* dispatchers started,
          MaxConns,     \* connections accepted,
          MaxDeaths,    \* workers that die,
          MaxStops      \* requests to stop a worker

ASSUME PoolAssumption ==
    /\ {MinProcs, MaxWorkers, MaxConns, MaxDeaths, MaxStops} \subseteq Nat
    /\ {MaxProcs, MaxDisps} \subseteq Nat \ {0}

Workers == 1..MaxWorkers
Disps == 1..MaxDisps

VARIABLES
    mail,            \* messages to the pool
    dataq, customerq, \* _dataq and _customerq
    procs,           \* status in _processes
    count,           \* _count
    ppc,             \* init, loop, or in a call for: init, get, stop
    todo,            \* workers _init still has to create; worker being stopped
    smail, spc, sw, sfor, \* the supervisor: messages, what it does, for whom
    srec,            \* workers on record
    wlife, wmail,    \* workers: none, spawned, ready, busy, dead
    disp, dpc, dw, dmail, \* the dispatcher, its call, its worker, its messages
    spawned, conns, deaths, stops, \* bounded counters
    faults           \* history: what may have cost a connection its worker

poolVars == <<dataq, customerq, procs, count, ppc, todo>>
supVars == <<spc, sw, sfor, srec, spawned>>
dispVars == <<disp, dpc, dw>>
boxes == <<mail, smail, wmail, dmail>>
bounds == <<conns, deaths, stops>>
vars == <<poolVars, supVars, dispVars, boxes, wlife, bounds, faults>>

Init ==
    /\ mail = NewBox /\ dataq = <<>> /\ customerq = <<>>
    /\ procs = [w \in Workers |-> "none"] /\ count = 0
    /\ ppc = "init" /\ todo = MinProcs
    /\ smail = <<>> /\ spc = "loop" /\ sw = 0 /\ sfor = "pool" /\ srec = {}
    /\ wlife = [w \in Workers |-> "none"] /\ wmail = [w \in Workers |-> <<>>]
    /\ disp = 1 /\ dpc = "idle" /\ dw = 0 /\ dmail = [d \in Disps |-> <<>>]
    /\ spawned = 0 /\ conns = 0 /\ deaths = 0 /\ stops = 0 /\ faults = {}

Msg(type, from, w) == [type |-> type, from |-> from, w |-> w]

ToPool(m) == mail' = Arrive(mail, m)
ToSup(m) == smail' = Append(smail, m)
ToDisp(d, m) == dmail' = [dmail EXCEPT ![d] = Append(@, m)]
Live(w) == wlife[w] \in {"spawned", "ready", "busy"}

-----------------------------------------------------------------------------
(* The pool *)

Top == First(mail)
Receives(type) == ppc = "loop" /\ Available(mail) /\ Top.type = type

(* _create_process: the call to the supervisor.                            *)
_create_process == ToSup(Msg("start", 0, 0))

(* pool:_init, one worker; with none left, the pool starts to serve.       *)
PoolInit ==
    /\ ppc = "init"
    /\ \/ /\ todo > 0
          /\ _create_process
          /\ todo' = todo - 1 /\ ppc' = "callInit"
       \/ /\ todo = 0
          /\ ppc' = "loop"
          /\ UNCHANGED <<smail, todo>>
    /\ UNCHANGED <<mail, wmail, dmail, dataq, customerq, procs, count,
                   supVars, dispVars, wlife, bounds, faults>>

(* Variant: the customer is queued after the call to the supervisor only,  *)
(* that is, never.                                                         *)
get_process_unqueued ==
    /\ Receives("get") /\ dataq = <<>>
    /\ _create_process /\ ppc' = "callGet"
    /\ mail' = TakeFirst(mail)
    /\ UNCHANGED <<wmail, dmail, dataq, customerq, procs, count, todo,
                   supVars, dispVars, wlife, bounds, faults>>

(* pool:get_process with no worker in _dataq: the customer waits, and      *)
(* another worker is created.  At the limit the pool would index the       *)
(* no_response it got, which is an error.                                  *)
get_process_none ==
    /\ Receives("get") /\ dataq = <<>>
    /\ customerq' = Append(customerq, Top.from)
    /\ IF count < MaxProcs THEN _create_process /\ ppc' = "callGet"
       ELSE UNCHANGED <<smail, ppc>>
    /\ mail' = TakeFirst(mail)
    /\ UNCHANGED <<wmail, dmail, dataq, procs, count, todo,
                   supVars, dispVars, wlife, bounds, faults>>

(* pool:get_process with a worker in _dataq.  For one that has no entry in *)
(* _processes the assignment is an error, and nobody is answered.          *)
get_process ==
    /\ Receives("get") /\ dataq # <<>>
    /\ LET w == Head(dataq) IN
       IF procs[w] = "none"
       THEN UNCHANGED <<procs, dmail>>
       ELSE /\ procs' = [procs EXCEPT ![w] = "used"]
            /\ ToDisp(Top.from, Msg("reply", 0, w))
    /\ dataq' = Tail(dataq)
    /\ mail' = TakeFirst(mail)
    /\ UNCHANGED <<smail, wmail, customerq, count, ppc, todo,
                   supVars, dispVars, wlife, bounds, faults>>

(* queue_server:put with pool:on_put: to the first customer, or to _dataq. *)
put ==
    /\ Receives("put")
    /\ procs' = [procs EXCEPT ![Top.w] = "idle"]
    /\ IF customerq = <<>>
       THEN dataq' = Append(dataq, Top.w) /\ UNCHANGED <<customerq, dmail>>
       ELSE /\ customerq' = Tail(customerq)
            /\ ToDisp(Head(customerq), Msg("reply", 0, Top.w))
            /\ UNCHANGED dataq
    /\ mail' = TakeFirst(mail)
    /\ UNCHANGED <<smail, wmail, count, ppc, todo, supVars, dispVars, wlife, bounds, faults>>

(* pool:stop_processes of one worker, up to the answer.                    *)
stop_processes ==
    /\ Receives("stop")
    /\ IF procs[Top.w] = "none" THEN UNCHANGED <<smail, ppc, todo>>
       ELSE ToSup(Msg("stop", 0, Top.w)) /\ ppc' = "callStop" /\ todo' = Top.w
    /\ mail' = TakeFirst(mail)
    /\ UNCHANGED <<wmail, dmail, dataq, customerq, procs, count,
                   supVars, dispVars, wlife, bounds, faults>>

(* client:call to the supervisor: other messages are set aside, and the    *)
(* answer ends the call whatever it says.                                  *)
InCall == ppc \in {"callInit", "callGet", "callStop"} /\ Available(mail)

PoolAside ==
    /\ InCall /\ Top.type # "answer"
    /\ mail' = SetAside(mail)
    /\ UNCHANGED <<smail, wmail, dmail, poolVars, supVars, dispVars, wlife, bounds, faults>>

PoolAnswered ==
    /\ InCall /\ Top.type = "answer"
    /\ mail' = TakeFirst(mail)
    /\ ppc' = IF ppc = "callInit" THEN "init" ELSE "loop"
    /\ IF ppc = "callStop"
       THEN /\ procs' = [procs EXCEPT ![todo] = "none"]
            /\ count' = count - 1 /\ todo' = 0
       ELSE UNCHANGED <<procs, count, todo>>
    /\ UNCHANGED <<smail, wmail, dmail, dataq, customerq, supVars, dispVars,
                   wlife, bounds, faults>>

Pool == PoolInit \/ get_process_none \/ get_process \/ put \/ stop_processes
        \/ PoolAside \/ PoolAnswered

(* Somebody asks the pool to stop a worker.                                *)
AskStop(w) ==
    /\ stops < MaxStops /\ w \in 1..spawned
    /\ stops' = stops + 1
    /\ ToPool(Msg("stop", 0, w))
    /\ UNCHANGED <<smail, wmail, dmail, poolVars, supVars, dispVars, wlife,
                   conns, deaths, faults>>

-----------------------------------------------------------------------------
(* The supervisor, as the pool sees it *)

STop == Head(smail)
SupReceives(type) == spc = "loop" /\ smail # <<>> /\ STop.type = type

(* start_process up to the spawn.                                          *)
SpawnFor(who) ==
    /\ spawned < MaxWorkers
    /\ spawned' = spawned + 1
    /\ wlife' = [wlife EXCEPT ![spawned'] = "spawned"]
    /\ spc' = "wait" /\ sw' = spawned' /\ sfor' = who

(* create_server asserts that there is a process.                          *)
SpawnFails == UNCHANGED <<wlife, spawned, spc, sw, sfor>>

(* A request of the pool; a spawn that fails is an error of the            *)
(* supervisor, and the pool gets no answer.                                *)
SupStart ==
    /\ SupReceives("start")
    /\ \/ SpawnFor("pool") /\ UNCHANGED faults
       \/ SpawnFails /\ faults' = faults \cup {"no spawn"}
    /\ smail' = Tail(smail)
    /\ UNCHANGED <<mail, wmail, dmail, poolVars, srec, dispVars, bounds>>

(* on_message: a recorded worker is replaced.                              *)
SupExit ==
    /\ SupReceives("EXIT")
    /\ IF STop.w \in srec THEN SpawnFor("none")
       ELSE UNCHANGED <<wlife, spawned, spc, sw, sfor>>
    /\ srec' = srec \ {STop.w}
    /\ smail' = Tail(smail)
    /\ UNCHANGED <<mail, wmail, dmail, poolVars, dispVars, bounds, faults>>

(* Variant: the pool is told of every start.                               *)
AnswerAlways == ToPool(Msg("answer", 0, 0))

(* start_process returns: to the main loop, which answers, or on_message.  *)
Answer == IF sfor = "pool" THEN ToPool(Msg("answer", 0, 0)) ELSE UNCHANGED mail

(* The end of start_process: a worker that died in the meantime is         *)
(* forgotten, another is recorded; the pool is answered.                   *)
SupWaited ==
    /\ spc = "wait"
    /\ LET m == Msg("EXIT", 0, sw) IN
       \/ /\ \E i \in 1..Len(smail) : smail[i] = m /\ smail' = Without(smail, i)
          /\ faults' = faults \cup {"failed start"}
          /\ UNCHANGED srec
       \/ /\ \A i \in 1..Len(smail) : smail[i] # m
          /\ srec' = srec \cup {sw}
          /\ UNCHANGED <<smail, faults>>
    /\ Answer
    /\ spc' = "loop" /\ sw' = 0 /\ sfor' = "pool"
    /\ UNCHANGED <<wmail, dmail, poolVars, spawned, dispVars, wlife, bounds>>

(* stop_process: a recorded worker is stopped or killed.  It may be in     *)
(* _dataq, or with a customer; one that runs ends with its slice.          *)
SupStop ==
    /\ SupReceives("stop")
    /\ IF STop.w \in srec
       THEN /\ \E l \in {"dead"} \cup (IF wlife[STop.w] \in {"spawned", "busy"}
                                      THEN {"killed"} ELSE {}) :
                  wlife' = [wlife EXCEPT ![STop.w] = l]
            /\ faults' = faults \cup {"stopped"}
       ELSE UNCHANGED <<wlife, faults>>
    /\ srec' = srec \ {STop.w}
    /\ smail' = Tail(smail)
    /\ ToPool(Msg("answer", 0, 0))
    /\ UNCHANGED <<wmail, dmail, poolVars, spc, sw, sfor, spawned, dispVars, bounds>>

Sup == SupStart \/ SupExit \/ SupWaited \/ SupStop

-----------------------------------------------------------------------------
(* Workers *)

(* processor:on_init, run at the entry of _main and again after an error.  *)
on_init(w) ==
    /\ wlife[w] = "spawned"
    /\ wlife' = [wlife EXCEPT ![w] = "ready"]
    /\ ToPool(Msg("put", w, w))
    /\ UNCHANGED <<smail, wmail, dmail, poolVars, supVars, dispVars, bounds, faults>>

(* processor:add_task: the connection is polled and the dispatcher         *)
(* answered; or the poll is an error, and on_init is run again.            *)
add_task(w) ==
    /\ wlife[w] = "ready" /\ wmail[w] # <<>>
    /\ wmail' = [wmail EXCEPT ![w] = Tail(@)]
    /\ \/ /\ wlife' = [wlife EXCEPT ![w] = "busy"]
          /\ ToDisp(Head(wmail[w]), Msg("reply", w, w))
          /\ UNCHANGED <<mail, faults>>
       \/ /\ wlife' = [wlife EXCEPT ![w] = "spawned"]
          /\ faults' = faults \cup {"add_task"}
          /\ UNCHANGED <<mail, dmail>>
    /\ UNCHANGED <<smail, poolVars, supVars, dispVars, bounds>>

(* processor:on_message: the requests of the connection, until its end.    *)
on_message(w) ==
    /\ wlife[w] = "busy"
    /\ wlife' = [wlife EXCEPT ![w] = "ready"]
    /\ ToPool(Msg("put", w, w))
    /\ UNCHANGED <<smail, wmail, dmail, poolVars, supVars, dispVars, bounds, faults>>

(* The last slice of a worker that was killed while it ran: it still       *)
(* offers itself to the pool.                                              *)
LastSlice(w) ==
    /\ wlife[w] = "killed"
    /\ wlife' = [wlife EXCEPT ![w] = "dead"]
    /\ ToPool(Msg("put", w, w))
    /\ UNCHANGED <<smail, wmail, dmail, poolVars, supVars, dispVars, bounds, faults>>

(* A worker dies; nothing takes it out of _dataq or _processes.  With a    *)
(* connection of its own it costs no other connection anything.            *)
Die(w) ==
    /\ Live(w) /\ deaths < MaxDeaths
    /\ deaths' = deaths + 1
    /\ wlife' = [wlife EXCEPT ![w] = "dead"]
    /\ wmail' = [wmail EXCEPT ![w] = <<>>]
    /\ faults' = IF wlife[w] = "ready" THEN faults \cup {"idle death"} ELSE faults
    /\ ToSup(Msg("EXIT", 0, w))
    /\ UNCHANGED <<mail, dmail, poolVars, supVars, dispVars, conns, stops>>

Worker(w) == on_init(w) \/ add_task(w)

-----------------------------------------------------------------------------
(* The dispatcher *)

(* dispatcher:on_message: a connection is there; the pool is called.       *)
Accept ==
    /\ dpc = "idle" /\ conns < MaxConns
    /\ conns' = conns + 1
    /\ dpc' = "get"
    /\ ToPool(Msg("get", disp, 0))
    /\ UNCHANGED <<smail, wmail, dmail, poolVars, supVars, disp, dw, wlife,
                   deaths, stops, faults>>

DTop == Head(dmail[disp])

(* The pool has answered; the worker is called.                            *)
GotWorker ==
    /\ dpc = "get" /\ dmail[disp] # <<>> /\ DTop.from = 0
    /\ dpc' = "add" /\ dw' = DTop.w
    /\ wmail' = IF Live(DTop.w) THEN [wmail EXCEPT ![DTop.w] = Append(@, disp)] ELSE wmail
    /\ dmail' = [dmail EXCEPT ![disp] = Tail(@)]
    /\ UNCHANGED <<mail, smail, poolVars, supVars, disp, wlife, bounds, faults>>

(* The worker has answered; the next connection is polled for.             *)
TaskAdded ==
    /\ dpc = "add" /\ dmail[disp] # <<>> /\ DTop.from = dw
    /\ dpc' = "idle" /\ dw' = 0
    /\ dmail' = [dmail EXCEPT ![disp] = Tail(@)]
    /\ UNCHANGED <<mail, smail, wmail, poolVars, supVars, disp, wlife, bounds, faults>>

(* The dispatcher dies and another one is started.                         *)
NewDisp ==
    /\ disp < MaxDisps
    /\ disp' = disp + 1 /\ dpc' = "idle" /\ dw' = 0
    /\ UNCHANGED <<boxes, poolVars, supVars, wlife, bounds, faults>>

Dispatcher == GotWorker \/ TaskAdded

Next ==
    \/ Pool \/ Sup \/ Dispatcher \/ Accept \/ NewDisp
    \/ \E w \in Workers : Worker(w) \/ on_message(w) \/ LastSlice(w) \/ Die(w) \/ AskStop(w)

(* The processors do not stop while a process has a message to handle.     *)
(* Which of these processes is run is left open, so that less is assumed   *)
(* than the scheduler's queue gives.  Connections need not come, nor end;  *)
(* nobody needs to die.                                                    *)
Handling == Pool \/ Sup \/ Dispatcher \/ \E w \in Workers : Worker(w)

Spec == Init /\ [][Next]_vars /\ WF_vars(Handling)

-----------------------------------------------------------------------------
(* Properties *)

(* Every variable has its type.                                            *)
TypeOK ==
    /\ dataq \in Seq(Workers) /\ customerq \in Seq(Disps)
    /\ procs \in [Workers -> {"none", "idle", "used"}] /\ count \in Int
    /\ ppc \in {"init", "loop", "callInit", "callGet", "callStop"}
    /\ spc \in {"loop", "wait"} /\ (sw # 0) = (spc = "wait")
    /\ srec \subseteq Workers
    /\ wlife \in [Workers -> {"none", "spawned", "ready", "busy", "killed", "dead"}]
    /\ wmail \in [Workers -> Seq(Disps)]
    /\ disp \in Disps /\ dpc \in {"idle", "get", "add"} /\ dw \in 0..MaxWorkers

PoolAnswers == {i \in 1..Len(Pending(mail)) : Pending(mail)[i].type = "answer"}

(* The pool has at most one answer to come, and only while it calls: the   *)
(* first message from the supervisor is the answer to this call and not to *)
(* an earlier one.                                                         *)
AnswerIsForThisCall ==
    Cardinality(PoolAnswers) <= IF ppc \in {"init", "loop"} THEN 0 ELSE 1

(* Where worker w is offered, handed over or in use: in _dataq, in a put   *)
(* to the pool, in the pool's answer to a dispatcher, in the task it has   *)
(* been sent, or at work.                                                  *)
Places(w) ==
    {<<"dataq", i>> : i \in {j \in 1..Len(dataq) : dataq[j] = w}}
    \cup {<<"put", i>> : i \in {j \in 1..Len(Pending(mail)) :
                                  Pending(mail)[j].type = "put" /\ Pending(mail)[j].w = w}}
    \cup (UNION {{<<"reply", d, i>> : i \in {j \in 1..Len(dmail[d]) :
                                               dmail[d][j].from = 0 /\ dmail[d][j].w = w}} :
                 d \in Disps})
    \cup {<<"task", i>> : i \in 1..Len(wmail[w])}
    \cup {<<"work", l>> : l \in {wlife[w]} \cap {"spawned", "busy"}}

(* A worker is never given to two connections: it is in the pool once, or  *)
(* on its way from or to it, or at work.                                   *)
HandedOnce == \A w \in Workers : \A a, b \in Places(w) : a = b

(* A live worker is never lost to the pool, except to a dispatcher that    *)
(* died before it took the worker it was sent.                             *)
NoWorkerLost == \A w \in Workers : Live(w) => Places(w) # {}

(* A worker is in one place (HandedOnce), and while it lives in some place *)
(* (NoWorkerLost); every variable has its type.                            *)
WorkersKept == TypeOK /\ HandedOnce /\ NoWorkerLost

(* Selective receive keeps order: a step of any process adds a message at  *)
(* the end of what the pool has not handled yet or takes one out.          *)
OrderKept ==
    [][LET p == Pending(mail)
           q == Pending(mail')
       IN  \/ q = p
           \/ Len(q) = Len(p) + 1 /\ p = SubSeq(q, 1, Len(p))
           \/ \E i \in 1..Len(p) : q = Without(p, i)]_mail

(* A dispatcher with a connection gets a worker and goes on to the next    *)
(* connection, even if workers die at work or the dispatcher before it     *)
(* died with a worker; for one it waits in vain only after a fault that    *)
(* nothing in the pool repairs: a worker died or was stopped while it was  *)
(* offered, add_task was an error, a start failed or was not answered.     *)
ConnectionServed ==
    dpc # "idle" ~>
        (dpc = "idle" \/ faults # {} \/ (spawned = MaxWorkers /\ smail # <<>>))

(* The pool has no more workers than its maximum.                          *)
PoolBounded == Cardinality({w \in Workers : Live(w)}) <= MaxProcs

-----------------------------------------------------------------------------
(* Parts of the inductive invariant behind AnswerIsForThisCall and         *)
(* WorkersKept.                                                            *)

Messages ==
    [type : {"get"}, from : Disps, w : {0}]
    \cup [type : {"put", "stop"}, from : 0..MaxWorkers, w : Workers]
    \cup [type : {"answer"}, from : {0}, w : {0}]
Boxes == [box : Seq(Messages), cacheBox : Seq(Messages), cache : Seq(Messages)]
SupMessages ==
    [type : {"start"}, from : {0}, w : {0}]
    \cup [type : {"stop", "EXIT"}, from : {0}, w : Workers]
DispMessages == [type : {"reply"}, from : 0..MaxWorkers, w : Workers]

(* The types of what TypeOK leaves open.                                   *)
BoxTypes ==
    /\ mail \in Boxes /\ smail \in Seq(SupMessages)
    /\ dmail \in [Disps -> Seq(DispMessages)]
    /\ spawned \in 0..MaxWorkers /\ sw \in 0..spawned
    /\ sfor \in {"pool", "none"} /\ todo \in Nat

(* Where in sequence s the elements of T are.                              *)
IndexesOf(s, T) == {i \in 1..Len(s) : s[i] \in T}
AtMostOne(S) == \A a, b \in S : a = b

(* A call of the pool is one token: its request is in the supervisor's     *)
(* mailbox, or being served, or its answer is in the pool's.               *)
Requests == IndexesOf(smail, {m \in SupMessages : m.type # "EXIT"})
Served == spc = "wait" /\ sfor = "pool"
Answered == IndexesOf(Pending(mail), {m \in Messages : m.type = "answer"})

Strange(m) == IndexesOf(smail, {x \in SupMessages : x.type # "EXIT" /\ x # m})

CallInv ==
    /\ AtMostOne(Requests) /\ AtMostOne(Answered)
    /\ Requests # {} => ~Served /\ Answered = {}
    /\ Served => Answered = {}
    /\ ppc \in {"init", "loop"} => Requests = {} /\ ~Served /\ Answered = {}
    /\ ppc \in {"callInit", "callGet"} => Strange(Msg("start", 0, 0)) = {}
    /\ ppc = "callStop" => /\ Strange(Msg("stop", 0, todo)) = {} /\ ~Served
                           /\ todo \in Workers /\ wlife[todo] # "none"
                           /\ Answered # {} => ~Live(todo)

(* What the pool and the supervisor know of worker w: it is spawned before *)
(* it is known, and on record while it lives; _dataq has it only while     *)
(* _processes does.                                                        *)
KnownOf(w) ==
    /\ (wlife[w] = "none") = (w > spawned)
    /\ wlife[w] = "none" => procs[w] = "none"
    /\ Live(w) => w \in srec \cup {sw}
    /\ wlife[w] \notin {"killed", "dead"} => IndexesOf(smail, {Msg("EXIT", 0, w)}) = {}
    /\ Live(w) /\ procs[w] = "none" => IndexesOf(dataq, {w}) = {}
=============================================================================
