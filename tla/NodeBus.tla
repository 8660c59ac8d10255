------------------------------ MODULE NodeBus -------------------------------
(***************************************************************************)
(* The inter-node bus of one GLR node (GLR/Controllers/BusController.cpp). *)
(* Processes connect to other nodes, send to them and close them, each on  *)
(* a processor thread of its own; one worker thread polls the links.       *)
(*                                                                         *)
(* _LinkMap takes a descriptor to the link made for it, _Router a peer's   *)
(* name to a descriptor.  Descriptors are numbers: the system gives out    *)
(* the lowest free one.  A connection, and the link object that holds it,  *)
(* has a number of its own here, which the program does not see.           *)
(*                                                                         *)
(* Only the second half of a send, a close and the worker's clean-up take  *)
(* _Mutex; a frame is read and written whole.                              *)
(***************************************************************************)
EXTENDS Integers, Sequences, FiniteSets, FiniteSetsExt

CONSTANTS Peers,     \* the other nodes, by their "host::port"
          Procs,     \* the processes that use the bus
          NoPeer,    \* no peer
          Fds,       \* bound: the descriptors
          MaxConns,  \* bound: the connections ever made
          MaxQueue   \* bound: the messages waiting on a link

ASSUME BusAssumption ==
    /\ NoPeer \notin Peers
    /\ Fds \subseteq Nat \ {0} /\ IsFiniteSet(Fds)
    /\ {MaxConns, MaxQueue} \subseteq Nat

VARIABLES conn,     \* every connection: far end, descriptor, state
          queue,    \* MessageLinkStack::_SendTaskQ, the peers meant
          id,       \* MessageLinkStack::_Id
          linkMap,  \* _LinkMap, 0: NULL
          router,   \* _Router, fd 0: no entry, -1: a closed socket; and the link meant
          slots,    \* CPollSelector::m_events, fd 0: a slot that is free
          worker,   \* where the worker is
          evs,      \* the events it has yet to handle, in the order of slots
          proc      \* where each process is

vars == <<conn, queue, id, linkMap, router, slots, worker, evs, proc>>

Conns == 1..MaxConns
NoConn == [far |-> NoPeer, fd |-> 0, open |-> FALSE, hup |-> FALSE, reg |-> FALSE]
NoRoute == [fd |-> 0, c |-> 0]
Idle == [at |-> "idle", peer |-> NoPeer, fd |-> 0, c |-> 0]
Polling == [at |-> "poll", fd |-> 0, c |-> 0]

Fresh == {c \in Conns : conn[c] = NoConn}
Owner(fd) == {c \in Conns : conn[c].open /\ conn[c].fd = fd}
FreeFds == {fd \in Fds : Owner(fd) = {}}
InMap(c) == conn[c].fd # 0 /\ linkMap[conn[c].fd] = c

Init ==
    /\ conn = [c \in Conns |-> NoConn]
    /\ queue = [c \in Conns |-> <<>>]
    /\ id = [c \in Conns |-> NoPeer]
    /\ linkMap = [fd \in Fds |-> 0]
    /\ router = [p \in Peers |-> NoRoute]
    /\ slots = <<>>
    /\ worker = Polling /\ evs = <<>>
    /\ proc = [x \in Procs |-> Idle]

-----------------------------------------------------------------------------
(* CPollSelector *)

SlotsOf(fd) == {i \in DOMAIN slots : slots[i].fd = fd}
Polled == {slots[i].fd : i \in DOMAIN slots} \ {0}
Out == {slots[i].fd : i \in {j \in DOMAIN slots : "OUT" \in slots[j].ev}} \ {0}

(* Variant: a slot that is free, even when the descriptor has one.         *)
RegisteredAnew(fd, ev) == Append(slots, [fd |-> fd, ev |-> {ev}])

(* Register(fd, event): its slot, or the first free one with the events    *)
(* that slot had before, or a new one.                                     *)
Registered(fd, ev) ==
    LET at == IF SlotsOf(fd) # {} THEN SlotsOf(fd) ELSE SlotsOf(0)
    IN  IF at = {} THEN Append(slots, [fd |-> fd, ev |-> {ev}])
        ELSE [slots EXCEPT ![Min(at)] = [fd |-> fd, ev |-> @.ev \cup {ev}]]

(* Remove(fd, event)                                                       *)
RemovedEvent(fd, ev) ==
    [i \in DOMAIN slots |-> IF slots[i].fd = fd THEN [slots[i] EXCEPT !.ev = @ \ {ev}]
                            ELSE slots[i]]

(* Remove(fd): the slot is free, and keeps its events.                     *)
Removed(fd) ==
    [i \in DOMAIN slots |-> IF slots[i].fd = fd THEN [slots[i] EXCEPT !.fd = 0]
                            ELSE slots[i]]

-----------------------------------------------------------------------------
(* The next connection, with the lowest free descriptor.                   *)
NewConn(p, isIn) ==
    LET c == Min(Fresh)
        fd == Min(FreeFds)
    IN  /\ Fresh # {} /\ FreeFds # {}
        /\ conn' = [conn EXCEPT ![c] = [far |-> p, fd |-> fd, open |-> TRUE,
                                        hup |-> FALSE, reg |-> isIn]]

(* CIOHandle::Close; nothing when it is closed already.                    *)
Closed(c) == [conn EXCEPT ![c] = [far |-> @.far, fd |-> @.fd, open |-> FALSE,
                                  hup |-> FALSE, reg |-> FALSE]]

(* ConcurrentMap::insert replaces an entry.                                *)
Insert(p, fd, c) == router' = [router EXCEPT ![p] = [fd |-> fd, c |-> c]]

(* CIOHandle::GetFD                                                        *)
GetFD(c) == IF conn[c].open THEN conn[c].fd ELSE -1

-----------------------------------------------------------------------------
(* DoNodeReg *)

(* A peer that has a route is not connected again; otherwise               *)
(* CTCPSocketClient, and RegisterTo sends REGISTER.                        *)
Connect(x, p) ==
    /\ proc[x].at = "idle"
    /\ router[p].fd = 0
    /\ NewConn(p, FALSE)
    /\ proc' = [proc EXCEPT ![x] = [at |-> "reply", peer |-> p,
                                    fd |-> Min(FreeFds), c |-> Min(Fresh)]]
    /\ UNCHANGED <<queue, id, linkMap, router, slots, worker, evs>>

(* RegisterTo gets no answer within 30 seconds, or an error: the link is   *)
(* destroyed and the caller told.                                          *)
RegisterFails(x) ==
    /\ proc[x].at = "reply"
    /\ conn' = Closed(proc[x].c)
    /\ proc' = [proc EXCEPT ![x] = Idle]
    /\ UNCHANGED <<queue, id, linkMap, router, slots, worker, evs>>

(* REGISTER_OK; the link enters _LinkMap, without _Mutex.                  *)
LinkIn(x) ==
    LET c == proc[x].c
    IN  /\ proc[x].at = "reply"
        /\ id' = [id EXCEPT ![c] = proc[x].peer]
        /\ linkMap' = [linkMap EXCEPT ![proc[x].fd] = c]
        /\ proc' = [proc EXCEPT ![x].at = "route"]
        /\ UNCHANGED <<conn, queue, router, slots, worker, evs>>

RouteIn(x) ==
    /\ proc[x].at = "route"
    /\ Insert(proc[x].peer, proc[x].fd, proc[x].c)
    /\ proc' = [proc EXCEPT ![x].at = "register"]
    /\ UNCHANGED <<conn, queue, id, linkMap, slots, worker, evs>>

(* The last steps: the poller, and the answer.                             *)
PollIn(x) ==
    /\ proc[x].at = "register"
    /\ slots' = Registered(proc[x].fd, "IN")
    /\ proc' = [proc EXCEPT ![x] = Idle]
    /\ UNCHANGED <<conn, queue, id, linkMap, router, worker, evs>>

-----------------------------------------------------------------------------
(* DoNodeSend *)

Free == \A x \in Procs : proc[x].at # "out"   \* _Mutex

(* The descriptor is looked up before _Mutex is taken.                     *)
Find(x, p) ==
    /\ proc[x].at = "idle"
    /\ router[p].fd # 0
    /\ proc' = [proc EXCEPT ![x] = [at |-> "put", peer |-> p,
                                    fd |-> router[p].fd, c |-> router[p].c]]
    /\ UNCHANGED <<conn, queue, id, linkMap, router, slots, worker, evs>>

(* PutSendTask on whatever link has the descriptor now; no link: an error. *)
(* The node does not survive _LinkMap[-1].                                 *)
PutSendTask(x) ==
    LET c == linkMap[proc[x].fd]
    IN  /\ proc[x].at = "put" /\ Free
        /\ proc[x].fd # -1
        /\ IF c = 0
           THEN /\ proc' = [proc EXCEPT ![x] = Idle]
                /\ UNCHANGED queue
           ELSE /\ Len(queue[c]) < MaxQueue
                /\ queue' = [queue EXCEPT ![c] = Append(@, proc[x].peer)]
                /\ proc' = [proc EXCEPT ![x].at = "out"]
        /\ UNCHANGED <<conn, id, linkMap, router, slots, worker, evs>>

(* Variant: EV_OUT is not registered.                                      *)
RegisterOutNot(x) ==
    /\ proc[x].at = "out"
    /\ proc' = [proc EXCEPT ![x] = Idle]
    /\ UNCHANGED <<conn, queue, id, linkMap, router, slots, worker, evs>>

(* Register(fd, EV_OUT), the answer, _Mutex released.                      *)
RegisterOut(x) ==
    /\ proc[x].at = "out"
    /\ slots' = Registered(proc[x].fd, "OUT")
    /\ proc' = [proc EXCEPT ![x] = Idle]
    /\ UNCHANGED <<conn, queue, id, linkMap, router, worker, evs>>

-----------------------------------------------------------------------------
(* Variant: the route goes and the socket stays open.                      *)
NodeCloseErases(x, p) ==
    /\ proc[x].at = "idle" /\ Free
    /\ router[p].fd # 0
    /\ router' = [router EXCEPT ![p] = NoRoute]
    /\ proc' = [proc EXCEPT ![x].at = "unanswered"]
    /\ UNCHANGED <<conn, queue, id, linkMap, slots, worker, evs>>

(* DoNodeClose: the socket is closed and the rest left to the worker.  The *)
(* process gets no answer; only an unknown peer (find_ex throws) has one.  *)
NodeClose(x, p) ==
    LET fd == router[p].fd
    IN  /\ proc[x].at = "idle" /\ Free
        /\ fd \notin {0, -1}
        /\ IF linkMap[fd] # 0
           THEN conn' = Closed(linkMap[fd]) /\ UNCHANGED router
           ELSE router' = [router EXCEPT ![p] = NoRoute] /\ UNCHANGED conn
        /\ proc' = [proc EXCEPT ![x].at = "unanswered"]
        /\ UNCHANGED <<queue, id, linkMap, slots, worker, evs>>

-----------------------------------------------------------------------------
(* BusWorker::Run *)

(* What poll reports for a slot: a closed descriptor is not valid; EV_IN   *)
(* is looked at before EV_OUT.  The answer RegisterTo waits for can be     *)
(* read as well, when the number is still polled for an earlier link.      *)
EventOf(k) ==
    LET c == CHOOSE d \in Owner(k.fd) : TRUE
        replied == \E x \in Procs : proc[x].at = "reply" /\ proc[x].fd = k.fd
    IN  CASE k.fd = 0 -> "none"
          [] k.fd # 0 /\ Owner(k.fd) = {} -> "NVAL"
          [] OTHER -> IF "IN" \in k.ev /\ (conn[c].hup \/ conn[c].reg \/ replied) THEN "IN"
                      ELSE IF "OUT" \in k.ev THEN "OUT" ELSE "none"

Ready == {i \in DOMAIN slots : EventOf(slots[i]) # "none"}

WaitEvent ==
    /\ worker = Polling /\ Ready # {}
    /\ \E at \in [1..Cardinality(Ready) -> Ready] :
        /\ \A i, j \in DOMAIN at : i < j => at[i] < at[j]
        /\ evs' = [i \in DOMAIN at |-> [fd |-> slots[at[i]].fd, ev |-> EventOf(slots[at[i]])]]
    /\ worker' = [Polling EXCEPT !.at = "events"]
    /\ UNCHANGED <<conn, queue, id, linkMap, router, slots, proc>>

EventsDone ==
    /\ worker.at = "handle" /\ evs = <<>>
    /\ worker' = Polling
    /\ UNCHANGED <<conn, queue, id, linkMap, router, slots, evs, proc>>

(* MessageServerStack::OnRecv.  The listening socket has the first slot:   *)
(* its event comes before the others, or alone.  REGISTER will follow.     *)
Accept(p) ==
    /\ worker.at \in {"poll", "events"}
    /\ NewConn(p, TRUE)
    /\ linkMap' = [linkMap EXCEPT ![Min(FreeFds)] = Min(Fresh)]
    /\ slots' = Registered(Min(FreeFds), "IN")
    /\ worker' = IF worker.at = "poll" THEN worker ELSE [worker EXCEPT !.at = "handle"]
    /\ UNCHANGED <<queue, id, router, evs, proc>>

At(w, fd, c) == worker' = [at |-> w, fd |-> fd, c |-> c]
Back == worker' = [Polling EXCEPT !.at = "handle"]

(* OnMessage closes a second link of a peer, after it sent REGISTER_OK.    *)
Refused(c) == router[conn[c].far].fd # 0

(* OnRecv.  Recv throws when the link was closed or the far end closed; it *)
(* blocks when there is nothing to read (an event of an earlier owner).    *)
OnRecv(fd, c) ==
    \/ /\ ~conn[c].open \/ (conn[c].hup /\ ~conn[c].reg)
       /\ At("caught", fd, c)
       /\ UNCHANGED conn
    \/ /\ conn[c].open /\ conn[c].reg
       /\ \/ /\ Refused(c) \/ conn[c].hup
             /\ conn' = Closed(c)
             /\ Back
          \/ /\ ~Refused(c)
             /\ conn' = [conn EXCEPT ![c].reg = FALSE]
             /\ At("insert", fd, c)

(* Variant: the test for an empty queue is the wrong way round.            *)
OnSendInverted(fd, c) == queue[c] # <<>> /\ Back /\ UNCHANGED queue

(* OnSend: the first message of the queue, and the test for another.  To a *)
(* peer that closed, Send may fail.                                        *)
OnSend(fd, c) ==
    \/ queue[c] = <<>> /\ Back /\ UNCHANGED queue
    \/ /\ queue[c] # <<>> /\ (~conn[c].open \/ conn[c].hup)
       /\ At("caught", fd, c)
       /\ UNCHANGED queue
    \/ /\ queue[c] # <<>> /\ conn[c].open
       /\ queue' = [queue EXCEPT ![c] = Tail(@)]
       /\ IF Len(queue[c]) = 1 THEN At("remove", fd, c) ELSE Back

(* The next event, for the link that has the descriptor now.               *)
Handle ==
    /\ worker.at \in {"events", "handle"} /\ evs # <<>>
    /\ evs' = Tail(evs)
    /\ LET e == Head(evs)
           c == linkMap[e.fd]
       IN  \/ c = 0 /\ Back /\ UNCHANGED <<conn, queue>>
           \/ c # 0 /\ e.ev = "IN" /\ OnRecv(e.fd, c) /\ UNCHANGED queue
           \/ c # 0 /\ e.ev = "OUT" /\ OnSend(e.fd, c) /\ UNCHANGED conn
           \/ c # 0 /\ e.ev = "NVAL" /\ At("caught", e.fd, c) /\ UNCHANGED <<conn, queue>>
    /\ UNCHANGED <<id, linkMap, router, slots, proc>>

(* The route of a link that was accepted, and its _Id.  The descriptor is  *)
(* asked for here: DoNodeClose may have closed the socket since.           *)
RouteBack ==
    /\ worker.at = "insert"
    /\ Insert(conn[worker.c].far, GetFD(worker.c), worker.c)
    /\ id' = [id EXCEPT ![worker.c] = conn[worker.c].far]
    /\ Back
    /\ UNCHANGED <<conn, queue, linkMap, slots, evs, proc>>

(* Remove(fd, EV_OUT), after the test of the queue.                        *)
RemoveOut ==
    /\ worker.at = "remove"
    /\ slots' = RemovedEvent(worker.fd, "OUT")
    /\ Back
    /\ UNCHANGED <<conn, queue, id, linkMap, router, evs, proc>>

(* Variant: the route stays.                                               *)
ErasedNot(c) == router

(* Router.erase(_Id), whichever link the entry means.                      *)
Erased(c) == [p \in Peers |-> IF p = id[c] THEN NoRoute ELSE router[p]]

(* The catch block, under _Mutex: map, route and poller forget the         *)
(* descriptor and the link is deleted, its socket with it.                 *)
CleanUp ==
    /\ worker.at = "caught" /\ Free
    /\ linkMap' = [linkMap EXCEPT ![worker.fd] = 0]
    /\ router' = Erased(worker.c)
    /\ slots' = Removed(worker.fd)
    /\ conn' = Closed(worker.c)
    /\ queue' = [queue EXCEPT ![worker.c] = <<>>]
    /\ id' = [id EXCEPT ![worker.c] = NoPeer]
    /\ Back
    /\ UNCHANGED <<evs, proc>>

(* The far end closes, or its node dies.                                   *)
PeerClose(c) ==
    /\ conn[c].open /\ ~conn[c].hup
    /\ conn' = [conn EXCEPT ![c].hup = TRUE]
    /\ UNCHANGED <<queue, id, linkMap, router, slots, worker, evs, proc>>

-----------------------------------------------------------------------------
Step(x) == RegisterFails(x) \/ LinkIn(x) \/ RouteIn(x) \/ PollIn(x)
           \/ PutSendTask(x) \/ RegisterOut(x)

Worker == WaitEvent \/ EventsDone \/ Handle \/ RouteBack \/ RemoveOut \/ CleanUp

Next ==
    \/ \E x \in Procs : Step(x)
    \/ \E x \in Procs, p \in Peers : Connect(x, p) \/ Find(x, p) \/ NodeClose(x, p)
    \/ Worker
    \/ \E p \in Peers : Accept(p)
    \/ \E c \in Conns : PeerClose(c)

(* The processors and the worker run; RegisterTo has a timeout.            *)
Fairness == WF_vars(Worker) /\ \A x \in Procs : WF_vars(Step(x))

Spec == Init /\ [][Next]_vars /\ Fairness

-----------------------------------------------------------------------------
(* Properties *)

Slots == [fd : Fds \cup {0}, ev : SUBSET {"IN", "OUT"}]

(* Every variable has its type; an open descriptor belongs to one          *)
(* connection, and the selector has at most one slot for it (Register).    *)
TypeOK ==
    /\ \A c \in Conns : /\ conn[c].far \in Peers \cup {NoPeer}
                        /\ conn[c].fd \in Fds \cup {0}
                        /\ id[c] \in Peers \cup {NoPeer}
                        /\ queue[c] \in Seq(Peers)
    /\ \A fd \in Fds : Cardinality(Owner(fd)) <= 1
    /\ linkMap \in [Fds -> 0..MaxConns]
    /\ router \in [Peers -> [fd : Fds \cup {0, -1}, c : 0..MaxConns]]
    /\ slots \in Seq(Slots)
    /\ \A fd \in Fds : Cardinality(SlotsOf(fd)) <= 1
    /\ worker.at \in {"poll", "events", "handle", "insert", "remove", "caught"}
    /\ evs \in Seq([fd : Fds, ev : {"IN", "OUT", "NVAL"}])
    /\ \A x \in Procs :
          proc[x].at \in {"idle", "reply", "route", "register", "put", "out", "unanswered"}

Astray(p) == \/ router[p].fd = -1
             \/ router[p].fd \in Fds /\ linkMap[router[p].fd] # router[p].c

(* The four ways in which a route stops leading to its link.               *)
OnlyLateStepsLeadAstray ==
    \A p \in Peers : Astray(p)' /\ ~Astray(p) =>
       \/ /\ router[p].fd \in Fds /\ router'[p] = router[p]
          /\ LET c == linkMap[router[p].fd]
             IN  c # 0 /\ ~conn[c].open /\ linkMap'[router[p].fd] \notin {0, c}
       \/ worker.at = "caught" /\ worker.fd = router[p].fd /\ worker.c # router[p].c
       \/ \E x \in Procs : proc[x].at = "route" /\ proc[x].peer = p /\ ~InMap(proc[x].c)
       \/ worker.at = "insert" /\ conn[worker.c].far = p /\ ~conn[worker.c].open

(* A route stops leading to the link it was entered for, so that           *)
(* DoNodeSend fails or queues for another peer, in four ways only: a new   *)
(* link takes the descriptor of the closed one before the worker cleaned   *)
(* up (DoNodeClose closes the socket and leaves the route); the clean-up   *)
(* for the old link then clears the entry of the new one; DoNodeReg enters *)
(* the route after the worker has deleted the link; or OnMessage enters    *)
(* the -1 of a socket that DoNodeClose, led astray, has closed.            *)
RouteLeads == [][OnlyLateStepsLeadAstray]_vars

Routed(c) == InMap(c) /\ conn[c].open /\ id[c] # NoPeer /\ router[id[c]].c = c

OnlyNamesakesTakeRoute ==
    \A c \in Conns : Routed(c) /\ ~Routed(c)' /\ InMap(c)' /\ conn'[c].open =>
       \/ router'[id[c]].c \notin {0, c}
       \/ worker.at = "caught" /\ worker.c # c /\ id[worker.c] = id[c]

(* An open link loses its route only to another link of the same peer:     *)
(* one that registers after it (DoNodeReg tests for the peer before it     *)
(* connects), or one that ends (the clean-up erases by name).              *)
RouteKept == [][OnlyNamesakesTakeRoute]_vars

(* The worker is left with a descriptor that has no link, for which poll   *)
(* returns again and again, in one way only: DoNodeReg registers it after  *)
(* the worker cleaned up a link that a sender had already registered.      *)
OnlyLateRegisterSpins ==
    \A fd \in Fds : (fd \in Polled /\ linkMap[fd] = 0)'
                    /\ ~(fd \in Polled /\ linkMap[fd] = 0)
        => \E x \in Procs : proc[x].at = "register" /\ proc[x].fd = fd
                            /\ proc'[x].at = "idle"

Stranded(c) == /\ queue[c] # <<>> /\ InMap(c)
               /\ conn[c].fd \notin Out
               /\ \A x \in Procs : ~(proc[x].at = "out" /\ proc[x].fd = conn[c].fd)

(* A message waits without EV_OUT in one way only: OnSend found the queue  *)
(* empty and removed EV_OUT after DoNodeSend had queued and registered.    *)
OnlyRemoveStrands ==
    \A c \in Conns : Stranded(c)' /\ ~Stranded(c) =>
        worker.at = "remove" /\ worker.fd = conn[c].fd

(* What poll waits for and what there is to do part only in the two races  *)
(* above: a late Register and a late removal of EV_OUT.                    *)
PollerAgrees == [][OnlyLateRegisterSpins /\ OnlyRemoveStrands]_vars

Blocked == /\ evs # <<>> /\ worker.at \in {"events", "handle"}
           /\ LET e == Head(evs)
                  c == linkMap[e.fd]
              IN  e.ev = "IN" /\ c # 0 /\ conn[c].open /\ ~conn[c].hup /\ ~conn[c].reg

(* A link that was closed, here or by its peer, leaves the map, unless the *)
(* worker blocks in Recv on a link that took the descriptor of another     *)
(* between poll and the handling of its event.                             *)
CleanedUp ==
    \A c \in Conns :
        (InMap(c) /\ (conn[c].hup \/ ~conn[c].open)) ~> (~InMap(c) \/ Blocked)

(* A queued message is sent or its link leaves the map, unless the message *)
(* is stranded or the worker blocks.                                       *)
Delivered ==
    \A c \in Conns :
        queue[c] # <<>> ~> (queue[c] = <<>> \/ ~InMap(c) \/ Stranded(c) \/ Blocked)

(* The worker gets to every closed link and to every queued message, with  *)
(* the exceptions of CleanedUp and Delivered.                              *)
LinksServed == CleanedUp /\ Delivered

-----------------------------------------------------------------------------
(* The inductive invariant                                                 *)

Sockets == [far : Peers \cup {NoPeer}, fd : Fds \cup {0},
            open : BOOLEAN, hup : BOOLEAN, reg : BOOLEAN]

Callers == [at : {"idle", "reply", "route", "register", "put", "out", "unanswered"},
            peer : Peers \cup {NoPeer}, fd : Fds \cup {0, -1}, c : Conns \cup {0}]

BusTypes ==
    /\ conn \in [Conns -> Sockets]
    /\ queue \in [Conns -> Seq(Peers)]
    /\ id \in [Conns -> Peers \cup {NoPeer}]
    /\ linkMap \in [Fds -> Conns \cup {0}]
    /\ router \in [Peers -> [fd : Fds \cup {0, -1}, c : Conns \cup {0}]]
    /\ slots \in Seq(Slots)
    /\ worker \in [at : {"poll", "events", "handle", "insert", "remove", "caught"},
                   fd : Fds \cup {0}, c : Conns \cup {0}]
    /\ evs \in Seq([fd : Fds, ev : {"IN", "OUT", "NVAL"}])
    /\ proc \in [Procs -> Callers]

OneSlot == \A i, j \in DOMAIN slots : slots[i].fd # 0 /\ slots[i].fd = slots[j].fd => i = j

(* A connection not yet made is blank; an open descriptor is of one        *)
(* connection, and has one slot; _Id names the far end.                    *)
ConnInv ==
    /\ \A c \in Conns : IF conn[c].fd = 0
                        THEN conn[c] = NoConn /\ id[c] = NoPeer /\ queue[c] = <<>>
                        ELSE conn[c].far \in Peers
    /\ \A c \in Conns : id[c] \in {NoPeer, conn[c].far}
    /\ \A c, d \in Conns : conn[c].open /\ conn[d].open /\ conn[c].fd = conn[d].fd => c = d
    /\ OneSlot

(* The map and the worker have a link under its own descriptor, and a link *)
(* whose route the worker enters is in the map while it is open.           *)
MapInv ==
    /\ \A fd \in Fds : linkMap[fd] # 0 => conn[linkMap[fd]].fd = fd
    /\ worker.c # 0 => worker.fd \in Fds /\ conn[worker.c].fd = worker.fd
    /\ worker.at \in {"insert", "remove", "caught"} <=> worker.c # 0
    /\ worker.at = "insert" /\ conn[worker.c].open => linkMap[worker.fd] = worker.c

(* The link was deleted, or its entry in the map replaced.                 *)
Gone(c) == ~InMap(c) /\ worker.c # c

Named(c, p) == id[c] = p \/ (id[c] = NoPeer /\ Gone(c))

(* A route is of a link that has its peer's name, or is gone.              *)
RouteOf(p) ==
    /\ router[p].fd = 0 => router[p].c = 0
    /\ router[p].fd # 0 => /\ router[p].c # 0
                           /\ conn[router[p].c].fd # 0
                           /\ router[p].fd \in {conn[router[p].c].fd, -1}
                           /\ Named(router[p].c, p)

RouteInv == \A p \in Peers : RouteOf(p)

(* Only the process that connects knows the link.                          *)
Unknown(c) == /\ conn[c].open /\ id[c] = NoPeer /\ queue[c] = <<>> /\ Gone(c)
              /\ \A p \in Peers : router[p].c # c

(* Where a process is in DoNodeReg or DoNodeSend.                          *)
ProcOf(x) ==
    /\ proc[x].at \in {"reply", "route", "register"} =>
          /\ proc[x].c # 0 /\ proc[x].fd \in Fds /\ proc[x].peer \in Peers
          /\ conn[proc[x].c].fd = proc[x].fd /\ conn[proc[x].c].far = proc[x].peer
    /\ proc[x].at = "reply" => Unknown(proc[x].c)
    /\ proc[x].at = "route" => Named(proc[x].c, proc[x].peer)
    /\ proc[x].at \in {"put", "out"} => proc[x].fd \in Fds \cup {-1} /\ proc[x].peer \in Peers
    /\ proc[x].at = "out" => proc[x].fd \in Fds /\ linkMap[proc[x].fd] # 0

(* No two processes connect with one link.                                 *)
OwnLinks ==
    \A x, y \in Procs : proc[x].at = "reply" /\ proc[y].at \in {"reply", "route"}
                        /\ proc[x].c = proc[y].c => x = y

ProcInv == OwnLinks /\ \A x \in Procs : ProcOf(x)

BusInv == BusTypes /\ ConnInv /\ MapInv /\ RouteInv /\ ProcInv
=============================================================================
