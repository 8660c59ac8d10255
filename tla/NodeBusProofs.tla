---------------------------- MODULE NodeBusProofs ---------------------------
(***************************************************************************)
(* Proofs about NodeBus, for any peers, processes and descriptors, and any *)
(* number of connections and of messages that wait.                        *)
(***************************************************************************)
EXTENDS NodeBus, NaturalsInduction, WellFoundedInduction, FiniteSetTheorems, TLAPS

-----------------------------------------------------------------------------
(* The lowest number *)

LEMMA MinIn ==
    ASSUME NEW S, S \subseteq Nat, S # {}
    PROVE  Min(S) \in S
<1> DEFINE R == {ss \in Nat \X Nat : ss[1] < ss[2]}
<1>1. IsWellFoundedOn(R, Nat)
  BY NatLessThanWellFounded DEF OpToRel
<1>2. \A i, j \in Nat : <<j, i>> \notin R => i <= j
  OBVIOUS
<1> HIDE DEF R
<1>3. PICK i \in S : \A j \in S : ~(<<j, i>> \in R)
  BY <1>1, WFMin, Zenon
<1>4. \E x \in S : \A y \in S : x <= y
  BY <1>2, <1>3, Zenon
<1> QED
  BY <1>4, Zenon DEF Min

-----------------------------------------------------------------------------
(* The selector's slots *)

(* Register gives the descriptor one slot, and takes no event from any.    *)
LEMMA RegisterStep ==
    ASSUME slots \in Seq(Slots), OneSlot, NEW fd \in Fds, NEW ev \in {"IN", "OUT"},
           slots' = Registered(fd, ev)
    PROVE  /\ slots' \in Seq(Slots) /\ OneSlot'
           /\ Polled' = Polled \cup {fd}
           /\ Out \subseteq Out' /\ (ev = "OUT" => fd \in Out')
<1> DEFINE at == IF SlotsOf(fd) # {} THEN SlotsOf(fd) ELSE SlotsOf(0)
<1>0. fd # 0 /\ fd \in Nat
  BY BusAssumption
<1>1. CASE at = {}
  <2>1. slots' = Append(slots, [fd |-> fd, ev |-> {ev}])
    BY <1>1 DEF Registered
  <2>2. [fd |-> fd, ev |-> {ev}] \in Slots
    BY DEF Slots
  <2>3. /\ slots' \in Seq(Slots) /\ Len(slots') = Len(slots) + 1
        /\ \A i \in 1..Len(slots) : slots'[i] = slots[i]
        /\ slots'[Len(slots) + 1] = [fd |-> fd, ev |-> {ev}]
    BY <2>1, <2>2
  <2>4. DOMAIN slots = 1..Len(slots) /\ DOMAIN slots' = 1..Len(slots) \cup {Len(slots) + 1}
        /\ Len(slots) + 1 \notin 1..Len(slots)
    BY <2>3
  <2>5. \A i \in DOMAIN slots : slots[i].fd # fd
    BY <1>1 DEF SlotsOf
  <2> HIDE DEF at
  <2>6. OneSlot'
    BY <2>3, <2>4, <2>5 DEF OneSlot
  <2>7. Polled' = Polled \cup {fd}
    BY <1>0, <2>3, <2>4 DEF Polled
  <2>8. Out \subseteq Out' /\ (ev = "OUT" => fd \in Out')
    BY <1>0, <2>3, <2>4 DEF Out
  <2> QED
    BY <2>3, <2>6, <2>7, <2>8
<1>2. CASE at # {}
  <2>1. at \subseteq Nat
    BY DEF SlotsOf
  <2>2. PICK k \in at : k = Min(at)
    BY <1>2, <2>1, MinIn
  <2>3. /\ k \in DOMAIN slots /\ slots[k].fd \in {0, fd}
        /\ \A i \in DOMAIN slots : slots[i].fd = fd => i = k
    <3>1. CASE SlotsOf(fd) # {}
      BY <1>0, <2>2, <3>1, Zenon DEF SlotsOf, OneSlot
    <3>2. CASE SlotsOf(fd) = {}
      BY <2>2, <3>2 DEF SlotsOf
    <3> QED
      BY <3>1, <3>2
  <2>4. slots' = [slots EXCEPT ![k] = [fd |-> fd, ev |-> slots[k].ev \cup {ev}]]
    BY <1>2, <2>2 DEF Registered
  <2> HIDE DEF at
  <2>5. slots[k] \in Slots /\ [fd |-> fd, ev |-> slots[k].ev \cup {ev}] \in Slots
    <3>1. slots[k] \in Slots
      BY <2>3
    <3> QED
      BY <3>1 DEF Slots
  <2>6. /\ slots' \in Seq(Slots) /\ DOMAIN slots' = DOMAIN slots
        /\ slots'[k] = [fd |-> fd, ev |-> slots[k].ev \cup {ev}]
        /\ \A i \in DOMAIN slots : i # k => slots'[i] = slots[i]
    BY <2>3, <2>4, <2>5
  <2>7. OneSlot'
    BY <2>3, <2>6 DEF OneSlot
  <2>8. Polled' = Polled \cup {fd}
    BY <1>0, <2>3, <2>6 DEF Polled
  <2>9. Out \subseteq Out' /\ (ev = "OUT" => fd \in Out')
    BY <1>0, <2>3, <2>6 DEF Out
  <2> QED
    BY <2>6, <2>7, <2>8, <2>9
<1> QED
  BY <1>1, <1>2

(* Remove(fd) frees the slot; the other descriptors keep theirs.           *)
LEMMA RemoveStep ==
    ASSUME slots \in Seq(Slots), OneSlot, NEW fd \in Fds, slots' = Removed(fd)
    PROVE  /\ slots' \in Seq(Slots) /\ OneSlot'
           /\ Polled' = Polled \ {fd} /\ Out \ {fd} \subseteq Out'
<1>1. \A i \in DOMAIN slots : slots[i] \in Slots
  OBVIOUS
<1>2. /\ DOMAIN slots' = DOMAIN slots
      /\ \A i \in DOMAIN slots : slots'[i] = IF slots[i].fd = fd THEN [slots[i] EXCEPT !.fd = 0]
                                             ELSE slots[i]
  BY DEF Removed
<1>3. \A i \in DOMAIN slots : /\ slots'[i] \in Slots
                              /\ slots'[i].fd = IF slots[i].fd = fd THEN 0 ELSE slots[i].fd
                              /\ slots'[i].ev = slots[i].ev
  BY <1>1, <1>2 DEF Slots
<1>4. slots' \in Seq(Slots)
  BY <1>3 DEF Removed
<1>5. fd # 0
  BY BusAssumption
<1>6. OneSlot'
  BY <1>2, <1>3 DEF OneSlot
<1>7. Polled' = Polled \ {fd}
  BY <1>2, <1>3, <1>5 DEF Polled
<1>8. Out \ {fd} \subseteq Out'
  BY <1>2, <1>3, <1>5 DEF Out
<1> QED
  BY <1>4, <1>6, <1>7, <1>8

(* Remove(fd, EV_OUT) takes this event from this descriptor only.          *)
LEMMA RemoveOutStep ==
    ASSUME slots \in Seq(Slots), OneSlot, NEW fd \in Fds, slots' = RemovedEvent(fd, "OUT")
    PROVE  /\ slots' \in Seq(Slots) /\ OneSlot'
           /\ Polled' = Polled /\ Out \ {fd} \subseteq Out'
<1>1. \A i \in DOMAIN slots : slots[i] \in Slots
  OBVIOUS
<1>2. /\ DOMAIN slots' = DOMAIN slots
      /\ \A i \in DOMAIN slots : slots'[i] = IF slots[i].fd = fd
                                             THEN [slots[i] EXCEPT !.ev = @ \ {"OUT"}]
                                             ELSE slots[i]
  BY DEF RemovedEvent
<1>3. \A i \in DOMAIN slots : /\ slots'[i] \in Slots /\ slots'[i].fd = slots[i].fd
                              /\ slots[i].fd # fd => slots'[i] = slots[i]
  <2>1. TAKE i \in DOMAIN slots
  <2>2. slots[i].fd \in Fds \cup {0} /\ slots[i].ev \in SUBSET {"IN", "OUT"}
    BY <1>1 DEF Slots
  <2>3. CASE slots[i].fd = fd
    <3>1. slots'[i] = [fd |-> slots[i].fd, ev |-> slots[i].ev \ {"OUT"}]
      BY <1>1, <1>2, <2>1, <2>3 DEF Slots
    <3>2. slots[i].ev \ {"OUT"} \in SUBSET {"IN", "OUT"}
      BY <2>2
    <3> QED
      BY <2>2, <2>3, <3>1, <3>2 DEF Slots
  <2>4. CASE slots[i].fd # fd
    BY <1>1, <1>2, <2>4, Zenon
  <2> QED
    BY <2>3, <2>4
<1>4. slots' \in Seq(Slots)
  <2>1. slots' = [i \in 1..Len(slots) |-> slots'[i]]
    BY DEF RemovedEvent
  <2>2. \A i \in 1..Len(slots) : slots'[i] \in Slots
    BY <1>3
  <2> HIDE DEF RemovedEvent
  <2>3. \A f : f = [i \in 1..Len(slots) |-> f[i]] /\ (\A i \in 1..Len(slots) : f[i] \in Slots)
              => f \in Seq(Slots)
    OBVIOUS
  <2> QED
    BY <2>1, <2>2, <2>3, Zenon
<1>6. OneSlot'
  BY <1>2, <1>3 DEF OneSlot
<1>7. Polled' = Polled
  BY <1>2, <1>3 DEF Polled
<1>8. Out \ {fd} \subseteq Out'
  BY <1>2, <1>3 DEF Out
<1> QED
  BY <1>4, <1>6, <1>7, <1>8

-----------------------------------------------------------------------------
(* Connections *)

(* Only these are open, of those that were.                                *)
SameEnds == \A d \in Conns : /\ conn'[d].far = conn[d].far /\ conn'[d].fd = conn[d].fd
                             /\ conn'[d].open => conn[d].open

(* Close closes one connection; it stays what it was otherwise.            *)
LEMMA CloseStep ==
    ASSUME conn \in [Conns -> Sockets], NEW c \in Conns, conn' = Closed(c)
    PROVE  /\ conn' \in [Conns -> Sockets] /\ SameEnds
           /\ \A d \in Conns : d # c => conn'[d] = conn[d]
           /\ conn[c] = NoConn => conn'[c] = NoConn
<1>1. conn[c] \in Sockets /\ {TRUE, FALSE} \subseteq BOOLEAN
  OBVIOUS
<1>2. conn' = [conn EXCEPT ![c] = [far |-> conn[c].far, fd |-> conn[c].fd, open |-> FALSE,
                                   hup |-> FALSE, reg |-> FALSE]]
  BY DEF Closed
<1>4. /\ conn'[c] = [far |-> conn[c].far, fd |-> conn[c].fd, open |-> FALSE, hup |-> FALSE,
                     reg |-> FALSE]
      /\ \A d \in Conns : d # c => conn'[d] = conn[d]
  BY <1>2
<1>5. conn'[c] \in Sockets
  BY <1>1, <1>4 DEF Sockets
<1>6. conn' \in [Conns -> Sockets]
  BY <1>2, <1>4, <1>5
<1>7. SameEnds
  BY <1>4 DEF SameEnds
<1>8. conn[c] = NoConn => conn'[c] = NoConn
  BY <1>4 DEF NoConn
<1> QED
  BY <1>4, <1>6, <1>7, <1>8

(* A new connection: the next number, and a descriptor nobody has open.    *)
LEMMA NewStep ==
    ASSUME conn \in [Conns -> Sockets], ConnInv,
           NEW p \in Peers, NEW isIn \in BOOLEAN, NewConn(p, isIn)
    PROVE  \E c \in Conns, fd \in Fds :
              /\ c = Min(Fresh) /\ fd = Min(FreeFds)
              /\ conn[c] = NoConn /\ \A d \in Conns : conn[d].open => conn[d].fd # fd
              /\ conn' \in [Conns -> Sockets]
              /\ conn'[c].far = p /\ conn'[c].fd = fd /\ conn'[c].open
              /\ \A d \in Conns : d # c => conn'[d] = conn[d]
<1>1. Fresh \subseteq Nat /\ FreeFds \subseteq Nat /\ Fresh # {} /\ FreeFds # {}
  <2>1. Fresh # {} /\ FreeFds # {}
    BY Zenon DEF NewConn
  <2>2. Fresh \subseteq Nat
    BY DEF Fresh, Conns
  <2>3. FreeFds \subseteq Nat
    BY BusAssumption, Zenon DEF FreeFds
  <2> QED
    BY <2>1, <2>2, <2>3
<1>2. PICK c \in Fresh : c = Min(Fresh)
  BY <1>1, MinIn, Zenon
<1>3. PICK fd \in FreeFds : fd = Min(FreeFds)
  BY <1>1, MinIn, Zenon
<1>4. c \in Conns /\ fd \in Fds /\ conn[c] = NoConn
  BY DEF Fresh, FreeFds
<1>5. \A d \in Conns : conn[d].open => conn[d].fd # fd
  BY DEF FreeFds, Owner
<1>6. conn' = [conn EXCEPT ![c] = [far |-> p, fd |-> fd, open |-> TRUE, hup |-> FALSE, reg |-> isIn]]
  BY <1>2, <1>3 DEF NewConn
<1>7. [far |-> p, fd |-> fd, open |-> TRUE, hup |-> FALSE, reg |-> isIn] \in Sockets
  BY <1>4 DEF Sockets
<1>8. conn'[c] = [far |-> p, fd |-> fd, open |-> TRUE, hup |-> FALSE, reg |-> isIn]
  BY <1>4, <1>6
<1>9. conn'[c].far = p /\ conn'[c].fd = fd /\ conn'[c].open
  BY <1>8
<1> QED
  BY <1>2, <1>3, <1>4, <1>5, <1>6, <1>7, <1>8, <1>9, Zenon

(* What is closed, or loses a bit, changes nothing else.                   *)
LEMMA EndsStep ==
    ASSUME BusInv, SameEnds, conn' \in [Conns -> Sockets],
           \A d \in Conns : conn[d] = NoConn => conn'[d] = NoConn,
           UNCHANGED <<id, linkMap, router, slots, worker>>,
           \A d \in Conns : conn[d].fd = 0 => queue'[d] = queue[d]
    PROVE  /\ ConnInv' /\ MapInv' /\ RouteInv'
           /\ \A d \in Conns : Gone(d)' = Gone(d)
<1>1. ConnInv'
  BY Zenon DEF BusInv, ConnInv, SameEnds, OneSlot, BusTypes
<1>2. MapInv'
  BY Zenon DEF BusInv, MapInv, SameEnds, BusTypes
<1>3. \A d \in Conns : Gone(d)' = Gone(d)
  BY DEF SameEnds, Gone, InMap
<1>4. RouteInv'
  <2>1. SUFFICES ASSUME NEW p \in Peers PROVE RouteOf(p)'
    BY DEF RouteInv
  <2>2. RouteOf(p) /\ router[p].c \in Conns \cup {0}
    BY DEF BusInv, RouteInv, BusTypes
  <2> QED
    BY <1>3, <2>2 DEF RouteOf, Named, SameEnds
<1> QED
  BY <1>1, <1>2, <1>3, <1>4

LEMMA RegisterFailsStep ==
    ASSUME BusInv, NEW x \in Procs, RegisterFails(x)
    PROVE  BusInv'
<1> DEFINE c == proc[x].c
<1>1. BusTypes /\ ProcOf(x) /\ proc[x].at = "reply" /\ c \in Conns
  BY DEF RegisterFails, BusInv, ProcInv, BusTypes, Callers, ProcOf
<1>2. conn' = Closed(c) /\ UNCHANGED <<queue, id, linkMap, router, slots, worker, evs>>
      /\ proc' = [proc EXCEPT ![x] = Idle]
  BY DEF RegisterFails
<1> HIDE DEF c
<1>3. /\ conn' \in [Conns -> Sockets] /\ SameEnds
      /\ \A d \in Conns : d # c => conn'[d] = conn[d]
      /\ \A d \in Conns : conn[d] = NoConn => conn'[d] = NoConn
  BY <1>1, <1>2, CloseStep DEF BusTypes
<1>4. /\ ConnInv' /\ MapInv' /\ RouteInv'
      /\ \A d \in Conns : Gone(d)' = Gone(d)
  BY <1>2, <1>3, EndsStep
<1>5. BusTypes'
  BY <1>1, <1>2, <1>3 DEF BusTypes, Callers, Idle
<1>6. OwnLinks'
  BY <1>1, <1>2 DEF BusInv, ProcInv, OwnLinks, BusTypes, Idle
<1>7. \A y \in Procs : ProcOf(y)'
  <2>1. TAKE y \in Procs
  <2>2. CASE y = x
    BY <1>1, <1>2, <2>2 DEF ProcOf, Idle, BusTypes
  <2>3. CASE y # x
    <3>1. ProcOf(y) /\ proc'[y] = proc[y] /\ proc[y].c \in Conns \cup {0}
      BY <1>1, <1>2, <2>3 DEF BusInv, ProcInv, BusTypes, Callers
    <3>2. proc[y].at = "reply" => proc[y].c # c
      BY <1>1, <2>3 DEF BusInv, ProcInv, OwnLinks, c
    <3> QED
      BY <1>2, <1>3, <1>4, <3>1, <3>2 DEF ProcOf, Unknown, Named, SameEnds
  <2> QED
    BY <2>2, <2>3
<1> QED
  BY <1>4, <1>5, <1>6, <1>7 DEF BusInv, ProcInv

LEMMA EndsProc ==
    ASSUME BusInv, SameEnds, UNCHANGED <<id, linkMap, router, worker, queue>>,
           \A d \in Conns : Gone(d)' = Gone(d),
           NEW y \in Procs, proc'[y] = proc[y],
           proc[y].at = "reply" => conn'[proc[y].c].open
    PROVE  ProcOf(y)'
<1>1. ProcOf(y) /\ proc[y].c \in Conns \cup {0}
  BY DEF BusInv, ProcInv, BusTypes, Callers
<1> QED
  BY <1>1 DEF ProcOf, Unknown, Named, SameEnds

LEMMA NodeCloseStep ==
    ASSUME BusInv, NEW x \in Procs, NEW p \in Peers, NodeClose(x, p)
    PROVE  BusInv'
<1> DEFINE fd == router[p].fd
<1>1. /\ BusTypes /\ fd \in Fds /\ linkMap[fd] \in Conns \cup {0} /\ proc[x].at = "idle"
      /\ proc' = [proc EXCEPT ![x].at = "unanswered"]
      /\ UNCHANGED <<queue, id, linkMap, slots, worker, evs>>
  BY DEF NodeClose, BusInv, BusTypes
<1>2. /\ \A y \in Procs : y # x => proc'[y] = proc[y]
      /\ proc'[x].at = "unanswered"
      /\ proc' \in [Procs -> Callers]
  BY <1>1, Zenon DEF BusTypes, Callers
<1>3. OwnLinks' /\ ProcOf(x)'
  BY <1>2 DEF BusInv, ProcInv, OwnLinks, ProcOf
<1>4. CASE linkMap[fd] # 0
  <2> DEFINE c == linkMap[fd]
  <2>1. c \in Conns /\ conn' = Closed(c) /\ UNCHANGED router /\ conn[c].fd = fd /\ fd # 0
    BY <1>1, <1>4 DEF NodeClose, BusInv, MapInv
  <2>2. InMap(c)
    BY <2>1 DEF InMap
  <2> HIDE DEF c
  <2>3. /\ conn' \in [Conns -> Sockets] /\ SameEnds
        /\ \A d \in Conns : d # c => conn'[d] = conn[d]
        /\ \A d \in Conns : conn[d] = NoConn => conn'[d] = NoConn
    BY <1>1, <2>1, CloseStep DEF BusTypes
  <2>4. /\ ConnInv' /\ MapInv' /\ RouteInv'
        /\ \A d \in Conns : Gone(d)' = Gone(d)
    BY <1>1, <2>1, <2>3, EndsStep
  <2>5. BusTypes'
    BY <1>1, <1>2, <2>1, <2>3 DEF BusTypes
  <2>6. \A y \in Procs : ProcOf(y)'
    <3>1. SUFFICES ASSUME NEW y \in Procs, y # x PROVE ProcOf(y)'
      BY <1>3
    <3>2. proc[y].at = "reply" => proc[y].c \in Conns /\ proc[y].c # c /\ conn[proc[y].c].open
      BY <1>1, <2>2 DEF BusInv, ProcInv, ProcOf, Unknown, Gone, BusTypes, Callers
    <3> QED
      BY <1>1, <1>2, <2>1, <2>3, <2>4, <3>1, <3>2, EndsProc
  <2> QED
    BY <1>3, <2>4, <2>5, <2>6 DEF BusInv, ProcInv
<1>5. CASE linkMap[fd] = 0
  <2>1. router' = [router EXCEPT ![p] = NoRoute] /\ UNCHANGED conn
    BY <1>5 DEF NodeClose
  <2>2. BusTypes'
    BY <1>1, <1>2, <2>1 DEF BusTypes, NoRoute
  <2>3. ConnInv' /\ MapInv' /\ \A d \in Conns : Gone(d)' = Gone(d)
    BY <1>1, <2>1 DEF BusInv, ConnInv, MapInv, OneSlot, Gone, InMap
  <2>4. RouteInv'
    BY <1>1, <2>1, <2>3 DEF BusInv, RouteInv, RouteOf, Named, NoRoute, BusTypes
  <2>5. \A y \in Procs : ProcOf(y)'
    <3>1. SUFFICES ASSUME NEW y \in Procs, y # x PROVE ProcOf(y)'
      BY <1>3
    <3>2. ProcOf(y) /\ proc'[y] = proc[y] /\ proc[y].c \in Conns \cup {0}
      BY <1>1, <1>2, <3>1 DEF BusInv, ProcInv, BusTypes, Callers
    <3>3. \A q \in Peers : router'[q] = router[q] \/ router'[q].c = 0
      BY <1>1, <2>1 DEF BusTypes, NoRoute
    <3> QED
      BY <1>1, <2>1, <2>3, <3>2, <3>3 DEF ProcOf, Unknown, Named
  <2> QED
    BY <1>3, <2>2, <2>3, <2>4, <2>5 DEF BusInv, ProcInv
<1> QED
  BY <1>4, <1>5

LEMMA PeerCloseStep ==
    ASSUME BusInv, NEW c \in Conns, PeerClose(c)
    PROVE  BusInv'
<1>1. /\ BusTypes /\ conn[c] \in Sockets /\ conn[c].open
      /\ conn' = [conn EXCEPT ![c].hup = TRUE]
      /\ UNCHANGED <<queue, id, linkMap, router, slots, worker, evs, proc>>
  BY DEF PeerClose, BusInv, BusTypes
<1>2. /\ conn' \in [Conns -> Sockets]
      /\ \A d \in Conns : d # c => conn'[d] = conn[d]
      /\ conn'[c].far = conn[c].far /\ conn'[c].fd = conn[c].fd /\ conn'[c].open
  <2>1. conn' = [conn EXCEPT ![c] = [conn[c] EXCEPT !.hup = TRUE]]
    BY <1>1 DEF BusTypes
  <2>2. /\ [conn[c] EXCEPT !.hup = TRUE] \in Sockets
        /\ [conn[c] EXCEPT !.hup = TRUE].far = conn[c].far
        /\ [conn[c] EXCEPT !.hup = TRUE].fd = conn[c].fd
        /\ [conn[c] EXCEPT !.hup = TRUE].open = conn[c].open
    BY <1>1, Zenon DEF Sockets
  <2> QED
    BY <1>1, <2>1, <2>2 DEF BusTypes
<1>3. SameEnds /\ \A d \in Conns : conn[d] = NoConn => conn'[d] = NoConn
  <2>1. SameEnds
    BY <1>1, <1>2 DEF SameEnds
  <2>2. conn[c] # NoConn
    BY <1>1 DEF NoConn
  <2> QED
    BY <1>2, <2>1, <2>2
<1>4. /\ ConnInv' /\ MapInv' /\ RouteInv'
      /\ \A d \in Conns : Gone(d)' = Gone(d)
  BY <1>1, <1>2, <1>3, EndsStep
<1>5. BusTypes' /\ OwnLinks'
  BY <1>1, <1>2 DEF BusTypes, BusInv, ProcInv, OwnLinks
<1>6. \A y \in Procs : ProcOf(y)'
  <2>1. TAKE y \in Procs
  <2>2. proc[y].at = "reply" => conn'[proc[y].c].open
    BY <1>1, <1>2 DEF BusInv, ProcInv, ProcOf, Unknown, BusTypes, Callers
  <2> QED
    BY <1>1, <1>3, <1>4, <2>2, EndsProc
<1> QED
  BY <1>4, <1>5, <1>6 DEF BusInv, ProcInv

-----------------------------------------------------------------------------
(* Steps that leave the links, the map and the routes alone *)

LEMMA SameStep ==
    ASSUME BusInv, UNCHANGED <<conn, id, linkMap, router>>, OneSlot',
           \/ UNCHANGED worker
           \/ worker'.c = 0 /\ worker'.at \notin {"insert", "remove", "caught"},
           \A d \in Conns : conn[d].fd = 0 => queue'[d] = queue[d]
    PROVE  /\ ConnInv' /\ MapInv' /\ RouteInv'
           /\ \A y \in Procs :
                 proc'[y] = proc[y] /\ (proc[y].at = "reply" => queue'[proc[y].c] = queue[proc[y].c])
                 => ProcOf(y)'
<1>1. ConnInv'
  BY DEF BusInv, ConnInv
<1>2. MapInv'
  BY DEF BusInv, MapInv
<1>3. \A d \in Conns : Gone(d) => Gone(d)'
  <2>1. \A d \in Conns : d # 0
    BY BusAssumption DEF Conns
  <2> QED
    BY <2>1 DEF Gone, InMap
<1>4. RouteInv'
  <2>1. SUFFICES ASSUME NEW p \in Peers PROVE RouteOf(p)'
    BY DEF RouteInv
  <2>2. RouteOf(p) /\ router[p].c \in Conns \cup {0}
    BY DEF BusInv, RouteInv, BusTypes
  <2> QED
    BY <1>3, <2>2 DEF RouteOf, Named
<1>5. ASSUME NEW y \in Procs, proc'[y] = proc[y],
             proc[y].at = "reply" => queue'[proc[y].c] = queue[proc[y].c]
      PROVE  ProcOf(y)'
  <2>1. ProcOf(y) /\ proc[y].c \in Conns \cup {0}
    BY DEF BusInv, ProcInv, BusTypes, Callers
  <2> QED
    BY <1>3, <1>5, <2>1 DEF ProcOf, Unknown, Named
<1> QED
  BY <1>1, <1>2, <1>4, <1>5

(* A process moves, and the worker does not.                               *)
LEMMA MovesStep ==
    ASSUME BusInv, NEW x \in Procs, UNCHANGED <<conn, id, linkMap, router, worker, evs>>,
           slots' \in Seq(Slots), OneSlot', queue' \in [Conns -> Seq(Peers)],
           \A d \in Conns : conn[d].fd = 0 => queue'[d] = queue[d],
           \A y \in Procs : proc[y].at = "reply" => queue'[proc[y].c] = queue[proc[y].c],
           \A y \in Procs : y # x => proc'[y] = proc[y],
           proc' \in [Procs -> Callers],
           proc'[x].at \notin {"reply", "route"}, ProcOf(x)'
    PROVE  BusInv'
<1>1. BusTypes'
  BY DEF BusInv, BusTypes
<1>2. ConnInv' /\ MapInv' /\ RouteInv'
  BY SameStep
<1>3. \A y \in Procs : ProcOf(y)'
  BY SameStep
<1>4. OwnLinks'
  BY DEF BusInv, ProcInv, OwnLinks
<1> QED
  BY <1>1, <1>2, <1>3, <1>4 DEF BusInv, ProcInv

LEMMA FindStep ==
    ASSUME BusInv, NEW x \in Procs, NEW p \in Peers, Find(x, p)
    PROVE  BusInv'
<1>1. BusTypes /\ OneSlot
  BY DEF BusInv, ConnInv
<1>2. router[p].fd \in Fds \cup {-1} /\ router[p].c \in Conns \cup {0}
  BY <1>1 DEF Find, BusTypes
<1>3. /\ proc' = [proc EXCEPT ![x] = [at |-> "put", peer |-> p, fd |-> router[p].fd, c |-> router[p].c]]
      /\ UNCHANGED <<conn, queue, id, linkMap, router, slots, worker, evs>>
  BY DEF Find
<1>4. /\ \A y \in Procs : y # x => proc'[y] = proc[y]
      /\ proc'[x] = [at |-> "put", peer |-> p, fd |-> router[p].fd, c |-> router[p].c]
      /\ proc' \in [Procs -> Callers]
  BY <1>1, <1>2, <1>3 DEF BusTypes, Callers
<1>5. proc'[x].at \notin {"reply", "route"} /\ ProcOf(x)'
  BY <1>2, <1>4 DEF ProcOf
<1>6. slots' \in Seq(Slots) /\ OneSlot' /\ queue' \in [Conns -> Seq(Peers)]
  BY <1>1, <1>3 DEF OneSlot, BusTypes
<1> QED
  BY <1>3, <1>4, <1>5, <1>6, MovesStep

LEMMA PutSendTaskStep ==
    ASSUME BusInv, NEW x \in Procs, PutSendTask(x)
    PROVE  BusInv'
<1> DEFINE c == linkMap[proc[x].fd]
<1>1. BusTypes /\ OneSlot /\ ProcOf(x)
  BY DEF BusInv, ConnInv, ProcInv
<1>2. proc[x].at = "put" /\ proc[x].fd \in Fds /\ proc[x].peer \in Peers /\ c \in Conns \cup {0}
  BY <1>1 DEF PutSendTask, ProcOf, BusTypes
<1>3. UNCHANGED <<conn, id, linkMap, router, slots, worker, evs>>
  BY DEF PutSendTask
<1>4. slots' \in Seq(Slots) /\ OneSlot'
  BY <1>1, <1>3 DEF OneSlot, BusTypes
<1>5. CASE c = 0
  <2>1. proc' = [proc EXCEPT ![x] = Idle] /\ UNCHANGED queue
    BY <1>5 DEF PutSendTask
  <2>2. /\ \A y \in Procs : y # x => proc'[y] = proc[y]
        /\ proc'[x] = Idle /\ queue' \in [Conns -> Seq(Peers)]
        /\ proc' \in [Procs -> Callers]
    BY <1>1, <2>1 DEF BusTypes, Callers, Idle
  <2>3. proc'[x].at \notin {"reply", "route"} /\ ProcOf(x)'
    BY <2>2 DEF ProcOf, Idle
  <2> QED
    BY <1>3, <1>4, <2>1, <2>2, <2>3, MovesStep
<1>6. CASE c # 0
  <2>1. /\ proc' = [proc EXCEPT ![x].at = "out"]
        /\ queue' = [queue EXCEPT ![c] = Append(queue[c], proc[x].peer)]
    BY <1>2, <1>6 DEF PutSendTask, BusInv, BusTypes
  <2>2. c \in Conns /\ conn[c].fd = proc[x].fd /\ conn[c].fd # 0 /\ InMap(c)
    <3>1. conn[c].fd = proc[x].fd
      BY <1>2, <1>6 DEF BusInv, MapInv
    <3>2. proc[x].fd # 0
      BY <1>2, BusAssumption
    <3> QED
      BY <1>2, <1>6, <3>1, <3>2 DEF InMap
  <2> HIDE DEF c
  <2>3. Append(queue[c], proc[x].peer) \in Seq(Peers)
    BY <1>1, <1>2, <2>2 DEF BusTypes
  <2>4. queue' \in [Conns -> Seq(Peers)] /\ \A d \in Conns : d # c => queue'[d] = queue[d]
    BY <1>1, <2>1, <2>2, <2>3 DEF BusTypes
  <2>5. \A y \in Procs : proc[y].at = "reply" => queue'[proc[y].c] = queue[proc[y].c]
    <3>1. TAKE y \in Procs
    <3>2. proc[y].at = "reply" => proc[y].c \in Conns /\ proc[y].c # c
      BY <1>1, <2>2 DEF BusInv, ProcInv, ProcOf, Unknown, Gone, BusTypes, Callers
    <3> QED
      BY <2>4, <3>2
  <2>6. /\ \A y \in Procs : y # x => proc'[y] = proc[y]
        /\ proc'[x] = [proc[x] EXCEPT !.at = "out"]
        /\ proc' \in [Procs -> Callers]
    BY <1>1, <2>1, Zenon DEF BusTypes, Callers
  <2>7. proc'[x].at = "out" /\ proc'[x].fd = proc[x].fd /\ proc'[x].peer = proc[x].peer
    BY <1>1, <2>6 DEF BusTypes
  <2>8. ProcOf(x)'
    BY <1>2, <1>3, <1>6, <2>7 DEF ProcOf, c
  <2> QED
    BY <1>3, <1>4, <2>2, <2>4, <2>5, <2>6, <2>7, <2>8, MovesStep, Zenon
<1> QED
  BY <1>5, <1>6

(* PollIn and RegisterOut: a slot, and the process is done.                *)
LEMMA RegistersStep ==
    ASSUME BusInv, NEW x \in Procs, PollIn(x) \/ RegisterOut(x)
    PROVE  /\ BusInv'
           /\ proc[x].fd \in Fds
           /\ Polled' = Polled \cup {proc[x].fd} /\ Out \subseteq Out'
           /\ proc[x].at = "out" => proc[x].fd \in Out'
<1>1. BusTypes /\ OneSlot /\ ProcOf(x)
  BY DEF BusInv, ConnInv, ProcInv
<1>2. PICK fd \in Fds : fd = proc[x].fd
  BY <1>1 DEF PollIn, RegisterOut, ProcOf
<1>3. PICK ev \in {"IN", "OUT"} : slots' = Registered(fd, ev) /\ (proc[x].at = "out" => ev = "OUT")
  BY <1>2 DEF PollIn, RegisterOut
<1>4. /\ slots' \in Seq(Slots) /\ OneSlot'
      /\ Polled' = Polled \cup {fd}
      /\ Out \subseteq Out' /\ (ev = "OUT" => fd \in Out')
  BY <1>1, <1>3, RegisterStep DEF BusTypes
<1>5. proc' = [proc EXCEPT ![x] = Idle] /\ UNCHANGED <<conn, queue, id, linkMap, router, worker, evs>>
  BY DEF PollIn, RegisterOut
<1>6. /\ \A y \in Procs : y # x => proc'[y] = proc[y]
      /\ proc'[x] = Idle /\ queue' \in [Conns -> Seq(Peers)]
      /\ proc' \in [Procs -> Callers]
  BY <1>1, <1>5 DEF BusTypes, Callers, Idle
<1>7. proc'[x].at \notin {"reply", "route"} /\ ProcOf(x)'
  BY <1>6 DEF ProcOf, Idle
<1>8. BusInv'
  BY <1>4, <1>5, <1>6, <1>7, MovesStep
<1> QED
  BY <1>2, <1>3, <1>4, <1>8

-----------------------------------------------------------------------------
(* The worker *)

Quiet == worker' \in [at : {"poll", "events", "handle"}, fd : {0}, c : {0}]

(* The worker goes on, and touches no link.                                *)
LEMMA QuietStep ==
    ASSUME BusInv, Quiet, UNCHANGED <<conn, queue, id, linkMap, router, proc>>,
           slots' \in Seq(Slots), OneSlot',
           evs' \in Seq([fd : Fds, ev : {"IN", "OUT", "NVAL"}])
    PROVE  BusInv'
<1>1. BusTypes' /\ OwnLinks'
  BY DEF BusInv, BusTypes, Quiet, ProcInv, OwnLinks
<1>2. worker'.c = 0 /\ worker'.at \notin {"insert", "remove", "caught"}
  BY DEF Quiet
<1>3. ConnInv' /\ MapInv' /\ RouteInv'
  BY <1>2, SameStep
<1>4. \A y \in Procs : ProcOf(y)'
  BY <1>2, SameStep
<1> QED
  BY <1>1, <1>3, <1>4 DEF BusInv, ProcInv

LEMMA WaitEventStep ==
    ASSUME BusInv, WaitEvent
    PROVE  BusInv'
<1>1. BusTypes /\ OneSlot
  BY DEF BusInv, ConnInv
<1>2. PICK at \in [1..Cardinality(Ready) -> Ready] :
         evs' = [i \in DOMAIN at |-> [fd |-> slots[at[i]].fd, ev |-> EventOf(slots[at[i]])]]
  BY Zenon DEF WaitEvent
<1>3. Cardinality(Ready) \in Nat
  <2>1. Len(slots) \in Nat /\ Ready \subseteq 1..Len(slots)
    BY <1>1 DEF BusTypes, Ready
  <2>2. IsFiniteSet(1..Len(slots))
    BY <2>1, FS_Interval
  <2> QED
    BY <2>1, <2>2, FS_Subset, FS_CardinalityType, Zenon
<1>4. \A i \in Ready : [fd |-> slots[i].fd, ev |-> EventOf(slots[i])]
                          \in [fd : Fds, ev : {"IN", "OUT", "NVAL"}]
  <2>1. TAKE i \in Ready
  <2>2. slots[i] \in Slots /\ EventOf(slots[i]) # "none"
    BY <1>1 DEF Ready, BusTypes
  <2>3. slots[i].fd \in Fds \cup {0}
    BY <2>2 DEF Slots
  <2>4. slots[i].fd # 0 /\ EventOf(slots[i]) \in {"IN", "OUT", "NVAL"}
    BY <2>2, <2>3 DEF EventOf
  <2> QED
    BY <2>3, <2>4
<1>5. evs' \in Seq([fd : Fds, ev : {"IN", "OUT", "NVAL"}])
  <2> DEFINE T == [fd : Fds, ev : {"IN", "OUT", "NVAL"}]
             n == Cardinality(Ready)
  <2>1. evs' = [i \in 1..n |-> evs'[i]] /\ \A i \in 1..n : evs'[i] \in T
    <3>1. DOMAIN at = 1..n /\ \A i \in 1..n : at[i] \in Ready
      OBVIOUS
    <3> HIDE DEF T, n
    <3>2. evs' = [i \in 1..n |-> [fd |-> slots[at[i]].fd, ev |-> EventOf(slots[at[i]])]]
      BY <1>2, <3>1
    <3>3. \A i \in 1..n : evs'[i] = [fd |-> slots[at[i]].fd, ev |-> EventOf(slots[at[i]])]
      BY <3>2
    <3>4. \A i \in 1..n : evs'[i] \in T
      BY <1>4, <3>1, <3>3, Zenon DEF T
    <3> QED
      BY <3>2, <3>4
  <2>2. n \in Nat
    BY <1>3
  <2> HIDE DEF T, n
  <2>3. \A f : f = [i \in 1..n |-> f[i]] /\ (\A i \in 1..n : f[i] \in T) => f \in Seq(T)
    BY <2>2
  <2>4. evs' \in Seq(T)
    BY <2>1, <2>3, Zenon
  <2> QED
    BY <2>4 DEF T
<1>6. Quiet
  <2>1. worker' = [at |-> "events", fd |-> 0, c |-> 0]
    BY DEF WaitEvent, Polling
  <2> QED
    BY <2>1 DEF Quiet
<1>7. UNCHANGED <<conn, queue, id, linkMap, router, proc, slots>>
  BY DEF WaitEvent
<1>8. slots' \in Seq(Slots) /\ OneSlot'
  BY <1>1, <1>7 DEF OneSlot, BusTypes
<1> QED
  BY <1>5, <1>6, <1>7, <1>8, QuietStep

LEMMA EventsDoneStep ==
    ASSUME BusInv, EventsDone
    PROVE  BusInv'
<1>1. BusTypes /\ OneSlot
  BY DEF BusInv, ConnInv
<1>2. Quiet /\ UNCHANGED <<conn, queue, id, linkMap, router, proc, slots, evs>>
  BY DEF EventsDone, Polling, Quiet
<1>3. slots' \in Seq(Slots) /\ OneSlot' /\ evs' \in Seq([fd : Fds, ev : {"IN", "OUT", "NVAL"}])
  BY <1>1, <1>2 DEF OneSlot, BusTypes
<1> QED
  BY <1>2, <1>3, QuietStep

LEMMA RemovesStep ==
    ASSUME BusInv, RemoveOut
    PROVE  /\ BusInv'
           /\ worker.fd \in Fds /\ Polled' = Polled /\ Out \ {worker.fd} \subseteq Out'
<1>1. BusTypes /\ OneSlot
  BY DEF BusInv, ConnInv
<1>2. PICK fd \in Fds : fd = worker.fd
  BY DEF RemoveOut, BusInv, MapInv
<1>3. slots' = RemovedEvent(fd, "OUT") /\ UNCHANGED <<conn, queue, id, linkMap, router, proc, evs>>
  BY <1>2 DEF RemoveOut
<1>4. slots' \in Seq(Slots) /\ OneSlot' /\ Polled' = Polled /\ Out \ {fd} \subseteq Out'
  BY <1>1, <1>3, RemoveOutStep DEF BusTypes
<1>5. Quiet
  BY DEF RemoveOut, Back, Polling, Quiet
<1>6. BusInv'
  BY <1>1, <1>3, <1>4, <1>5, QuietStep DEF BusTypes
<1> QED
  BY <1>2, <1>4, <1>6

(* The worker serves link c, the one that has the descriptor of the event. *)
LEMMA ServeStep ==
    ASSUME BusInv, NEW fd \in Fds, NEW c \in Conns, linkMap[fd] = c,
           UNCHANGED <<id, linkMap, router, slots, proc>>,
           evs' \in Seq([fd : Fds, ev : {"IN", "OUT", "NVAL"}]),
           conn' \in [Conns -> Sockets], SameEnds, \A d \in Conns : d # c => conn'[d] = conn[d],
           queue' \in [Conns -> Seq(Peers)], \A d \in Conns : d # c => queue'[d] = queue[d],
           Quiet \/ \E w \in {"insert", "remove", "caught"} : At(w, fd, c)
    PROVE  BusInv'
<1>1. BusTypes /\ conn[c].fd = fd /\ fd # 0 /\ InMap(c) /\ \A d \in Conns : d # 0
  BY BusAssumption DEF BusInv, MapInv, InMap, Conns
<1>2. BusTypes' /\ OwnLinks'
  BY <1>1 DEF BusInv, BusTypes, Quiet, At, ProcInv, OwnLinks
<1>3. ConnInv'
  <2>1. \A d \in Conns : IF conn'[d].fd = 0
                         THEN conn'[d] = NoConn /\ id'[d] = NoPeer /\ queue'[d] = <<>>
                         ELSE conn'[d].far \in Peers
    <3>1. TAKE d \in Conns
    <3>2. CASE d = c
      BY <1>1, <3>2 DEF BusInv, ConnInv, SameEnds
    <3>3. CASE d # c
      BY <3>3, Zenon DEF BusInv, ConnInv
    <3> QED
      BY <3>2, <3>3
  <2>2. \A d \in Conns : id'[d] \in {NoPeer, conn'[d].far}
    BY DEF BusInv, ConnInv, SameEnds
  <2>3. \A d, e \in Conns : conn'[d].open /\ conn'[e].open /\ conn'[d].fd = conn'[e].fd => d = e
    BY DEF BusInv, ConnInv, SameEnds
  <2>4. OneSlot'
    BY DEF BusInv, ConnInv, OneSlot
  <2> QED
    BY <2>1, <2>2, <2>3, <2>4 DEF ConnInv
<1>4. MapInv'
  <2>1. \A f \in Fds : linkMap'[f] # 0 => conn'[linkMap'[f]].fd = f
    <3>1. \A f \in Fds : linkMap[f] \in Conns \cup {0}
      BY <1>1 DEF BusTypes
    <3> QED
      BY <3>1, Zenon DEF BusInv, MapInv, SameEnds
  <2>2. CASE Quiet
    BY <2>1, <2>2 DEF MapInv, Quiet
  <2>3. CASE \E w \in {"insert", "remove", "caught"} : At(w, fd, c)
    <3>1. PICK w \in {"insert", "remove", "caught"} : worker' = [at |-> w, fd |-> fd, c |-> c]
      BY <2>3 DEF At
    <3>2. worker'.at = w /\ worker'.fd = fd /\ worker'.c = c /\ conn'[c].fd = fd /\ c # 0
      BY <1>1, <3>1 DEF SameEnds
    <3> QED
      BY <2>1, <3>2 DEF MapInv
  <2> QED
    BY <2>2, <2>3
<1>5. \A d \in Conns : Gone(d) => Gone(d)'
  <2>1. worker'.c \in {0, c}
    BY DEF Quiet, At
  <2> QED
    BY <1>1, <2>1 DEF Gone, InMap, SameEnds
<1>6. RouteInv'
  <2>1. SUFFICES ASSUME NEW p \in Peers PROVE RouteOf(p)'
    BY DEF RouteInv
  <2>2. RouteOf(p) /\ router[p].c \in Conns \cup {0}
    BY DEF BusInv, RouteInv, BusTypes
  <2> QED
    BY <1>5, <2>2 DEF RouteOf, Named, SameEnds
<1>7. \A y \in Procs : ProcOf(y)'
  <2>1. TAKE y \in Procs
  <2>2. ProcOf(y) /\ proc[y].c \in Conns \cup {0}
    BY DEF BusInv, ProcInv, BusTypes, Callers
  <2>3. proc[y].at = "reply" => proc[y].c # c
    BY <1>1, <2>2 DEF ProcOf, Unknown, Gone
  <2> QED
    BY <1>5, <2>2, <2>3, Zenon DEF ProcOf, Unknown, Named, SameEnds
<1> QED
  BY <1>2, <1>3, <1>4, <1>6, <1>7 DEF BusInv, ProcInv

(* One event: the queue of a link gets no longer.                          *)
LEMMA HandleStep ==
    ASSUME BusInv, Handle
    PROVE  /\ BusInv' /\ SameEnds
           /\ \A d \in Conns : queue[d] = <<>> => queue'[d] = <<>>
<1> DEFINE e == Head(evs)
           c == linkMap[e.fd]
           T == [fd : Fds, ev : {"IN", "OUT", "NVAL"}]
<1>1. BusTypes /\ OneSlot
  BY DEF BusInv, ConnInv
<1>2. e \in T /\ evs' \in Seq(T)
  <2>1. evs \in Seq(T) /\ evs # <<>> /\ evs' = Tail(evs)
    BY <1>1, Zenon DEF Handle, BusTypes
  <2> HIDE DEF T
  <2> QED
    BY <2>1
<1>3. PICK fd \in Fds : fd = e.fd
  BY <1>2
<1>4. c \in Conns \cup {0} /\ UNCHANGED <<id, linkMap, router, slots, proc>>
  BY <1>1, <1>3, Zenon DEF Handle, BusTypes
<1>5. \/ c = 0 /\ Back /\ UNCHANGED <<conn, queue>>
      \/ c # 0 /\ OnRecv(fd, c) /\ UNCHANGED queue
      \/ c # 0 /\ OnSend(fd, c) /\ UNCHANGED conn
      \/ c # 0 /\ At("caught", fd, c) /\ UNCHANGED <<conn, queue>>
  BY <1>3, Zenon DEF Handle
<1>6. linkMap[fd] = c
  BY <1>3
<1> HIDE DEF e, c
<1>7. Back => Quiet
  BY DEF Back, Quiet, Polling
<1>8. UNCHANGED conn => SameEnds /\ conn' \in [Conns -> Sockets]
  BY <1>1 DEF SameEnds, BusTypes
<1>9. UNCHANGED queue => queue' \in [Conns -> Seq(Peers)]
  BY <1>1 DEF BusTypes
<1>10. CASE c = 0 /\ Back /\ UNCHANGED <<conn, queue>>
  <2>1. slots' \in Seq(Slots) /\ OneSlot'
    BY <1>1, <1>4 DEF OneSlot, BusTypes
  <2>2. BusInv'
    BY <1>2, <1>4, <1>7, <1>10, <2>1, QuietStep
  <2> QED
    BY <1>8, <1>10, <2>2
<1>11. CASE c # 0 /\ OnRecv(fd, c) /\ UNCHANGED queue
  <2>1. c \in Conns /\ conn[c] \in Sockets
    BY <1>1, <1>4, <1>11 DEF BusTypes
  <2>2. \/ At("caught", fd, c) /\ UNCHANGED conn
        \/ conn' = Closed(c) /\ Back
        \/ conn' = [conn EXCEPT ![c].reg = FALSE] /\ At("insert", fd, c)
    BY <1>11, Zenon DEF OnRecv
  <2>3. SameEnds /\ conn' \in [Conns -> Sockets] /\ \A d \in Conns : d # c => conn'[d] = conn[d]
    <3>1. CASE UNCHANGED conn
      BY <1>8, <3>1
    <3>2. CASE conn' = Closed(c)
      BY <1>1, <2>1, <3>2, CloseStep DEF BusTypes
    <3>3. CASE conn' = [conn EXCEPT ![c].reg = FALSE]
      <4>1. conn' = [conn EXCEPT ![c] = [conn[c] EXCEPT !.reg = FALSE]]
        BY <1>1, <2>1, <3>3 DEF BusTypes
      <4>2. /\ [conn[c] EXCEPT !.reg = FALSE] \in Sockets
            /\ [conn[c] EXCEPT !.reg = FALSE].far = conn[c].far
            /\ [conn[c] EXCEPT !.reg = FALSE].fd = conn[c].fd
            /\ [conn[c] EXCEPT !.reg = FALSE].open = conn[c].open
        BY <2>1, Zenon DEF Sockets
      <4>3. /\ conn' \in [Conns -> Sockets] /\ conn'[c] = [conn[c] EXCEPT !.reg = FALSE]
            /\ \A d \in Conns : d # c => conn'[d] = conn[d]
        BY <1>1, <2>1, <4>1, <4>2 DEF BusTypes
      <4> QED
        BY <4>2, <4>3, Zenon DEF SameEnds
    <3> QED
      BY <2>2, <3>1, <3>2, <3>3
  <2>4. Quiet \/ \E w \in {"insert", "remove", "caught"} : At(w, fd, c)
    BY <1>7, <2>2, Zenon
  <2>5. queue' \in [Conns -> Seq(Peers)] /\ \A d \in Conns : d # c => queue'[d] = queue[d]
    BY <1>9, <1>11
  <2>6. BusInv'
    BY <1>2, <1>4, <1>6, <2>1, <2>3, <2>4, <2>5, ServeStep, Zenon
  <2> QED
    BY <1>11, <2>3, <2>6
<1>12. CASE c # 0 /\ OnSend(fd, c) /\ UNCHANGED conn
  <2>1. c \in Conns /\ queue[c] \in Seq(Peers)
    BY <1>1, <1>4, <1>12 DEF BusTypes
  <2>2. \/ Back /\ UNCHANGED queue
        \/ At("caught", fd, c) /\ UNCHANGED queue
        \/ /\ queue[c] # <<>> /\ queue' = [queue EXCEPT ![c] = Tail(queue[c])]
           /\ At("remove", fd, c) \/ Back
    <3>1. queue' = [queue EXCEPT ![c] = Tail(@)] => queue' = [queue EXCEPT ![c] = Tail(queue[c])]
      OBVIOUS
    <3> QED
      BY <1>12, <3>1, Zenon DEF OnSend
  <2>3. /\ queue' \in [Conns -> Seq(Peers)] /\ \A d \in Conns : d # c => queue'[d] = queue[d]
        /\ queue[c] = <<>> => queue'[c] = <<>>
    <3>1. CASE UNCHANGED queue
      BY <1>9, <3>1
    <3>2. CASE queue[c] # <<>> /\ queue' = [queue EXCEPT ![c] = Tail(queue[c])]
      <4>1. Tail(queue[c]) \in Seq(Peers)
        BY <2>1, <3>2
      <4> QED
        BY <1>1, <2>1, <3>2, <4>1 DEF BusTypes
    <3> QED
      BY <2>2, <3>1, <3>2
  <2>4. Quiet \/ \E w \in {"insert", "remove", "caught"} : At(w, fd, c)
    BY <1>7, <2>2, Zenon
  <2>5. SameEnds /\ conn' \in [Conns -> Sockets] /\ \A d \in Conns : d # c => conn'[d] = conn[d]
    BY <1>8, <1>12
  <2>6. BusInv'
    BY <1>2, <1>4, <1>6, <2>1, <2>3, <2>4, <2>5, ServeStep, Zenon
  <2> QED
    BY <2>3, <2>5, <2>6
<1>13. CASE c # 0 /\ At("caught", fd, c) /\ UNCHANGED <<conn, queue>>
  <2>1. c \in Conns
    BY <1>4, <1>13
  <2>2. SameEnds /\ conn' \in [Conns -> Sockets] /\ \A d \in Conns : d # c => conn'[d] = conn[d]
    BY <1>8, <1>13
  <2>3. queue' \in [Conns -> Seq(Peers)] /\ \A d \in Conns : queue'[d] = queue[d]
    BY <1>9, <1>13
  <2>4. BusInv'
    BY <1>2, <1>4, <1>6, <1>13, <2>1, <2>2, <2>3, ServeStep, Zenon
  <2> QED
    BY <2>2, <2>3, <2>4
<1> QED
  BY <1>5, <1>10, <1>11, <1>12, <1>13

-----------------------------------------------------------------------------
(* Links and routes *)

LEMMA RouteInStep ==
    ASSUME BusInv, NEW x \in Procs, RouteIn(x)
    PROVE  BusInv'
<1> DEFINE c == proc[x].c
           p == proc[x].peer
<1>1. BusTypes /\ ProcOf(x) /\ proc[x].at = "route"
  BY DEF RouteIn, BusInv, ProcInv
<1>2. /\ c \in Conns /\ c # 0 /\ p \in Peers /\ proc[x].fd \in Fds /\ proc[x].fd # 0
      /\ conn[c].fd = proc[x].fd /\ conn[c].far = p /\ Named(c, p)
  BY <1>1, BusAssumption DEF ProcOf, BusTypes, Callers
<1>3. /\ router' = [router EXCEPT ![p] = [fd |-> proc[x].fd, c |-> c]]
      /\ proc' = [proc EXCEPT ![x].at = "register"]
      /\ UNCHANGED <<conn, queue, id, linkMap, slots, worker, evs>>
  BY DEF RouteIn, Insert
<1>4. /\ \A y \in Procs : y # x => proc'[y] = proc[y]
      /\ proc'[x].at = "register" /\ proc'[x].c = c /\ proc'[x].fd = proc[x].fd /\ proc'[x].peer = p
      /\ proc' \in [Procs -> Callers]
  BY <1>1, <1>3 DEF BusTypes, Callers
<1> HIDE DEF c, p
<1>5. /\ \A q \in Peers : q # p => router'[q] = router[q]
      /\ router'[p].fd = proc[x].fd /\ router'[p].c = c
      /\ router' \in [Peers -> [fd : Fds \cup {0, -1}, c : Conns \cup {0}]]
  BY <1>1, <1>2, <1>3 DEF BusTypes
<1>6. BusTypes'
  BY <1>1, <1>3, <1>4, <1>5 DEF BusTypes
<1>7. ConnInv' /\ MapInv' /\ \A d \in Conns : Gone(d)' = Gone(d)
  BY <1>3 DEF BusInv, ConnInv, MapInv, OneSlot, Gone, InMap
<1>8. RouteInv'
  <2>1. SUFFICES ASSUME NEW q \in Peers PROVE RouteOf(q)'
    BY DEF RouteInv
  <2>2. CASE q = p
    BY <1>2, <1>3, <1>5, <1>7, <2>2 DEF RouteOf, Named
  <2>3. CASE q # p
    <3>1. RouteOf(q) /\ router[q].c \in Conns \cup {0}
      BY DEF BusInv, RouteInv, BusTypes
    <3> QED
      BY <1>3, <1>5, <1>7, <2>3, <3>1 DEF RouteOf, Named
  <2> QED
    BY <2>2, <2>3
<1>9. OwnLinks'
  BY <1>1, <1>4 DEF BusInv, ProcInv, OwnLinks
<1>10. \A y \in Procs : ProcOf(y)'
  <2>1. TAKE y \in Procs
  <2>2. CASE y = x
    BY <1>2, <1>3, <1>4, <2>2 DEF ProcOf
  <2>3. CASE y # x
    <3>1. ProcOf(y) /\ proc'[y] = proc[y] /\ proc[y].c \in Conns \cup {0}
      BY <1>1, <1>4, <2>3 DEF BusInv, ProcInv, BusTypes, Callers
    <3>2. proc[y].at = "reply" => proc[y].c # c
      BY <1>1, <2>3 DEF BusInv, ProcInv, OwnLinks, c
    <3>3. proc[y].at = "reply" => \A q \in Peers : router'[q].c # proc[y].c
      BY <1>5, <3>1, <3>2 DEF ProcOf, Unknown
    <3> QED
      BY <1>3, <1>7, <3>1, <3>3, Zenon DEF ProcOf, Unknown, Named
  <2> QED
    BY <2>2, <2>3
<1> QED
  BY <1>6, <1>7, <1>8, <1>9, <1>10 DEF BusInv, ProcInv

LEMMA LinkInStep ==
    ASSUME BusInv, NEW x \in Procs, LinkIn(x)
    PROVE  BusInv'
<1> DEFINE c == proc[x].c
           p == proc[x].peer
           fd == proc[x].fd
<1>1. BusTypes /\ ProcOf(x) /\ proc[x].at = "reply"
  BY DEF LinkIn, BusInv, ProcInv
<1>2. /\ c \in Conns /\ c # 0 /\ p \in Peers /\ fd \in Fds /\ fd # 0
      /\ conn[c].fd = fd /\ conn[c].far = p /\ Unknown(c)
  BY <1>1, BusAssumption DEF ProcOf, BusTypes, Callers
<1>3. /\ id' = [id EXCEPT ![c] = p]
      /\ linkMap' = [linkMap EXCEPT ![fd] = c]
      /\ proc' = [proc EXCEPT ![x].at = "route"]
      /\ UNCHANGED <<conn, queue, router, slots, worker, evs>>
  BY DEF LinkIn
<1>4. /\ \A y \in Procs : y # x => proc'[y] = proc[y]
      /\ proc'[x].at = "route" /\ proc'[x].c = c /\ proc'[x].fd = fd /\ proc'[x].peer = p
      /\ proc' \in [Procs -> Callers]
  BY <1>1, <1>3, Zenon DEF BusTypes, Callers
<1>5. OwnLinks' /\ \A y \in Procs : y # x /\ proc[y].at \in {"reply", "route"} => proc[y].c # c
  BY <1>1, <1>4 DEF BusInv, ProcInv, OwnLinks
<1> HIDE DEF c, p, fd
<1>6. /\ id'[c] = p /\ \A d \in Conns : d # c => id'[d] = id[d]
      /\ linkMap'[fd] = c /\ \A f \in Fds : f # fd => linkMap'[f] = linkMap[f]
      /\ id' \in [Conns -> Peers \cup {NoPeer}] /\ linkMap' \in [Fds -> Conns \cup {0}]
  BY <1>1, <1>2, <1>3 DEF BusTypes
<1>7. BusTypes'
  BY <1>1, <1>3, <1>4, <1>6 DEF BusTypes
<1>8. ConnInv'
  BY <1>2, <1>3, <1>6 DEF BusInv, ConnInv, OneSlot
<1>9. MapInv'
  <2>1. \A f \in Fds : linkMap'[f] # 0 => conn[linkMap'[f]].fd = f
    BY <1>2, <1>6 DEF BusInv, MapInv
  <2>2. ~(worker.at = "insert" /\ conn[worker.c].open /\ worker.fd = fd)
    <3>1. worker.at = "insert" => worker.c \in Conns /\ worker.c # c /\ conn[worker.c].fd = worker.fd
      BY <1>1, <1>2 DEF BusInv, MapInv, BusTypes, Unknown, Gone
    <3>2. conn[c].open
      BY <1>2 DEF Unknown
    <3> QED
      BY <1>2, <3>1, <3>2 DEF BusInv, ConnInv
  <2>3. worker.at = "insert" /\ conn[worker.c].open => worker.fd \in Fds
    BY DEF BusInv, MapInv
  <2> QED
    BY <1>3, <1>6, <2>1, <2>2, <2>3 DEF BusInv, MapInv
<1>10. \A d \in Conns : d # c /\ Gone(d) => Gone(d)'
  BY <1>1, <1>3, <1>6 DEF Gone, InMap, BusTypes, Sockets
<1>11. RouteInv'
  <2>1. SUFFICES ASSUME NEW q \in Peers PROVE RouteOf(q)'
    BY DEF RouteInv
  <2>2. RouteOf(q) /\ router[q].c \in Conns \cup {0} /\ router[q].c # c
    BY <1>2 DEF BusInv, RouteInv, BusTypes, Unknown
  <2> QED
    BY <1>3, <1>6, <1>10, <2>2 DEF RouteOf, Named
<1>12. \A y \in Procs : ProcOf(y)'
  <2>1. TAKE y \in Procs
  <2>2. CASE y = x
    BY <1>2, <1>3, <1>4, <1>6, <2>2 DEF ProcOf, Named
  <2>3. CASE y # x
    <3>1. ProcOf(y) /\ proc'[y] = proc[y] /\ proc[y].c \in Conns \cup {0}
      BY <1>1, <1>4, <2>3 DEF BusInv, ProcInv, BusTypes, Callers
    <3>2. proc[y].at \in {"reply", "route"} => proc[y].c # c
      BY <1>5, <2>3
    <3>3. proc[y].at = "reply" => Unknown(proc[y].c)'
      BY <1>2, <1>3, <1>6, <1>10, <3>1, <3>2 DEF ProcOf, Unknown
    <3>4. proc[y].at = "route" => Named(proc[y].c, proc[y].peer)'
      <4>1. SUFFICES ASSUME proc[y].at = "route" PROVE Named(proc[y].c, proc[y].peer)'
        OBVIOUS
      <4>2. PICK d \in Conns : d = proc[y].c
        BY <3>1, <4>1 DEF ProcOf
      <4>3. PICK q : q = proc[y].peer
        OBVIOUS
      <4>4. d = proc'[y].c /\ q = proc'[y].peer /\ d # c /\ Named(d, q)
        BY <3>1, <3>2, <4>1, <4>2, <4>3 DEF ProcOf
      <4>5. Named(d, q)'
        BY <1>6, <1>10, <4>4 DEF Named
      <4> QED
        BY <4>4, <4>5
    <3>5. proc[y].at = "out" => linkMap'[proc[y].fd] # 0
      BY <1>2, <1>6, <3>1 DEF ProcOf
    <3> QED
      BY <1>3, <3>1, <3>3, <3>4, <3>5, Zenon DEF ProcOf
  <2> QED
    BY <2>2, <2>3
<1> QED
  BY <1>5, <1>7, <1>8, <1>9, <1>11, <1>12 DEF BusInv, ProcInv

(* Connection c is made, to p and with the descriptor fd.                  *)
Made(c, fd, p) ==
    /\ conn[c] = NoConn /\ \A d \in Conns : conn[d].open => conn[d].fd # fd
    /\ conn' \in [Conns -> Sockets]
    /\ conn'[c].far = p /\ conn'[c].fd = fd /\ conn'[c].open
    /\ \A d \in Conns : d # c => conn'[d] = conn[d]

(* A connection is made: nothing knew its number, nobody its descriptor.   *)
LEMMA MadeStep ==
    ASSUME BusInv, NEW c \in Conns, NEW fd \in Fds, NEW p \in Peers,
           Made(c, fd, p), UNCHANGED <<queue, id, router>>, OneSlot'
    PROVE  /\ ConnInv'
           /\ fd # 0 /\ c # 0 /\ conn[c].fd = 0 /\ id[c] = NoPeer /\ queue[c] = <<>>
           /\ worker.c # c /\ \A f \in Fds : linkMap[f] # c
           /\ \A q \in Peers : router[q].c # c
           /\ \A y \in Procs : proc[y].at \in {"reply", "route", "register"} => proc[y].c # c
<1> USE DEF Made
<1>1. fd # 0 /\ c # 0 /\ conn[c].fd = 0 /\ BusTypes
  BY BusAssumption DEF NoConn, Conns, BusInv
<1>2. id[c] = NoPeer /\ queue[c] = <<>>
  BY <1>1 DEF BusInv, ConnInv
<1>3. worker.c # c
  BY <1>1, BusAssumption DEF BusInv, MapInv
<1>4. \A f \in Fds : linkMap[f] # c
  <2>1. \A f \in Fds : f # 0
    BY BusAssumption
  <2> QED
    BY <1>1, <2>1 DEF BusInv, MapInv
<1>5. \A q \in Peers : router[q].c # c
  BY <1>1 DEF BusInv, RouteInv, RouteOf
<1>6. \A y \in Procs : proc[y].at \in {"reply", "route", "register"} => proc[y].c # c
  BY <1>1, BusAssumption DEF BusInv, ProcInv, ProcOf
<1>7. ConnInv'
  <2>1. \A d \in Conns : IF conn'[d].fd = 0
                         THEN conn'[d] = NoConn /\ id'[d] = NoPeer /\ queue'[d] = <<>>
                         ELSE conn'[d].far \in Peers
    BY <1>1 DEF BusInv, ConnInv
  <2>2. \A d \in Conns : id'[d] \in {NoPeer, conn'[d].far}
    BY <1>2 DEF BusInv, ConnInv
  <2>3. \A d, e \in Conns : conn'[d].open /\ conn'[e].open /\ conn'[d].fd = conn'[e].fd => d = e
    BY DEF BusInv, ConnInv
  <2> QED
    BY <2>1, <2>2, <2>3, Zenon DEF ConnInv
<1> QED
  BY <1>1, <1>2, <1>3, <1>4, <1>5, <1>6, <1>7

(* The fields of a process that waits for the reply.                       *)
LEMMA CallerFields ==
    ASSUME NEW r, NEW p, NEW fd, NEW c, r = [at |-> "reply", peer |-> p, fd |-> fd, c |-> c]
    PROVE  r.at = "reply" /\ r.peer = p /\ r.fd = fd /\ r.c = c
OBVIOUS

LEMMA ConnectStep ==
    ASSUME BusInv, NEW x \in Procs, NEW p \in Peers, Connect(x, p)
    PROVE  BusInv'
<1>1. BusTypes /\ ConnInv /\ NewConn(p, FALSE)
      /\ UNCHANGED <<queue, id, linkMap, router, slots, worker, evs>>
  BY Zenon DEF Connect, BusInv
<1>2. PICK c \in Conns, fd \in Fds :
         /\ c = Min(Fresh) /\ fd = Min(FreeFds)
         /\ conn[c] = NoConn /\ \A d \in Conns : conn[d].open => conn[d].fd # fd
         /\ conn' \in [Conns -> Sockets]
         /\ conn'[c].far = p /\ conn'[c].fd = fd /\ conn'[c].open
         /\ \A d \in Conns : d # c => conn'[d] = conn[d]
  BY <1>1, NewStep, Zenon DEF BusTypes
<1>3. proc' = [proc EXCEPT ![x] = [at |-> "reply", peer |-> p, fd |-> fd, c |-> c]]
  BY <1>2, Zenon DEF Connect
<1>4. /\ \A y \in Procs : y # x => proc'[y] = proc[y]
      /\ proc'[x] = [at |-> "reply", peer |-> p, fd |-> fd, c |-> c]
      /\ proc' \in [Procs -> Callers]
  BY <1>1, <1>3 DEF BusTypes, Callers
<1>5. proc'[x].at = "reply" /\ proc'[x].peer = p /\ proc'[x].fd = fd /\ proc'[x].c = c
  BY <1>4, CallerFields
<1>6. UNCHANGED <<queue, id, router>> /\ OneSlot'
  BY <1>1, Zenon DEF ConnInv, OneSlot
<1>7. /\ ConnInv'
      /\ fd # 0 /\ c # 0 /\ conn[c].fd = 0 /\ id[c] = NoPeer /\ queue[c] = <<>>
      /\ worker.c # c /\ \A f \in Fds : linkMap[f] # c
      /\ \A q \in Peers : router[q].c # c
      /\ \A y \in Procs : proc[y].at \in {"reply", "route", "register"} => proc[y].c # c
  <2>1. Made(c, fd, p)
    BY <1>2, Zenon DEF Made
  <2> QED
    BY <1>6, <2>1, MadeStep, Zenon
<1>8. BusTypes'
  BY <1>1, <1>2, <1>4 DEF BusTypes
<1>9. MapInv'
  <2>1. MapInv /\ worker.c \in Conns \cup {0} /\ \A f \in Fds : linkMap[f] \in Conns \cup {0}
    BY <1>1 DEF BusInv, BusTypes
  <2>2. worker.c # 0 => conn'[worker.c] = conn[worker.c]
    BY <1>2, <1>7, <2>1
  <2>3. \A f \in Fds : linkMap[f] # 0 => conn'[linkMap[f]] = conn[linkMap[f]]
    BY <1>2, <1>7, <2>1
  <2>4. worker.at = "insert" => worker.c # 0
    BY <2>1, Zenon DEF MapInv
  <2> QED
    BY <1>1, <2>1, <2>2, <2>3, <2>4, Zenon DEF MapInv
<1>10. \A d \in Conns : d # c => Gone(d)' = Gone(d)
  BY <1>1, <1>2 DEF Gone, InMap
<1>11. RouteInv'
  <2>1. SUFFICES ASSUME NEW q \in Peers PROVE RouteOf(q)'
    BY DEF RouteInv
  <2>2. RouteOf(q) /\ router[q].c \in Conns \cup {0} /\ router[q].c # c
    BY <1>1, <1>7 DEF BusInv, RouteInv, BusTypes
  <2> QED
    BY <1>1, <1>2, <1>10, <2>2, Zenon DEF RouteOf, Named
<1>12. OwnLinks'
  BY <1>4, <1>5, <1>7 DEF BusInv, ProcInv, OwnLinks
<1>13. \A y \in Procs : ProcOf(y)'
  <2>1. TAKE y \in Procs
  <2>2. CASE y = x
    <3>1. Unknown(c)'
      BY <1>1, <1>2, <1>7, Zenon DEF Unknown, Gone, InMap
    <3> QED
      BY <1>2, <1>5, <1>7, <2>2, <3>1 DEF ProcOf
  <2>3. CASE y # x
    <3>1. ProcOf(y) /\ proc'[y] = proc[y] /\ proc[y].c \in Conns \cup {0}
      BY <1>1, <1>4, <2>3 DEF BusInv, ProcInv, BusTypes, Callers
    <3>2. proc[y].at \in {"reply", "route", "register"} => proc[y].c # c
      BY <1>7
    <3> QED
      BY <1>1, <1>2, <1>10, <3>1, <3>2, Zenon DEF ProcOf, Unknown, Named
  <2> QED
    BY <2>2, <2>3
<1> QED
  BY <1>7, <1>8, <1>9, <1>11, <1>12, <1>13 DEF BusInv, ProcInv

LEMMA AcceptStep ==
    ASSUME BusInv, NEW p \in Peers, Accept(p)
    PROVE  /\ BusInv'
           /\ \E c \in Conns, fd \in Fds :
                 /\ fd = Min(FreeFds) /\ \A d \in Conns : conn[d].open => conn[d].fd # fd
                 /\ linkMap' = [linkMap EXCEPT ![fd] = c] /\ c # 0 /\ conn[c].fd = 0
                 /\ \A d \in Conns : d # c => conn'[d] = conn[d]
                 /\ conn'[c].fd = fd /\ queue[c] = <<>> /\ id[c] = NoPeer
                 /\ Polled' = Polled \cup {fd} /\ Out \subseteq Out'
                 /\ \A f \in Fds : linkMap[f] # c
<1>1. BusTypes /\ ConnInv /\ NewConn(p, TRUE) /\ UNCHANGED <<queue, id, router, evs, proc>>
  BY Zenon DEF Accept, BusInv
<1>2. PICK c \in Conns, fd \in Fds :
         /\ c = Min(Fresh) /\ fd = Min(FreeFds)
         /\ conn[c] = NoConn /\ \A d \in Conns : conn[d].open => conn[d].fd # fd
         /\ conn' \in [Conns -> Sockets]
         /\ conn'[c].far = p /\ conn'[c].fd = fd /\ conn'[c].open
         /\ \A d \in Conns : d # c => conn'[d] = conn[d]
  BY <1>1, NewStep, Zenon DEF BusTypes
<1>3. linkMap' = [linkMap EXCEPT ![fd] = c] /\ slots' = Registered(fd, "IN")
  BY <1>2, Zenon DEF Accept
<1>4. /\ slots' \in Seq(Slots) /\ OneSlot' /\ Polled' = Polled \cup {fd} /\ Out \subseteq Out'
      /\ UNCHANGED <<queue, id, router>>
  BY <1>1, <1>3, RegisterStep DEF BusTypes, ConnInv
<1>5. /\ ConnInv'
      /\ fd # 0 /\ c # 0 /\ conn[c].fd = 0 /\ id[c] = NoPeer /\ queue[c] = <<>>
      /\ worker.c # c /\ \A f \in Fds : linkMap[f] # c
      /\ \A q \in Peers : router[q].c # c
      /\ \A y \in Procs : proc[y].at \in {"reply", "route", "register"} => proc[y].c # c
  <2>1. Made(c, fd, p)
    BY <1>2, Zenon DEF Made
  <2> QED
    BY <1>4, <2>1, MadeStep, Zenon
<1>6. /\ linkMap'[fd] = c /\ \A f \in Fds : f # fd => linkMap'[f] = linkMap[f]
      /\ linkMap' \in [Fds -> Conns \cup {0}]
  BY <1>1, <1>3 DEF BusTypes
<1>7. worker.c = 0 /\ worker'.c = 0 /\ worker'.at \in {"poll", "handle"} /\ worker'.fd = worker.fd
      /\ worker' \in [at : {"poll", "events", "handle", "insert", "remove", "caught"},
                      fd : Fds \cup {0}, c : Conns \cup {0}]
  <2>1. worker.at \in {"poll", "events"} /\ worker.c = 0
    BY DEF Accept, BusInv, MapInv
  <2>2. worker' = IF worker.at = "poll" THEN worker ELSE [worker EXCEPT !.at = "handle"]
    BY Zenon DEF Accept
  <2> QED
    BY <1>1, <2>1, <2>2, Zenon DEF BusTypes
<1>8. BusTypes'
  BY <1>1, <1>2, <1>4, <1>6, <1>7 DEF BusTypes
<1>9. MapInv'
  <2>1. \A f \in Fds : linkMap'[f] # 0 => conn'[linkMap'[f]].fd = f
    <3>1. TAKE f \in Fds
    <3>2. CASE f = fd
      BY <1>2, <1>6, <3>2
    <3>3. CASE f # fd
      <4>1. linkMap'[f] = linkMap[f] /\ linkMap[f] \in Conns \cup {0} /\ linkMap[f] # c
        BY <1>1, <1>5, <1>6, <3>3 DEF BusTypes
      <4> QED
        BY <1>2, <4>1, Zenon DEF BusInv, MapInv
    <3> QED
      BY <3>2, <3>3
  <2> QED
    BY <1>7, <2>1 DEF MapInv
<1>10. \A d \in Conns : d # c /\ Gone(d) => Gone(d)'
  <2>1. TAKE d \in Conns
  <2>2. SUFFICES ASSUME d # c, Gone(d) PROVE Gone(d)'
    OBVIOUS
  <2>3. conn'[d] = conn[d] /\ conn[d].fd \in Fds \cup {0} /\ d # 0
    <3>1. conn[d] \in Sockets
      BY <1>1 DEF BusTypes
    <3>2. d # 0
      BY BusAssumption DEF Conns
    <3> QED
      BY <1>2, <2>2, <3>1, <3>2 DEF Sockets
  <2>4. conn[d].fd \in Fds => linkMap'[conn[d].fd] \in {linkMap[conn[d].fd], c}
    BY <1>6
  <2> QED
    BY <1>7, <2>2, <2>3, <2>4 DEF Gone, InMap
<1>11. RouteInv'
  <2>1. SUFFICES ASSUME NEW q \in Peers PROVE RouteOf(q)'
    BY DEF RouteInv
  <2>2. RouteOf(q) /\ router[q].c \in Conns \cup {0} /\ router[q].c # c
    BY <1>1, <1>5 DEF BusInv, RouteInv, BusTypes
  <2> QED
    BY <1>1, <1>2, <1>10, <2>2, Zenon DEF RouteOf, Named
<1>12. OwnLinks'
  BY <1>1 DEF BusInv, ProcInv, OwnLinks
<1>13. \A y \in Procs : ProcOf(y)'
  <2>1. TAKE y \in Procs
  <2>2. ProcOf(y) /\ proc'[y] = proc[y] /\ proc[y].c \in Conns \cup {0}
    BY <1>1 DEF BusInv, ProcInv, BusTypes, Callers
  <2>3. proc[y].at \in {"reply", "route", "register"} => proc[y].c # c
    BY <1>5
  <2>4. proc[y].at = "out" => linkMap'[proc[y].fd] # 0
    BY <1>5, <1>6, <2>2 DEF ProcOf
  <2> QED
    BY <1>1, <1>2, <1>10, <2>2, <2>3, <2>4, Zenon DEF ProcOf, Unknown, Named
<1>14. BusInv'
  BY <1>5, <1>8, <1>9, <1>11, <1>12, <1>13 DEF BusInv, ProcInv
<1> QED
  BY <1>2, <1>3, <1>4, <1>5, <1>14, Zenon

LEMMA RouteBackStep ==
    ASSUME BusInv, RouteBack
    PROVE  BusInv'
<1> DEFINE c == worker.c
           p == conn[c].far
<1>1. BusTypes /\ worker.at = "insert"
  BY DEF RouteBack, BusInv
<1>2. c \in Conns /\ c # 0 /\ conn[c].fd = worker.fd /\ worker.fd \in Fds /\ worker.fd # 0
  BY <1>1, BusAssumption DEF BusInv, MapInv, BusTypes
<1>3. p \in Peers /\ id[c] \in {NoPeer, p} /\ conn[c].fd # 0
  BY <1>2 DEF BusInv, ConnInv
<1>4. /\ router' = [router EXCEPT ![p] = [fd |-> GetFD(c), c |-> c]]
      /\ id' = [id EXCEPT ![c] = p]
      /\ worker' = [Polling EXCEPT !.at = "handle"]
      /\ UNCHANGED <<conn, queue, linkMap, slots, evs, proc>>
  BY Zenon DEF RouteBack, Insert, Back
<1>5. GetFD(c) \in {conn[c].fd, -1} /\ GetFD(c) \in Fds \cup {0, -1} /\ GetFD(c) # 0
  BY <1>2 DEF GetFD
<1>6. worker' = [at |-> "handle", fd |-> 0, c |-> 0]
  BY <1>4 DEF Polling
<1> HIDE DEF c, p
<1>7. /\ \A q \in Peers : q # p => router'[q] = router[q]
      /\ router'[p].fd = GetFD(c) /\ router'[p].c = c
      /\ router' \in [Peers -> [fd : Fds \cup {0, -1}, c : Conns \cup {0}]]
      /\ id'[c] = p /\ \A d \in Conns : d # c => id'[d] = id[d]
      /\ id' \in [Conns -> Peers \cup {NoPeer}]
  BY <1>1, <1>2, <1>3, <1>4, <1>5 DEF BusTypes
<1>8. BusTypes' /\ OwnLinks'
  <2>1. OwnLinks'
    BY <1>4 DEF BusInv, ProcInv, OwnLinks
  <2>2. worker' \in [at : {"poll", "events", "handle", "insert", "remove", "caught"},
                    fd : Fds \cup {0}, c : Conns \cup {0}]
    BY <1>6
  <2> QED
    BY <1>1, <1>4, <1>7, <2>1, <2>2 DEF BusTypes
<1>9. ConnInv'
  BY <1>2, <1>3, <1>4, <1>7 DEF BusInv, ConnInv, OneSlot, p
<1>10. MapInv'
  BY <1>4, <1>6 DEF BusInv, MapInv
<1>11. \A d \in Conns : Gone(d) => Gone(d)' /\ d # c
  <2>1. \A d \in Conns : d # 0
    BY BusAssumption DEF Conns
  <2> QED
    BY <1>4, <1>6, <2>1 DEF Gone, InMap, c
<1>12. RouteInv'
  <2>1. SUFFICES ASSUME NEW q \in Peers PROVE RouteOf(q)'
    BY DEF RouteInv
  <2>2. CASE q = p
    BY <1>2, <1>3, <1>4, <1>5, <1>7, <2>2 DEF RouteOf, Named
  <2>3. CASE q # p
    <3>1. RouteOf(q) /\ router[q].c \in Conns \cup {0} /\ router'[q] = router[q] /\ q # NoPeer
      BY <1>1, <1>7, <2>3, BusAssumption DEF BusInv, RouteInv, BusTypes
    <3>2. router[q].fd # 0 => router[q].c # c
      BY <1>3, <1>11, <2>3, <3>1 DEF RouteOf, Named
    <3> QED
      BY <1>4, <1>7, <1>11, <3>1, <3>2 DEF RouteOf, Named
  <2> QED
    BY <2>2, <2>3
<1>13. \A y \in Procs : ProcOf(y)'
  <2>1. TAKE y \in Procs
  <2>2. ProcOf(y) /\ proc'[y] = proc[y] /\ proc[y].c \in Conns \cup {0}
    BY <1>1, <1>4 DEF BusInv, ProcInv, BusTypes, Callers
  <2>3. proc[y].at = "reply" => Unknown(proc[y].c)'
    <3>1. proc[y].at = "reply" => proc[y].c # c
      BY <1>2, <1>11, <2>2 DEF ProcOf, Unknown
    <3> QED
      BY <1>4, <1>7, <1>11, <2>2, <3>1 DEF ProcOf, Unknown
  <2>4. proc[y].at = "route" => Named(proc[y].c, proc[y].peer)'
    <3>1. SUFFICES ASSUME proc[y].at = "route" PROVE Named(proc[y].c, proc[y].peer)'
      OBVIOUS
    <3>2. PICK d \in Conns : d = proc[y].c
      BY <2>2, <3>1 DEF ProcOf
    <3>3. PICK q : q = proc[y].peer
      OBVIOUS
    <3>4. d = proc'[y].c /\ q = proc'[y].peer /\ Named(d, q) /\ q \in Peers /\ conn[d].far = q
      BY <2>2, <3>1, <3>2, <3>3 DEF ProcOf
    <3>5. Named(d, q)'
      BY <1>7, <1>11, <3>4 DEF Named, p
    <3> QED
      BY <3>4, <3>5
  <2> QED
    BY <1>4, <2>2, <2>3, <2>4 DEF ProcOf
<1> QED
  BY <1>8, <1>9, <1>10, <1>12, <1>13 DEF BusInv, ProcInv

LEMMA CleanUpStep ==
    ASSUME BusInv, CleanUp
    PROVE  /\ BusInv' /\ SameEnds
           /\ worker.fd \in Fds /\ Polled' = Polled \ {worker.fd} /\ Out \ {worker.fd} \subseteq Out'
<1>1. BusTypes /\ OneSlot /\ worker.at = "caught"
  BY DEF CleanUp, BusInv, ConnInv
<1>2. PICK c \in Conns : c = worker.c /\ c # 0 /\ conn[c].fd = worker.fd /\ worker.fd \in Fds
  BY <1>1 DEF BusInv, MapInv, BusTypes
<1>3. PICK fd \in Fds : fd = worker.fd /\ fd # 0
  BY <1>2, BusAssumption, Zenon
<1>4. /\ linkMap' = [linkMap EXCEPT ![fd] = 0] /\ router' = Erased(c)
      /\ slots' = Removed(fd) /\ conn' = Closed(c)
      /\ queue' = [queue EXCEPT ![c] = <<>>] /\ id' = [id EXCEPT ![c] = NoPeer]
      /\ worker' = [Polling EXCEPT !.at = "handle"]
      /\ UNCHANGED <<evs, proc>>
  BY <1>2, <1>3, Zenon DEF CleanUp, Back
<1>5. worker' = [at |-> "handle", fd |-> 0, c |-> 0]
  BY <1>4 DEF Polling
<1>6. \A x \in Procs : proc[x].at # "out"
  BY DEF CleanUp, Free
<1>7. /\ conn' \in [Conns -> Sockets] /\ SameEnds
      /\ \A d \in Conns : d # c => conn'[d] = conn[d]
      /\ \A d \in Conns : conn[d] = NoConn => conn'[d] = NoConn
  BY <1>1, <1>2, <1>4, CloseStep DEF BusTypes
<1>8. slots' \in Seq(Slots) /\ OneSlot' /\ Polled' = Polled \ {fd} /\ Out \ {fd} \subseteq Out'
  BY <1>1, <1>4, RemoveStep DEF BusTypes
<1>9. /\ linkMap'[fd] = 0 /\ \A f \in Fds : f # fd => linkMap'[f] = linkMap[f]
      /\ linkMap' \in [Fds -> Conns \cup {0}]
      /\ id'[c] = NoPeer /\ \A d \in Conns : d # c => id'[d] = id[d]
      /\ id' \in [Conns -> Peers \cup {NoPeer}]
      /\ queue'[c] = <<>> /\ \A d \in Conns : d # c => queue'[d] = queue[d]
      /\ queue' \in [Conns -> Seq(Peers)]
  BY <1>1, <1>2, <1>4 DEF BusTypes
<1>10. /\ router' \in [Peers -> [fd : Fds \cup {0, -1}, c : Conns \cup {0}]]
       /\ \A p \in Peers : router'[p] = IF p = id[c] THEN NoRoute ELSE router[p]
  BY <1>1, <1>4 DEF Erased, NoRoute, BusTypes
<1>11. worker' \in [at : {"poll", "events", "handle", "insert", "remove", "caught"},
                    fd : Fds \cup {0}, c : Conns \cup {0}]
  BY <1>5
<1>12. BusTypes'
  BY <1>1, <1>4, <1>7, <1>8, <1>9, <1>10, <1>11 DEF BusTypes
<1>13. ConnInv'
  <2>1. \A d \in Conns : IF conn'[d].fd = 0
                         THEN conn'[d] = NoConn /\ id'[d] = NoPeer /\ queue'[d] = <<>>
                         ELSE conn'[d].far \in Peers
    BY <1>7, <1>9 DEF BusInv, ConnInv, SameEnds
  <2>2. \A d \in Conns : id'[d] \in {NoPeer, conn'[d].far}
    BY <1>7, <1>9 DEF BusInv, ConnInv, SameEnds
  <2>3. \A d, e \in Conns : conn'[d].open /\ conn'[e].open /\ conn'[d].fd = conn'[e].fd => d = e
    BY <1>7 DEF BusInv, ConnInv, SameEnds
  <2> QED
    BY <1>8, <2>1, <2>2, <2>3 DEF ConnInv
<1>14. MapInv'
  <2>1. \A f \in Fds : linkMap'[f] # 0 => conn'[linkMap'[f]].fd = f
    <3>1. \A f \in Fds : linkMap[f] \in Conns \cup {0}
      BY <1>1 DEF BusTypes
    <3> QED
      <4>1. TAKE f \in Fds
      <4>2. linkMap'[f] # 0 => linkMap'[f] = linkMap[f]
        BY <1>9
      <4>3. linkMap[f] # 0 => conn'[linkMap[f]].fd = f
        BY <1>7, <3>1 DEF BusInv, MapInv, SameEnds
      <4> QED
        BY <4>2, <4>3
  <2> QED
    BY <1>5, <2>1 DEF MapInv
<1>15. /\ \A d \in Conns : Gone(d) => Gone(d)' /\ d # c
       /\ Gone(c)'
  <2>1. \A d \in Conns : d # 0 /\ conn[d].fd \in Fds \cup {0} /\ conn'[d].fd = conn[d].fd
    <3>1. \A d \in Conns : conn[d] \in Sockets /\ d # 0
      BY <1>1 DEF BusTypes, Conns
    <3> QED
      BY <1>7, <3>1 DEF Sockets, SameEnds
  <2>2. Gone(c)'
    BY <1>2, <1>3, <1>5, <1>9, <2>1 DEF Gone, InMap
  <2>3. \A d \in Conns : conn[d].fd \in Fds => linkMap'[conn[d].fd] \in {linkMap[conn[d].fd], 0}
    BY <1>9
  <2>4. \A d \in Conns : Gone(d) => d # c
    BY <1>2 DEF Gone
  <2>5. \A d \in Conns : Gone(d) => Gone(d)'
    BY <1>5, <2>1, <2>3 DEF Gone, InMap
  <2> QED
    BY <2>2, <2>4, <2>5
<1>16. RouteInv'
  <2>1. SUFFICES ASSUME NEW q \in Peers PROVE RouteOf(q)'
    BY DEF RouteInv
  <2>2. RouteOf(q) /\ router[q].c \in Conns \cup {0}
    BY <1>1 DEF BusInv, RouteInv, BusTypes
  <2>3. CASE q = id[c]
    BY <1>10, <2>3 DEF RouteOf, NoRoute
  <2>4. CASE q # id[c]
    <3>1. router'[q] = router[q]
      BY <1>10, <2>4
    <3>2. router[q].fd # 0 => router[q].c # c
      BY <1>15, <2>2, <2>4 DEF RouteOf, Named
    <3>3. router[q].fd # 0 => router[q].c \in Conns
      BY <2>2 DEF RouteOf
    <3>4. router[q].fd # 0 => Named(router[q].c, q)'
      BY <1>9, <1>15, <2>2, <3>1, <3>2, <3>3, Zenon DEF RouteOf, Named
    <3>5. router[q].fd # 0 => conn'[router[q].c].fd = conn[router[q].c].fd
      BY <1>7, <3>3, Zenon DEF SameEnds
    <3> QED
      BY <2>2, <3>1, <3>4, <3>5, Zenon DEF RouteOf
  <2> QED
    BY <2>3, <2>4
<1>17. OwnLinks'
  BY <1>4 DEF BusInv, ProcInv, OwnLinks
<1>18. \A y \in Procs : ProcOf(y)'
  <2>1. TAKE y \in Procs
  <2>2. ProcOf(y) /\ proc'[y] = proc[y] /\ proc[y].c \in Conns \cup {0} /\ proc[y].at # "out"
    BY <1>1, <1>4, <1>6 DEF BusInv, ProcInv, BusTypes, Callers
  <2>3. proc[y].at = "reply" => Unknown(proc[y].c)'
    <3>1. proc[y].at = "reply" => proc[y].c \in Conns /\ proc[y].c # c
      BY <1>2, <1>15, <2>2, Zenon DEF ProcOf, Unknown
    <3>2. \A q \in Peers : router'[q] = router[q] \/ router'[q].c = 0
      BY <1>10 DEF NoRoute
    <3> QED
      BY <1>4, <1>7, <1>9, <1>15, <2>2, <3>1, <3>2 DEF ProcOf, Unknown
  <2>4. proc[y].at = "route" => Named(proc[y].c, proc[y].peer)'
    <3>1. SUFFICES ASSUME proc[y].at = "route" PROVE Named(proc[y].c, proc[y].peer)'
      OBVIOUS
    <3>2. PICK d \in Conns : d = proc[y].c
      BY <2>2, <3>1 DEF ProcOf
    <3>3. PICK q : q = proc[y].peer
      OBVIOUS
    <3>4. d = proc'[y].c /\ q = proc'[y].peer /\ Named(d, q)
      BY <2>2, <3>1, <3>2, <3>3 DEF ProcOf
    <3>5. Named(d, q)'
      BY <1>9, <1>15, <3>4 DEF Named
    <3> QED
      BY <3>4, <3>5
  <2>5. proc[y].c \in Conns => conn'[proc[y].c].fd = conn[proc[y].c].fd
                               /\ conn'[proc[y].c].far = conn[proc[y].c].far
    BY <1>7 DEF SameEnds
  <2> QED
    BY <2>2, <2>3, <2>4, <2>5, Zenon DEF ProcOf
<1>19. BusInv'
  BY <1>12, <1>13, <1>14, <1>16, <1>17, <1>18 DEF BusInv, ProcInv
<1> QED
  BY <1>3, <1>7, <1>8, <1>19

-----------------------------------------------------------------------------
LEMMA BusInit ==
    ASSUME Init
    PROVE  BusInv
<1>1. BusTypes
  BY DEF Init, BusTypes, Sockets, Callers, NoConn, NoRoute, Idle, Polling
<1>2. ConnInv
  <2>1. \A c \in Conns : conn[c] = NoConn /\ id[c] = NoPeer /\ queue[c] = <<>>
    BY DEF Init
  <2>2. NoConn.fd = 0 /\ ~NoConn.open
    BY DEF NoConn
  <2>3. OneSlot
    BY DEF Init, OneSlot
  <2> QED
    BY <2>1, <2>2, <2>3, Zenon DEF ConnInv
<1>3. MapInv
  BY DEF Init, MapInv, Polling
<1>4. RouteInv
  BY DEF Init, RouteInv, RouteOf, NoRoute
<1>5. ProcInv
  BY DEF Init, ProcInv, ProcOf, OwnLinks, Idle
<1> QED
  BY <1>1, <1>2, <1>3, <1>4, <1>5 DEF BusInv

LEMMA BusStep ==
    ASSUME BusInv, [Next]_vars
    PROVE  BusInv'
<1>1. ASSUME NEW x \in Procs, Step(x) PROVE BusInv'
  BY <1>1, RegisterFailsStep, LinkInStep, RouteInStep, RegistersStep, PutSendTaskStep DEF Step
<1>2. ASSUME NEW x \in Procs, NEW p \in Peers, Connect(x, p) \/ Find(x, p) \/ NodeClose(x, p)
      PROVE  BusInv'
  BY <1>2, ConnectStep, FindStep, NodeCloseStep
<1>3. CASE Worker
  BY <1>3, WaitEventStep, EventsDoneStep, HandleStep, RouteBackStep, RemovesStep, CleanUpStep
  DEF Worker
<1>4. ASSUME NEW p \in Peers, Accept(p) PROVE BusInv'
  BY <1>4, AcceptStep
<1>5. ASSUME NEW c \in Conns, PeerClose(c) PROVE BusInv'
  BY <1>5, PeerCloseStep
<1>6. CASE UNCHANGED vars
  <2>1. UNCHANGED <<conn, queue, id, linkMap, router, slots, worker, evs, proc>>
    BY <1>6 DEF vars
  <2>2. BusTypes'
    BY <2>1, Zenon DEF BusInv, BusTypes
  <2>3. ConnInv'
    BY <2>1, Zenon DEF BusInv, ConnInv, OneSlot
  <2>4. MapInv'
    BY <2>1, Zenon DEF BusInv, MapInv
  <2>5. RouteInv'
    BY <2>1, Zenon DEF BusInv, RouteInv, RouteOf, Named, Gone, InMap
  <2>6. ProcInv'
    BY <2>1, Zenon DEF BusInv, ProcInv, ProcOf, OwnLinks, Unknown, Named, Gone, InMap
  <2> QED
    BY <2>2, <2>3, <2>4, <2>5, <2>6, Zenon DEF BusInv
<1> QED
  BY <1>1, <1>2, <1>3, <1>4, <1>5, <1>6 DEF Next

LEMMA BusInvariance == Spec => []BusInv
<1>1. Init => BusInv
  BY BusInit
<1>2. BusInv /\ [Next]_vars => BusInv'
  BY BusStep
<1> QED
  BY <1>1, <1>2, PTL DEF Spec

-----------------------------------------------------------------------------
(* The theorems *)

LEMMA AtMostOne ==
    ASSUME NEW S, \A x, y \in S : x = y
    PROVE  Cardinality(S) <= 1
<1>1. CASE S = {}
  BY <1>1, FS_EmptySet
<1>2. CASE S # {}
  <2>1. PICK x \in S : TRUE
    BY <1>2
  <2>2. S = {x}
    BY <2>1
  <2> QED
    BY <2>2, FS_Singleton
<1> QED
  BY <1>1, <1>2

(* Whatever the processes, the peers and the worker do: the variables of   *)
(* the bus keep their types, no two open sockets share a descriptor, and   *)
(* CPollSelector::Register never gives a descriptor a second slot.         *)
THEOREM TypesAreKept == Spec => []TypeOK
<1>1. ASSUME BusInv PROVE TypeOK
  <2>1. BusTypes /\ ConnInv
    BY <1>1 DEF BusInv
  <2>2. \A c \in Conns : /\ conn[c].far \in Peers \cup {NoPeer}
                         /\ conn[c].fd \in Fds \cup {0}
                         /\ id[c] \in Peers \cup {NoPeer}
                         /\ queue[c] \in Seq(Peers)
    BY <2>1 DEF BusTypes, Sockets
  <2>3. \A fd \in Fds : Cardinality(Owner(fd)) <= 1
    <3>1. TAKE fd \in Fds
    <3>2. \A c, d \in Owner(fd) : c = d
      BY <2>1 DEF ConnInv, Owner
    <3> QED
      BY <3>2, AtMostOne
  <2>4. \A fd \in Fds : Cardinality(SlotsOf(fd)) <= 1
    <3>1. TAKE fd \in Fds
    <3>2. \A i, j \in SlotsOf(fd) : i = j
      BY <2>1, BusAssumption DEF ConnInv, OneSlot, SlotsOf
    <3> QED
      BY <3>2, AtMostOne
  <2>5. Conns \cup {0} \subseteq 0..MaxConns
    BY BusAssumption DEF Conns
  <2>6. linkMap \in [Fds -> 0..MaxConns] /\ router \in [Peers -> [fd : Fds \cup {0, -1}, c : 0..MaxConns]]
    BY <2>1, <2>5 DEF BusTypes
  <2>7. \A x \in Procs :
           proc[x].at \in {"idle", "reply", "route", "register", "put", "out", "unanswered"}
    BY <2>1 DEF BusTypes, Callers
  <2> QED
    BY <2>1, <2>2, <2>3, <2>4, <2>6, <2>7 DEF TypeOK, BusTypes
<1> QED
  BY <1>1, BusInvariance, PTL

LEMMA AstrayStep ==
    ASSUME BusInv, Next
    PROVE  OnlyLateStepsLeadAstray
<1>1. SUFFICES ASSUME NEW p \in Peers, Astray(p)', ~Astray(p)
               PROVE  \/ /\ router[p].fd \in Fds /\ router'[p] = router[p]
                         /\ LET c == linkMap[router[p].fd]
                            IN  c # 0 /\ ~conn[c].open /\ linkMap'[router[p].fd] \notin {0, c}
                      \/ worker.at = "caught" /\ worker.fd = router[p].fd /\ worker.c # router[p].c
                      \/ \E x \in Procs : /\ proc[x].at = "route" /\ proc[x].peer = p
                                          /\ ~InMap(proc[x].c)
                      \/ worker.at = "insert" /\ conn[worker.c].far = p /\ ~conn[worker.c].open
  BY Zenon DEF OnlyLateStepsLeadAstray
<1>2. BusTypes /\ RouteOf(p) /\ ConnInv /\ MapInv
  BY DEF BusInv, RouteInv
<1>3. ~UNCHANGED <<router, linkMap>>
  BY <1>1 DEF Astray
<1>4. ASSUME router'[p] = router[p]
      PROVE  /\ router[p].fd \in Fds /\ linkMap'[router[p].fd] # router[p].c
             /\ linkMap[router[p].fd] = router[p].c
             /\ router[p].c \in Conns /\ router[p].c # 0 /\ conn[router[p].c].fd = router[p].fd
             /\ Named(router[p].c, p)
  <2>1. router[p].fd \in Fds /\ linkMap'[router[p].fd] # router[p].c
        /\ linkMap[router[p].fd] = router[p].c
    BY <1>1, <1>4 DEF Astray
  <2>2. router[p].fd # 0 /\ router[p].fd # -1 /\ router[p].c \in Conns \cup {0}
    BY <1>2, <2>1, BusAssumption DEF BusTypes
  <2> QED
    BY <1>2, <2>1, <2>2 DEF RouteOf
<1>5. ASSUME NEW x \in Procs, LinkIn(x)
      PROVE  /\ router[p].fd \in Fds /\ router'[p] = router[p]
             /\ LET c == linkMap[router[p].fd]
                IN  c # 0 /\ ~conn[c].open /\ linkMap'[router[p].fd] \notin {0, c}
  <2>1. /\ router'[p] = router[p] /\ linkMap' = [linkMap EXCEPT ![proc[x].fd] = proc[x].c]
        /\ proc[x].at = "reply" /\ ProcOf(x) /\ proc[x].c \in Conns \cup {0}
    BY <1>2, <1>5 DEF LinkIn, BusInv, ProcInv, BusTypes, Callers
  <2>2. /\ proc[x].c \in Conns /\ proc[x].c # 0 /\ conn[proc[x].c].open
        /\ conn[proc[x].c].fd = proc[x].fd /\ proc[x].fd \in Fds
    BY <2>1, Zenon DEF ProcOf, Unknown
  <2>3. proc[x].fd = router[p].fd /\ linkMap'[router[p].fd] = proc[x].c
    BY <1>2, <1>4, <2>1, <2>2 DEF BusTypes
  <2>4. proc[x].c # router[p].c /\ ~conn[router[p].c].open
    BY <1>2, <1>4, <2>1, <2>2, <2>3, Zenon DEF ConnInv
  <2> QED
    BY <1>4, <2>1, <2>2, <2>3, <2>4, Zenon
<1>6. ASSUME NEW x \in Procs, RouteIn(x)
      PROVE  proc[x].at = "route" /\ proc[x].peer = p /\ ~InMap(proc[x].c)
  <2>1. /\ proc[x].at = "route" /\ router' = [router EXCEPT ![proc[x].peer] = [fd |-> proc[x].fd,
                                                                            c |-> proc[x].c]]
        /\ linkMap' = linkMap /\ ProcOf(x)
    BY <1>6 DEF RouteIn, Insert, BusInv, ProcInv
  <2>2. proc[x].peer \in Peers /\ conn[proc[x].c].fd = proc[x].fd /\ proc[x].fd \in Fds
    BY <2>1 DEF ProcOf
  <2>3. proc[x].peer = p
    BY <1>1, <1>2, <2>1, <2>2, Zenon DEF Astray, BusTypes
  <2>4. router'[p].fd = proc[x].fd /\ router'[p].c = proc[x].c
    BY <1>2, <2>1, <2>3 DEF BusTypes
  <2>5. linkMap[proc[x].fd] # proc[x].c
    BY <1>1, <2>1, <2>2, <2>4, BusAssumption DEF Astray
  <2> QED
    BY <2>1, <2>2, <2>3, <2>5, Zenon DEF InMap
<1>7. ASSUME NEW x \in Procs, NEW q \in Peers, NodeClose(x, q)
      PROVE  FALSE
  <2>1. linkMap' = linkMap /\ (router' = router \/ router' = [router EXCEPT ![q] = NoRoute])
    BY <1>7 DEF NodeClose
  <2>2. router'[p] = router[p] \/ router'[p].fd = 0
    BY <1>2, <2>1 DEF BusTypes, NoRoute
  <2>3. 0 \notin Fds
    BY BusAssumption
  <2> QED
    BY <1>1, <2>1, <2>2, <2>3 DEF Astray
<1>8. CASE RouteBack
  <2> DEFINE c == worker.c
  <2>1. /\ worker.at = "insert" /\ linkMap' = linkMap
        /\ router' = [router EXCEPT ![conn[c].far] = [fd |-> GetFD(c), c |-> c]]
    BY <1>8 DEF RouteBack, Insert
  <2>2. c \in Conns /\ conn[c].fd = worker.fd /\ worker.fd \in Fds /\ worker.fd # 0
        /\ (conn[c].open => linkMap[worker.fd] = c)
    BY <1>2, <2>1, BusAssumption DEF MapInv, BusTypes
  <2>3. conn[c].far \in Peers
    BY <1>2, <2>2 DEF ConnInv
  <2> HIDE DEF c
  <2>4. conn[c].far = p
    BY <1>1, <1>2, <2>1, <2>3, Zenon DEF Astray, BusTypes
  <2>5. router'[p].fd = GetFD(c) /\ router'[p].c = c
    BY <1>2, <2>1, <2>4 DEF BusTypes
  <2>6. ~conn[c].open
    BY <1>1, <2>1, <2>2, <2>5, BusAssumption DEF Astray, GetFD
  <2> QED
    BY <2>1, <2>4, <2>6 DEF c
<1>9. CASE CleanUp
  <2>1. /\ worker.at = "caught" /\ linkMap' = [linkMap EXCEPT ![worker.fd] = 0]
        /\ router' = Erased(worker.c)
    BY <1>9 DEF CleanUp
  <2>2. worker.c \in Conns /\ worker.fd \in Fds
    BY <1>2, <2>1 DEF MapInv, BusTypes
  <2>3. router'[p] = IF p = id[worker.c] THEN NoRoute ELSE router[p]
    BY <2>1 DEF Erased
  <2>4. p # id[worker.c] /\ router'[p] = router[p]
    BY <1>1, <2>3, BusAssumption DEF Astray, NoRoute
  <2>5. worker.fd = router[p].fd
    BY <1>2, <1>4, <2>1, <2>2, <2>4 DEF BusTypes
  <2>6. worker.c # router[p].c
    BY <1>4, <2>4, Zenon DEF Named, Gone
  <2> QED
    BY <2>1, <2>5, <2>6
<1>10. ASSUME NEW q \in Peers, Accept(q)
       PROVE  /\ router[p].fd \in Fds /\ router'[p] = router[p]
              /\ LET c == linkMap[router[p].fd]
                 IN  c # 0 /\ ~conn[c].open /\ linkMap'[router[p].fd] \notin {0, c}
  <2>1. PICK c \in Conns, fd \in Fds :
           /\ \A d \in Conns : conn[d].open => conn[d].fd # fd
           /\ linkMap' = [linkMap EXCEPT ![fd] = c] /\ c # 0
           /\ \A f \in Fds : linkMap[f] # c
    BY <1>10, AcceptStep
  <2>2. router'[p] = router[p]
    BY <1>10 DEF Accept
  <2>3. router[p].fd = fd /\ linkMap'[router[p].fd] = c
    BY <1>2, <1>4, <2>1, <2>2, Zenon DEF BusTypes
  <2> QED
    BY <1>4, <2>1, <2>2, <2>3
<1>11. \/ \E x \in Procs : LinkIn(x) \/ RouteIn(x)
       \/ \E x \in Procs, q \in Peers : NodeClose(x, q)
       \/ RouteBack \/ CleanUp \/ \E q \in Peers : Accept(q)
  BY <1>3, Zenon DEF Next, Step, Worker, RegisterFails, PollIn, PutSendTask, RegisterOut, Connect, Find,
              WaitEvent, EventsDone, Handle, RemoveOut, PeerClose
<1> QED
  BY <1>5, <1>6, <1>7, <1>8, <1>9, <1>10, <1>11, Zenon

(* A route that leads to its link goes on doing so, except in four races:  *)
(* a new link on the descriptor of one closed by DoNodeClose, the clean-up *)
(* that then clears its entry, a route entered by DoNodeReg after the      *)
(* clean-up, and one entered by OnMessage for a socket closed since.       *)
THEOREM RoutesLead == Spec => RouteLeads
<1>1. BusInv /\ [Next]_vars => [OnlyLateStepsLeadAstray]_vars
  BY AstrayStep
<1> QED
  BY <1>1, BusInvariance, PTL DEF Spec, RouteLeads

LEMMA RoutedStep ==
    ASSUME BusInv, Next
    PROVE  OnlyNamesakesTakeRoute
<1>1. SUFFICES ASSUME NEW c \in Conns, Routed(c), ~Routed(c)', InMap(c)', conn'[c].open
               PROVE  \/ router'[id[c]].c \notin {0, c}
                      \/ worker.at = "caught" /\ worker.c # c /\ id[worker.c] = id[c]
  BY DEF OnlyNamesakesTakeRoute
<1>2. /\ BusTypes /\ ConnInv /\ MapInv /\ InMap(c) /\ conn[c].open
      /\ id[c] \in Peers /\ router[id[c]].c = c /\ c # 0
  BY <1>1 DEF BusInv, Routed, BusTypes, Conns
<1>3. PICK p \in Peers : p = id[c]
  BY <1>2
<1>4. RouteOf(p) /\ router[p].c = c /\ router[p].fd \in {conn[c].fd, -1} /\ p # NoPeer
  BY <1>2, <1>3, BusAssumption DEF BusInv, RouteInv, RouteOf
<1>5. ~(id'[c] = p /\ router'[p].c = c)
  BY <1>1, <1>4, Zenon DEF Routed
<1>6. ASSUME NEW x \in Procs, LinkIn(x)
      PROVE  FALSE
  <2>1. /\ router' = router /\ id' = [id EXCEPT ![proc[x].c] = proc[x].peer]
        /\ proc[x].at = "reply" /\ ProcOf(x)
    BY <1>6 DEF LinkIn, BusInv, ProcInv
  <2>2. proc[x].c # c
    BY <1>2, <2>1 DEF ProcOf, Unknown, Gone
  <2> QED
    BY <1>2, <1>3, <1>4, <1>5, <2>1, <2>2 DEF BusTypes
<1>7. ASSUME NEW x \in Procs, RouteIn(x)
      PROVE  router'[p].c \notin {0, c}
  <2>1. /\ id' = id /\ ProcOf(x) /\ proc[x].at = "route"
        /\ router' = [router EXCEPT ![proc[x].peer] = [fd |-> proc[x].fd, c |-> proc[x].c]]
    BY <1>7 DEF RouteIn, Insert, BusInv, ProcInv
  <2>2. router'[p].c \in {router[p].c, proc[x].c} /\ proc[x].c # 0
    BY <1>2, <2>1, Zenon DEF BusTypes, ProcOf
  <2> QED
    BY <1>2, <1>3, <1>4, <1>5, <2>1, <2>2
<1>8. ASSUME NEW x \in Procs, NEW q \in Peers, NodeClose(x, q)
      PROVE  FALSE
  <2>1. /\ id' = id
        /\ \/ router' = router
           \/ /\ linkMap[router[q].fd] = 0 /\ router' = [router EXCEPT ![q] = NoRoute]
              /\ router[q].fd # -1
    BY <1>8 DEF NodeClose
  <2>2. q # p => router'[p] = router[p]
    BY <1>2, <2>1 DEF BusTypes
  <2>3. CASE q = p
    <3>1. linkMap[router[q].fd] = 0 /\ router[q].fd # -1
      BY <1>3, <1>4, <1>5, <2>1, Zenon
    <3> QED
      BY <1>2, <1>4, <2>3, <3>1 DEF InMap
  <2> QED
    BY <1>3, <1>4, <1>5, <2>1, <2>2, <2>3
<1>9. CASE RouteBack
  <2>1. /\ worker.at = "insert" /\ id' = [id EXCEPT ![worker.c] = conn[worker.c].far]
        /\ router' = [router EXCEPT ![conn[worker.c].far] = [fd |-> GetFD(worker.c), c |-> worker.c]]
    BY <1>9 DEF RouteBack, Insert
  <2>2. worker.c \in Conns /\ worker.c # 0
    BY <1>2, <2>1 DEF MapInv, BusTypes
  <2>3. CASE worker.c = c
    <3>1. conn[c].far = p
      BY <1>2, <1>3, <1>4 DEF ConnInv
    <3> QED
      BY <1>2, <1>5, <2>1, <2>3, <3>1 DEF BusTypes
  <2>4. CASE worker.c # c
    <3>1. id'[c] = p /\ router'[p].c \in {router[p].c, worker.c}
      BY <1>2, <1>3, <2>1, <2>4 DEF BusTypes
    <3> QED
      BY <1>3, <1>4, <1>5, <2>2, <2>4, <3>1
  <2> QED
    BY <2>3, <2>4
<1>10. CASE CleanUp
  <2>1. /\ worker.at = "caught" /\ id' = [id EXCEPT ![worker.c] = NoPeer]
        /\ router' = Erased(worker.c) /\ conn' = Closed(worker.c)
    BY <1>10 DEF CleanUp
  <2>2. worker.c # c
    BY <1>1, <1>2, <2>1 DEF Closed, BusTypes
  <2>3. id'[c] = p
    BY <1>2, <1>3, <2>1, <2>2 DEF BusTypes
  <2>4. router'[p] = IF p = id[worker.c] THEN NoRoute ELSE router[p]
    BY <2>1 DEF Erased
  <2> QED
    BY <1>3, <1>4, <1>5, <2>1, <2>2, <2>3, <2>4
<1>11. ~UNCHANGED <<router, id>>
  BY <1>3, <1>4, <1>5
<1>12. \/ \E x \in Procs : LinkIn(x) \/ RouteIn(x)
       \/ \E x \in Procs, q \in Peers : NodeClose(x, q)
       \/ RouteBack \/ CleanUp
  BY <1>11, Zenon DEF Next, Step, Worker, RegisterFails, PollIn, PutSendTask, RegisterOut, Connect, Find,
              WaitEvent, EventsDone, Handle, RemoveOut, PeerClose, Accept
<1> QED
  BY <1>3, <1>6, <1>7, <1>8, <1>9, <1>10, <1>12, Zenon

(* An open link loses its route only to another link of its peer: one that *)
(* is entered under the same name, or one whose clean-up erases the name.  *)
THEOREM RoutesAreKept == Spec => RouteKept
<1>1. BusInv /\ [Next]_vars => [OnlyNamesakesTakeRoute]_vars
  BY RoutedStep
<1> QED
  BY <1>1, BusInvariance, PTL DEF Spec, RouteKept

LEMMA SpinsStep ==
    ASSUME BusInv, Next
    PROVE  OnlyLateRegisterSpins
<1>1. SUFFICES ASSUME NEW fd \in Fds, fd \in Polled', linkMap'[fd] = 0, fd \notin Polled \/ linkMap[fd] # 0
               PROVE  \E x \in Procs : /\ proc[x].at = "register" /\ proc[x].fd = fd
                                       /\ proc'[x].at = "idle"
  BY DEF OnlyLateRegisterSpins
<1>2. BusTypes
  BY DEF BusInv
<1>3. ~(UNCHANGED <<linkMap, slots>>)
  BY <1>1 DEF Polled
<1>4. ASSUME NEW x \in Procs, LinkIn(x)
      PROVE  FALSE
  <2>1. /\ linkMap' = [linkMap EXCEPT ![proc[x].fd] = proc[x].c] /\ slots' = slots
        /\ ProcOf(x) /\ proc[x].at = "reply"
    BY <1>4 DEF LinkIn, BusInv, ProcInv
  <2>2. linkMap'[fd] = 0 => linkMap[fd] = 0
    BY <1>2, <2>1, Zenon DEF ProcOf, BusTypes
  <2> QED
    BY <1>1, <2>1, <2>2 DEF Polled
<1>5. ASSUME NEW x \in Procs, PollIn(x)
      PROVE  proc[x].at = "register" /\ proc[x].fd = fd /\ proc'[x].at = "idle"
  <2>1. Polled' = Polled \cup {proc[x].fd}
    BY <1>5, RegistersStep
  <2>2. proc[x].at = "register" /\ linkMap' = linkMap /\ proc' = [proc EXCEPT ![x] = Idle]
    BY <1>5 DEF PollIn
  <2> QED
    BY <1>1, <1>2, <2>1, <2>2 DEF Idle, BusTypes
<1>6. ASSUME NEW x \in Procs, RegisterOut(x)
      PROVE  FALSE
  <2>1. Polled' = Polled \cup {proc[x].fd}
    BY <1>6, RegistersStep
  <2>2. linkMap' = linkMap /\ linkMap[proc[x].fd] # 0
    BY <1>6 DEF RegisterOut, BusInv, ProcInv, ProcOf
  <2> QED
    BY <1>1, <2>1, <2>2
<1>7. ASSUME NEW q \in Peers, Accept(q)
      PROVE  FALSE
  <2>1. PICK c \in Conns, f \in Fds :
           linkMap' = [linkMap EXCEPT ![f] = c] /\ c # 0 /\ Polled' = Polled \cup {f}
    BY <1>7, AcceptStep
  <2>2. f # fd /\ linkMap'[fd] = linkMap[fd]
    BY <1>1, <1>2, <2>1 DEF BusTypes
  <2> QED
    BY <1>1, <2>1, <2>2
<1>8. CASE RemoveOut
  <2>1. Polled' = Polled /\ linkMap' = linkMap
    BY <1>8, RemovesStep DEF RemoveOut
  <2> QED
    BY <1>1, <2>1
<1>9. CASE CleanUp
  <2>1. Polled' = Polled \ {worker.fd} /\ linkMap' = [linkMap EXCEPT ![worker.fd] = 0]
    BY <1>9, CleanUpStep DEF CleanUp
  <2> QED
    BY <1>1, <1>2, <2>1 DEF BusTypes
<1>10. \/ \E x \in Procs : LinkIn(x) \/ PollIn(x) \/ RegisterOut(x)
       \/ RemoveOut \/ CleanUp \/ \E q \in Peers : Accept(q)
  BY <1>3, Zenon DEF Next, Step, Worker, RegisterFails, RouteIn, PutSendTask, Connect, Find, NodeClose,
              WaitEvent, EventsDone, Handle, RouteBack, PeerClose
<1> QED
  BY <1>4, <1>5, <1>6, <1>7, <1>8, <1>9, <1>10

LEMMA StrandsStep ==
    ASSUME BusInv, Next
    PROVE  OnlyRemoveStrands
<1>1. SUFFICES ASSUME NEW c \in Conns, Stranded(c)', ~Stranded(c)
               PROVE  worker.at = "remove" /\ worker.fd = conn[c].fd
  BY DEF OnlyRemoveStrands
<1>2. BusTypes /\ ConnInv /\ MapInv /\ c # 0
  BY DEF BusInv, Conns
<1>3. /\ queue'[c] # <<>> /\ conn'[c].fd # 0 /\ linkMap'[conn'[c].fd] = c /\ conn'[c].fd \notin Out'
      /\ \A x \in Procs : ~(proc'[x].at = "out" /\ proc'[x].fd = conn'[c].fd)
  BY <1>1 DEF Stranded, InMap
(* The steps that leave the link in place, its queue and EV_OUT alone.     *)
<1>4. ASSUME queue[c] # <<>>, conn'[c].fd = conn[c].fd, linkMap[conn[c].fd] = c,
             conn[c].fd \in Out => conn[c].fd \in Out',
             \A x \in Procs : proc[x].at = "out" /\ proc[x].fd = conn[c].fd
                              => proc'[x].at = "out" /\ proc'[x].fd = proc[x].fd
      PROVE  FALSE
  BY <1>1, <1>3, <1>4 DEF Stranded, InMap
<1>5. UNCHANGED slots => Out' = Out
  BY DEF Out
<1>6. ASSUME UNCHANGED <<queue, linkMap, slots>>, conn'[c].fd = conn[c].fd,
             \A x \in Procs : proc[x].at = "out" => proc'[x] = proc[x]
      PROVE  FALSE
  BY <1>3, <1>4, <1>5, <1>6, Zenon
<1>7. ASSUME NEW x \in Procs, RegisterFails(x)
      PROVE  FALSE
  <2>1. /\ UNCHANGED <<queue, linkMap, slots>> /\ proc[x].at = "reply" /\ ProcOf(x)
        /\ conn' = Closed(proc[x].c) /\ proc' = [proc EXCEPT ![x] = Idle]
    BY <1>7 DEF RegisterFails, BusInv, ProcInv
  <2>2. proc[x].c \in Conns
    BY <1>2, <2>1 DEF ProcOf, BusTypes, Callers
  <2>3. conn'[c].fd = conn[c].fd
    BY <1>2, <2>1, <2>2, CloseStep DEF SameEnds, BusTypes
  <2>4. \A y \in Procs : proc[y].at = "out" => proc'[y] = proc[y]
    BY <1>2, <2>1 DEF BusTypes
  <2> QED
    BY <1>6, <2>1, <2>3, <2>4
<1>8. ASSUME NEW x \in Procs, LinkIn(x)
      PROVE  FALSE
  <2>1. /\ linkMap' = [linkMap EXCEPT ![proc[x].fd] = proc[x].c]
        /\ UNCHANGED <<conn, queue, slots>> /\ proc' = [proc EXCEPT ![x].at = "route"]
        /\ proc[x].at = "reply" /\ ProcOf(x)
    BY <1>8 DEF LinkIn, BusInv, ProcInv
  <2>2. c # proc[x].c /\ conn[c].fd \in Fds
    BY <1>2, <1>3, <2>1 DEF ProcOf, Unknown, BusTypes, Sockets
  <2>3. linkMap[conn[c].fd] = c
    BY <1>2, <1>3, <2>1, <2>2 DEF BusTypes
  <2>4. \A y \in Procs : proc[y].at = "out" => proc'[y] = proc[y]
    BY <1>2, <2>1 DEF BusTypes
  <2> QED
    BY <1>3, <1>4, <1>5, <2>1, <2>3, <2>4
<1>9. ASSUME NEW x \in Procs, RouteIn(x)
      PROVE  FALSE
  <2>1. \A y \in Procs : proc[y].at = "out" => proc'[y] = proc[y]
    BY <1>2, <1>9 DEF RouteIn, BusTypes
  <2> QED
    BY <1>6, <1>9, <2>1 DEF RouteIn
<1>10. ASSUME NEW x \in Procs, PollIn(x)
       PROVE  FALSE
  <2>1. Out \subseteq Out'
    BY <1>10, RegistersStep
  <2>2. \A y \in Procs : proc[y].at = "out" => proc'[y] = proc[y]
    BY <1>2, <1>10 DEF PollIn, BusTypes
  <2>3. UNCHANGED <<conn, queue, linkMap>>
    BY <1>10 DEF PollIn
  <2> QED
    BY <1>3, <1>4, <2>1, <2>2, <2>3, Zenon
<1>11. ASSUME NEW x \in Procs, RegisterOut(x)
       PROVE  FALSE
  <2>1. Out \subseteq Out' /\ proc[x].fd \in Out'
    BY <1>11, RegistersStep, Zenon DEF RegisterOut
  <2>2. \A y \in Procs : y # x => proc'[y] = proc[y]
    BY <1>2, <1>11 DEF RegisterOut, BusTypes
  <2>3. UNCHANGED <<conn, queue, linkMap>>
    BY <1>11 DEF RegisterOut
  <2> QED
    BY <1>3, <1>4, <2>1, <2>2, <2>3
<1>12. ASSUME NEW x \in Procs, PutSendTask(x)
       PROVE  FALSE
  <2>1. /\ UNCHANGED <<conn, linkMap, slots>> /\ proc[x].at = "put" /\ ProcOf(x) /\ proc[x].fd \in Fds
        /\ \/ proc' = [proc EXCEPT ![x] = Idle] /\ UNCHANGED queue
           \/ /\ linkMap[proc[x].fd] # 0 /\ proc' = [proc EXCEPT ![x].at = "out"]
              /\ queue' = [queue EXCEPT ![linkMap[proc[x].fd]] = Append(@, proc[x].peer)]
    BY <1>12 DEF PutSendTask, BusInv, ProcInv, ProcOf
  <2>2. \A y \in Procs : proc[y].at = "out" => proc'[y] = proc[y]
    BY <1>2, <2>1 DEF BusTypes
  <2>3. CASE UNCHANGED queue
    BY <1>6, <2>1, <2>2, <2>3
  <2>4. CASE /\ linkMap[proc[x].fd] # 0 /\ proc' = [proc EXCEPT ![x].at = "out"]
             /\ queue' = [queue EXCEPT ![linkMap[proc[x].fd]] = Append(@, proc[x].peer)]
    <3>1. proc'[x].at = "out" /\ proc'[x].fd = proc[x].fd
      BY <1>2, <2>4 DEF BusTypes, Callers
    <3>2. linkMap[proc[x].fd] # c
      BY <1>2, <1>3, <2>1, <3>1 DEF MapInv
    <3>3. queue'[c] = queue[c]
      BY <1>2, <2>4, <3>2 DEF BusTypes
    <3> QED
      BY <1>3, <1>4, <1>5, <2>1, <2>2, <3>3
  <2> QED
    BY <2>1, <2>3, <2>4, Zenon
<1>13. ASSUME NEW x \in Procs, NEW p \in Peers, Connect(x, p)
       PROVE  FALSE
  <2>1. NewConn(p, FALSE) /\ UNCHANGED <<queue, linkMap, slots>> /\ proc[x].at = "idle"
    BY <1>13, Zenon DEF Connect
  <2>2. PICK d \in Conns : conn[d] = NoConn /\ \A e \in Conns : e # d => conn'[e] = conn[e]
    BY <1>2, <2>1, NewStep, Zenon DEF BusTypes
  <2>3. queue[d] = <<>>
    <3>1. conn[d].fd = 0
      BY <2>2 DEF NoConn
    <3> QED
      BY <1>2, <3>1, Zenon DEF ConnInv
  <2>4. \A y \in Procs : proc[y].at = "out" => proc'[y] = proc[y]
    BY <1>2, <1>13 DEF Connect, BusTypes
  <2> QED
    BY <1>3, <1>6, <2>1, <2>2, <2>3, <2>4
<1>14. ASSUME NEW x \in Procs, NEW p \in Peers, Find(x, p)
       PROVE  FALSE
  <2>1. \A y \in Procs : proc[y].at = "out" => proc'[y] = proc[y]
    BY <1>2, <1>14 DEF Find, BusTypes
  <2> QED
    BY <1>6, <1>14, <2>1 DEF Find
<1>15. ASSUME NEW x \in Procs, NEW p \in Peers, NodeClose(x, p)
       PROVE  FALSE
  <2>1. /\ UNCHANGED <<queue, linkMap, slots>> /\ router[p].fd \in Fds
        /\ \/ linkMap[router[p].fd] # 0 /\ conn' = Closed(linkMap[router[p].fd])
           \/ UNCHANGED conn
    BY <1>2, <1>15 DEF NodeClose, BusTypes
  <2>2. linkMap[router[p].fd] \in Conns \cup {0}
    BY <1>2, <2>1 DEF BusTypes
  <2>3. conn'[c].fd = conn[c].fd
    BY <1>2, <2>1, <2>2, CloseStep DEF SameEnds, BusTypes
  <2>4. \A y \in Procs : proc[y].at = "out" => proc'[y] = proc[y]
    BY <1>2, <1>15 DEF NodeClose, BusTypes
  <2> QED
    BY <1>6, <2>1, <2>3, <2>4, Zenon
<1>16. CASE WaitEvent \/ EventsDone \/ RouteBack
  BY <1>6, <1>16 DEF WaitEvent, EventsDone, RouteBack
<1>17. CASE Handle
  <2>1. UNCHANGED <<linkMap, slots, proc>> /\ conn'[c].fd = conn[c].fd /\ queue[c] # <<>>
    BY <1>3, <1>17, HandleStep, Zenon DEF Handle, SameEnds
  <2> QED
    BY <1>3, <1>4, <1>5, <2>1, Zenon
<1>18. CASE RemoveOut
  <2>1. UNCHANGED <<conn, queue, linkMap, proc>> /\ worker.at = "remove"
    BY <1>18 DEF RemoveOut
  <2>2. Out \ {worker.fd} \subseteq Out'
    BY <1>18, RemovesStep
  <2> QED
    BY <1>3, <1>4, <2>1, <2>2, Zenon
<1>19. CASE CleanUp
  <2>1. /\ linkMap' = [linkMap EXCEPT ![worker.fd] = 0] /\ queue' = [queue EXCEPT ![worker.c] = <<>>]
        /\ UNCHANGED proc /\ conn'[c].fd = conn[c].fd /\ worker.fd \in Fds
        /\ Out \ {worker.fd} \subseteq Out'
    BY <1>19, CleanUpStep, Zenon DEF CleanUp, SameEnds
  <2>2. queue[c] # <<>>
    BY <1>2, <1>3, <2>1 DEF BusTypes
  <2>3. conn[c].fd # worker.fd
    BY <1>2, <1>3, <2>1 DEF BusTypes
  <2>4. linkMap'[conn[c].fd] = linkMap[conn[c].fd]
    <3>1. conn[c].fd \in Fds
      BY <1>2, <1>3, <2>1 DEF BusTypes, Sockets
    <3> QED
      BY <1>2, <2>1, <2>3, <3>1 DEF BusTypes
  <2> QED
    BY <1>3, <1>4, <2>1, <2>2, <2>3, <2>4
<1>20. ASSUME NEW p \in Peers, Accept(p)
       PROVE  FALSE
  <2>1. UNCHANGED <<queue, proc>>
    BY <1>20 DEF Accept
  <2>2. PICK d \in Conns, fd \in Fds :
           /\ linkMap' = [linkMap EXCEPT ![fd] = d]
           /\ \A e \in Conns : e # d => conn'[e] = conn[e]
           /\ queue[d] = <<>> /\ Out \subseteq Out'
    BY <1>20, AcceptStep
  <2>3. c # d /\ conn'[c].fd = conn[c].fd /\ conn[c].fd \in Fds
    <3>1. c # d
      BY <1>3, <2>1, <2>2
    <3>2. conn[c] \in Sockets
      BY <1>2 DEF BusTypes
    <3> QED
      BY <1>3, <2>2, <3>1, <3>2 DEF Sockets
  <2>4. linkMap[conn[c].fd] = c
    BY <1>2, <1>3, <2>2, <2>3 DEF BusTypes
  <2> QED
    BY <1>3, <1>4, <2>1, <2>2, <2>3, <2>4
<1>21. ASSUME NEW d \in Conns, PeerClose(d)
       PROVE  FALSE
  <2>1. conn'[c].fd = conn[c].fd
    <3>1. conn[d] \in Sockets /\ conn' = [conn EXCEPT ![d] = [conn[d] EXCEPT !.hup = TRUE]]
      BY <1>2, <1>21 DEF PeerClose, BusTypes
    <3>2. [conn[d] EXCEPT !.hup = TRUE].fd = conn[d].fd
      BY <3>1 DEF Sockets
    <3> QED
      BY <1>2, <3>1, <3>2 DEF BusTypes
  <2> QED
    BY <1>6, <1>21, <2>1 DEF PeerClose
<1> QED
  BY <1>7, <1>8, <1>9, <1>10, <1>11, <1>12, <1>13, <1>14, <1>15, <1>16, <1>17, <1>18, <1>19,
     <1>20, <1>21, Zenon DEF Next, Step, Worker

(* poll goes on for a descriptor without a link only when DoNodeReg        *)
(* registers it after the clean-up, and a message that DoNodeSend queued   *)
(* is without EV_OUT only when OnSend removed it after its test.           *)
THEOREM PollerAndLinksAgree == Spec => PollerAgrees
<1>1. BusInv /\ [Next]_vars => [OnlyLateRegisterSpins /\ OnlyRemoveStrands]_vars
  BY SpinsStep, StrandsStep
<1> QED
  BY <1>1, BusInvariance, PTL DEF Spec, PollerAgrees
=============================================================================
