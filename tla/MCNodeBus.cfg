\* Two peers, two processes, two descriptors and two connections.  A
\* process whose close was not answered, and a bus without connections left,
\* may stop: no check for deadlock.
CONSTANTS
    Peers = {p, q}
    Procs = {x, y}
    NoPeer = NoPeer
    Fds = {1, 2}
    MaxConns = 2
    MaxQueue = 1
SPECIFICATION Spec
CHECK_DEADLOCK FALSE
INVARIANT TypeOK
PROPERTIES RouteLeads RouteKept PollerAgrees LinksServed
