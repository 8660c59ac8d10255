\* A worker and two clients on one queue of depth 1, with one private node.
\* A message of thread a takes three of the four pages, of the others one.
\* Threads may stop, killed or behind a lock whose holder was: no check for
\* deadlock.
CONSTANTS
    Threads = {w, a, b}
    Worker = w
    Nodes = 2
    Pages = 4
    MaxDepth = 1
    Catches = {0, 1}
    Size <- MCSize
    PutModes = {"wait", "timed"}
    GetModes = {"nowait", "timed"}
    MaxLurkers = 2
    Killable = {a}
    w = w
    a = a
    b = b
SPECIFICATION Spec
CHECK_DEADLOCK FALSE
INVARIANTS StockKept NoneForgotten
PROPERTIES OnlyTimeoutUndercounts CallsReturn
