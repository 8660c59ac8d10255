SPECIFICATION Spec
CONSTANTS
    raw = raw
    gen = gen
    svc = svc
    Kids = {raw, gen, svc}
    Bound = {raw}
    Gen = {gen, svc}
    ByName = {svc}
    MaxRequests = 2
    MaxCrashes = 2
    MaxSpawns = 2
    MaxNaming = 2
CHECK_DEADLOCK FALSE
INVARIANTS NamesSound DeathNoticed 
PROPERTY DeathHandled
