SPECIFICATION Spec
CONSTANTS
    Procs = {p, q}
    Calls <- MCCalls
    Stream <- MCStream
    OldBits <- MCOldBits
    MaxCalls = 2
    SendLen = 2
    PageSize = 2
    Step = 1
CHECK_DEADLOCK FALSE
INVARIANTS  NoUseAfterDelete RequestsKept EmbraceOnlyAfterTimeout
PROPERTY RequestsEnd
