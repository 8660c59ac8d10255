SPECIFICATION Spec
CONSTANTS
    Pids = {p0, p1}
    Main = p0
    Processors = {t1, t2}
    Devices = {d1}
    Clock = clk
    Nil = Nil
    Calls = {"spawn", "send", "recv", "recvTimeout", "request", "write", "sleep"}
    MaxCalls = 3
    MaxDeviceMsgs = 0
SYMMETRY ProcessorSymmetry
CHECK_DEADLOCK FALSE
INVARIANTS ScheduledOnce   OnlyStateReadDangles
