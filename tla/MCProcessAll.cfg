SPECIFICATION Spec
CONSTANTS
    Pids = {p0, p1}
    Main = p0
    Processors = {t1, t2}
    Devices = {d1}
    Clock = clk
    Nil = Nil
    Calls = {"spawn", "send", "recv", "recvTimeout", "request", "sleep", "signal", "requestTimeout", "kill"}
    MaxCalls = 2
    MaxDeviceMsgs = 0
SYMMETRY ProcessorSymmetry
CHECK_DEADLOCK FALSE
INVARIANTS NoStrandedMsg AnsweredIsMapped NoneForgotten 
PROPERTIES BoxSpec OnlyBusySliceDropsTimeout
