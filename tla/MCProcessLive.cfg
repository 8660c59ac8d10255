SPECIFICATION FairSpec
CONSTANTS
    Pids = {p0, p1}
    Main = p0
    Processors = {t1, t2}
    Devices = {d1}
    Clock = clk
    Nil = Nil
    Calls = {"spawn", "recvTimeout", "return", "sleep"}
    MaxCalls = 2
    MaxDeviceMsgs = 1
CHECK_DEADLOCK FALSE
PROPERTIES SendEnds WaitsEnd
