---------------------------- MODULE MCSocketLink ----------------------------
EXTENDS SocketLink, TLC

MCCalls ==
    [type : {"RECV"}, len : {1}]
    \cup [type : {"RECV_LINE", "POLL", "SEND", "CLOSE"}, len : {0}]
MCOldBits == {{"IN"}, {"OUT"}}
MCStream == <<"n", "f">>
=============================================================================
