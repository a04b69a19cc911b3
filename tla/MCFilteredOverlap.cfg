CONSTANTS
    v1 = v1  v2 = v2  v3 = v3  d1 = d1  d2 = d2  a1 = a1  a2 = a2  r1 = r1
    lb1 = lb1  NoLB = NoLB  NoVal = NoVal  Unfiltered = Unfiltered
    Absent = Absent  Unpeerable = {}  AbsentWhenEmpty = FALSE
    VNIs = {v1, v2, v3}
    Dests = {d1, d2}
    V4Dests = {d1, d2}
    Addrs = {a1, a2}
    PortRanges = {r1}
    LBIds = {lb1}
    PreferredNetwork = {a1, a2}
    IPv4Only = FALSE
    SerialNextHopChange = TRUE
    MaxEvents = 4
    MaxFailures = 1
    Keys <- OverlapKeys
    PeerVnis <- MCPeerVnis
    PeeredPrefixes <- MCPeeredPrefixesBoth
    LBServer <- MCLBServer
SPECIFICATION Spec
INVARIANT ConvergedWhenQuiet
CHECK_DEADLOCK FALSE
