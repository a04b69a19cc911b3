------------------------- MODULE MCMetalbondClient -------------------------
(* Small instances of MetalbondClient for TLC.                              *)
EXTENDS MetalbondClient

CONSTANTS v1, v2, v3, d1, d2, a1, a2, r1, lb1

\* v1 is peered with v2 (no allow-list) and with v3 (allow-list {d1}).
MCPeerVnis == [v \in VNIs |-> IF v = v1 THEN {v2, v3} ELSE {v1}]
MCPeeredPrefixes ==
    [v \in VNIs |-> [p \in VNIs |->
        IF v = v1 /\ p = v3 THEN {d1} ELSE Unfiltered]]
\* v1 and v3 exchange only d1: both may own a d2 of their own.
MCPeeredPrefixesBoth ==
    [v \in VNIs |-> [p \in VNIs |->
        IF {v, p} = {v1, v3} THEN {d1} ELSE Unfiltered]]

\* The LB with VIP d1 is registered in v1 only.
MCLBServer == [v \in VNIs |-> [d \in Dests |->
                 IF v = v1 /\ d = d1 THEN lb1 ELSE NoLB]]

Std(a) == [type |-> "STANDARD", addr |-> a, ports |-> r1]
LBT(a) == [type |-> "LOADBALANCER_TARGET", addr |-> a, ports |-> r1]
NatHop(a) == [type |-> "NAT", addr |-> a, ports |-> r1]

\* Fan-out run: d1 passes v3's allow-list, d2 does not; d1 may move from
\* next hop a1 to a2; v2 may announce d2 itself.
FanoutKeys == {<<v1, d1, Std(a1)>>, <<v1, d1, Std(a2)>>,
               <<v1, d2, Std(a1)>>, <<v2, d2, Std(a2)>>}

\* Overlapping run: v1 and v3 both route d2, which their allow-lists keep
\* apart.
OverlapKeys == {<<v1, d2, Std(a1)>>, <<v3, d2, Std(a2)>>}

\* Unpeering run: v1 and v3 exchange d1 (v1 -> v3) and d2 (v3 -> v1) until
\* their peering is revoked; d1 may move from a1 to a2 meanwhile.
UnpeerKeys == {<<v1, d1, Std(a1)>>, <<v1, d1, Std(a2)>>, <<v3, d2, Std(a1)>>}

MCUnpeerable == {<<v1, v3>>}

\* Prefix reuse after unpeering: v3 comes to route d1 itself.
ReuseKeys == {<<v1, d1, Std(a1)>>, <<v3, d1, Std(a2)>>}

\* Next-hop kinds run: LB targets inside and outside the preferred
\* network, an LB VIP not registered in v2, a NAT mapping, an IPv6 dest.
KindKeys == {<<v1, d1, LBT(a1)>>, <<v1, d1, LBT(a2)>>, <<v2, d1, LBT(a1)>>,
             <<v1, d1, NatHop(a1)>>, <<v1, d2, Std(a1)>>}
==============================================================================
