--------------------------- MODULE MCDpdkClient ---------------------------
(* Small instances of DpdkClient for TLC.  IPv4 has an address with a     *)
(* host bit under a /24 (bit 30) and the network address it masks to;      *)
(* IPv6 has one network address, under /24 and /64 alike.                  *)
EXTENDS DpdkClient

\* The address of width w whose bits at positions ones are set.
AddrBits(w, ones) == [i \in 1..w |-> IF i \in ones THEN 1 ELSE 0]

MCV4Addrs == {AddrBits(32, {1, 30}), AddrBits(32, {1})}
MCV6Addrs == {AddrBits(128, {1})}
MCUnderlays == {AddrBits(128, {1})}

\* The routes the caller passes: one, whose prefix has a host bit.
MCRoutes == [vni : VNIs, prefix : {<<AddrBits(32, {1, 30}), 24>>},
             nhVni : VNIs, nhAddr : MCUnderlays]
==============================================================================
