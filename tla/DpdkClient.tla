------------------------------ MODULE DpdkClient ------------------------------
(***************************************************************************)
(* The dataplane translation layer of metalnet (src/dpdk/client.go): the   *)
(* Client calls for interfaces, virtual IPs, alias prefixes and routes,    *)
(* each one RPC to dp-service, the rendering of addresses into the wire    *)
(* messages and the parsing of the answers.                                *)
(*                                                                         *)
(* The caller (the reconcilers, not under src/) issues any call at any     *)
(* time.  dp-service stores what it is sent, as text, and answers with a   *)
(* status code; a call may fail in transport before or after the service   *)
(* applied it.                                                             *)
(***************************************************************************)
EXTENDS Naturals

CONSTANTS
    UIDs,        \* interface UIDs
    NoUID,       \* the empty InterfaceID
    VNIs,
    Devices,
    V4Addrs,     \* IPv4 addresses
    V6Addrs,     \* IPv6 addresses
    NoAddr,      \* the zero netip.Addr (IsValid() false)
    Underlays,   \* underlay addresses dp-service assigns
    Lens,        \* prefix lengths
    None,        \* dp-service holds no such object
    MaxFailures  \* bound on calls failing in transport

Addrs == V4Addrs \cup V6Addrs

\* A netip.Addr is its bits, most significant first: 32 for IPv4 and 128
\* for IPv6.
ASSUME AddrAssumption ==
    /\ V4Addrs \subseteq [1..32 -> {0, 1}]
    /\ V6Addrs \subseteq [1..128 -> {0, 1}]
    /\ V4Addrs \cap V6Addrs = {}
    /\ NoAddr \notin Addrs
    /\ Underlays \subseteq Addrs
    /\ NoUID \notin UIDs
    /\ Lens \subseteq Nat
ASSUME BoundAssumption == MaxFailures \in Nat

-----------------------------------------------------------------------------
(* Conversions.  Addr.String() of a valid address is its canonical text,  *)
(* which netip.ParseAddr maps back; the zero Addr renders as "invalid IP"  *)
(* and an unset bytes field is empty, neither of which parses.             *)
(* Prefix.String() is "addr/len", which is not an address either.          *)
AddrText(a) == IF a \in Addrs THEN <<"addr", a>> ELSE <<"invalid IP">>
PrefixString(a, l) == <<"prefix", a, l>>
Empty == <<"">>

\* netip.ParseAddr returns the zero Addr with its error.
ParseError == NoAddr
ParseAddr(t) == IF t[1] = "addr" THEN t[2] ELSE ParseError

ASSUME ParseAssumption == ParseError \notin Addrs

\* netipAddrToDPDKIPConfig: nil for an invalid address; the text dp-service
\* keeps of an IPConfig (empty when nil).
ConfigText(a) == IF a = NoAddr THEN Empty ELSE AddrText(a)

Texts == {AddrText(a) : a \in Addrs \cup {NoAddr}} \cup {Empty}
    \cup {PrefixString(a, l) : a \in Addrs, l \in Lens}

\* The caller's objects.
IfaceSpecs == [vni : VNIs, dev : Devices, v4 : V4Addrs \cup {NoAddr},
               v6 : V6Addrs \cup {NoAddr}]
\* The bits of an address: Prefix(bits) fails beyond them.
MaxBits(a) == IF a \in V4Addrs THEN 32 ELSE 128

\* Addr.Prefix(l).Addr(): the address with every bit after the first l
\* cleared.
Mask(a, l) == [i \in DOMAIN a |-> IF i <= l THEN a[i] ELSE 0]

\* The address sets hold the network address of each of their prefixes.
ASSUME MaskAssumption ==
    \A a \in Addrs, l \in Lens :
        l <= MaxBits(a) => Mask(a, l) \in (IF a \in V4Addrs THEN V4Addrs ELSE V6Addrs)

\* netip.Prefix values: an address with a length it admits.
Prefixes == {p \in Addrs \X Lens : p[2] <= MaxBits(p[1])}
Routes == [vni : VNIs, prefix : Prefixes, nhVni : VNIs, nhAddr : Addrs]

\* What dp-service stores: the fields of the requests, as sent.
StoredIfaces == [vni : VNIs, dev : Devices, v4 : Texts, v6 : Texts,
                 underlay : Texts]
WireRoutes == [vni : VNIs, addr : Texts, len : Lens, nhVni : VNIs,
               nhAddr : Texts]

Errs == {"none", "status", "transport", "parse"}

VARIABLES
    ifaces,    \* dp-service: UID -> stored interface, or None
    vips,      \* dp-service: UID -> VIP address text, or None
    prefixes,  \* dp-service: UID -> set of <<address text, length>>
    routes,    \* dp-service: set of WireRoutes
    given,     \* UID -> the IfaceSpec dp-service stored the interface from
    wire,      \* the address fields of the last request sent
    ret,       \* the last call: [call, uid, err, val]
    failures

vars == <<ifaces, vips, prefixes, routes, given, wire, ret, failures>>

NoRet == [call |-> "none", uid |-> NoUID, err |-> "none", val |-> None]

Store == <<ifaces, vips, prefixes, routes, given>>

(* One call: either dp-service answers (the request applied by Applied,   *)
(* the client returning r), or the call fails in transport, the service   *)
(* having applied the request or not.                                      *)
Respond(Applied, r) ==
    \/ /\ Applied
       /\ ret' = r
       /\ UNCHANGED failures
    \/ /\ failures < MaxFailures
       /\ failures' = failures + 1
       /\ Applied \/ UNCHANGED Store
       /\ ret' = [r EXCEPT !.err = "transport", !.val = None]

Answer(call, u, err, val) == [call |-> call, uid |-> u, err |-> err, val |-> val]

\* A call dp-service answers with a non-zero status: a *StatusError.
Refused(call, u) == Respond(UNCHANGED Store, Answer(call, u, "status", None))

\* A successful answer whose fields the client parses.
Parsed(call, u, ok, val) ==
    Answer(call, u, IF ok THEN "none" ELSE "parse", IF ok THEN val ELSE None)

-----------------------------------------------------------------------------
(* Interfaces.                                                              *)

\* Mutant: the address fields returned unparsed.
GetInterfaceUnparsed(u) ==
    /\ wire' = {}
    /\ IF ifaces[u] = None THEN Refused("GetInterface", u)
       ELSE LET s == ifaces[u] IN
            Respond(UNCHANGED Store,
                    Answer("GetInterface", u, "none",
                           [vni |-> s.vni, dev |-> s.dev, v4 |-> s.v4,
                            v6 |-> s.v6]))

\* dpdkInterfaceToInterface: the IPv6 field is parsed from
\* GetPrimaryIPv4Address(), as the code does.
DpdkInterfaceToInterface(s) ==
    LET v4 == ParseAddr(s.v4)
        v6 == ParseAddr(s.v4)
        ul == ParseAddr(s.underlay)
    IN [ok |-> ParseError \notin {v4, v6, ul},
        val |-> [vni |-> s.vni, dev |-> s.dev, v4 |-> v4, v6 |-> v6]]

GetInterface(u) ==
    /\ wire' = {}
    /\ IF ifaces[u] = None THEN Refused("GetInterface", u)
       ELSE LET c == DpdkInterfaceToInterface(ifaces[u]) IN
            Respond(UNCHANGED Store, Parsed("GetInterface", u, c.ok, c.val))

\* CreateInterface: the spec is returned as given, with the parsed underlay.
CreateInterface(u, sp) ==
    /\ wire' = {ConfigText(sp.v4), ConfigText(sp.v6)} \ {Empty}
    /\ IF ifaces[u] # None THEN Refused("CreateInterface", u)
       ELSE \E ul \in Underlays :
              Respond(/\ ifaces' = [ifaces EXCEPT ![u] =
                            [vni |-> sp.vni, dev |-> sp.dev,
                             v4 |-> ConfigText(sp.v4), v6 |-> ConfigText(sp.v6),
                             underlay |-> AddrText(ul)]]
                      /\ given' = [given EXCEPT ![u] = sp]
                      /\ UNCHANGED <<vips, prefixes, routes>>,
                      Parsed("CreateInterface", u,
                             ParseAddr(AddrText(ul)) # ParseError, sp))

DeleteInterface(u) ==
    /\ wire' = {}
    /\ IF ifaces[u] = None THEN Refused("DeleteInterface", u)
       ELSE Respond(/\ ifaces' = [ifaces EXCEPT ![u] = None]
                    /\ vips' = [vips EXCEPT ![u] = None]
                    /\ prefixes' = [prefixes EXCEPT ![u] = {}]
                    /\ UNCHANGED <<routes, given>>,
                    Answer("DeleteInterface", u, "none", None))

-----------------------------------------------------------------------------
(* Virtual IPs.                                                             *)

\* The InterfaceID of the InterfaceVIPMsg CreateVirtualIP sends: never set.
VIPRequestID(u) == NoUID

\* CreateVirtualIP: AddInterfaceVIP for the interface the message names.
CreateVirtualIP(u, a) ==
    LET id == VIPRequestID(u) IN
    /\ wire' = {AddrText(a)}
    /\ IF id \notin UIDs THEN Refused("CreateVirtualIP", u)
       ELSE IF ifaces[id] = None \/ vips[id] # None
            THEN Refused("CreateVirtualIP", u)
       ELSE Respond(/\ vips' = [vips EXCEPT ![id] = AddrText(a)]
                    /\ UNCHANGED <<ifaces, prefixes, routes, given>>,
                    Answer("CreateVirtualIP", u, "none", a))

\* dpdkVirtualIPToVirtualIP
DpdkVirtualIPToVirtualIP(t) ==
    [ok |-> ParseAddr(t) # ParseError, val |-> ParseAddr(t)]

GetVirtualIP(u) ==
    /\ wire' = {}
    /\ IF vips[u] = None THEN Refused("GetVirtualIP", u)
       ELSE LET c == DpdkVirtualIPToVirtualIP(vips[u]) IN
            Respond(UNCHANGED Store, Parsed("GetVirtualIP", u, c.ok, c.val))

DeleteVirtualIP(u) ==
    /\ wire' = {}
    /\ IF vips[u] = None THEN Refused("DeleteVirtualIP", u)
       ELSE Respond(/\ vips' = [vips EXCEPT ![u] = None]
                    /\ UNCHANGED <<ifaces, prefixes, routes, given>>,
                    Answer("DeleteVirtualIP", u, "none", None))

-----------------------------------------------------------------------------
(* Alias prefixes.                                                          *)

\* Mutant: the parsed address kept as it is (netip.PrefixFrom), host bits
\* and all.
DpdkPrefixToPrefixUnmasked(t) ==
    LET a == ParseAddr(t[1]) IN
    [ok |-> a # ParseError /\ t[2] <= MaxBits(a),
     val |-> <<a, t[2]>>]

\* dpdkPrefixToPrefix over a stored <<address text, length>>: addr.Prefix
\* fails for a length beyond the address family's width and otherwise
\* clears the host bits.
DpdkPrefixToPrefix(t) ==
    LET a == ParseAddr(t[1]) IN
    [ok |-> a # ParseError /\ t[2] <= MaxBits(a),
     val |-> <<Mask(a, t[2]), t[2]>>]

\* ListPrefixes: one bad prefix fails the list.  The response's status is
\* never read: dp-service answers a listing of an interface it does not
\* hold with a non-zero status and no prefixes, which the client returns
\* as an empty list and no error.
ListPrefixes(u) ==
    /\ wire' = {}
    /\ Respond(UNCHANGED Store,
         Parsed("ListPrefixes", u,
                \A t \in prefixes[u] : DpdkPrefixToPrefix(t).ok,
                {DpdkPrefixToPrefix(t).val : t \in prefixes[u]}))

\* CreatePrefix sends Addr().String() and Bits().
CreatePrefix(u, p) ==
    LET t == <<AddrText(p[1]), p[2]>> IN
    /\ wire' = {t[1]}
    /\ IF ifaces[u] = None \/ t \in prefixes[u]
       THEN Refused("CreatePrefix", u)
       ELSE Respond(/\ prefixes' = [prefixes EXCEPT ![u] = @ \cup {t}]
                    /\ UNCHANGED <<ifaces, vips, routes, given>>,
                    Answer("CreatePrefix", u, "none", p))

DeletePrefix(u, p) ==
    LET t == <<AddrText(p[1]), p[2]>> IN
    /\ wire' = {t[1]}
    /\ IF t \notin prefixes[u] THEN Refused("DeletePrefix", u)
       ELSE Respond(/\ prefixes' = [prefixes EXCEPT ![u] = @ \ {t}]
                    /\ UNCHANGED <<ifaces, vips, routes, given>>,
                    Answer("DeletePrefix", u, "none", None))

-----------------------------------------------------------------------------
(* Routes.  The prefix's Address field is filled with Prefix.String().     *)
WireRoute(r) ==
    [vni |-> r.vni, addr |-> PrefixString(r.prefix[1], r.prefix[2]),
     len |-> r.prefix[2], nhVni |-> r.nhVni, nhAddr |-> AddrText(r.nhAddr)]

CreateRoute(r) ==
    /\ wire' = {WireRoute(r).addr, WireRoute(r).nhAddr}
    /\ IF WireRoute(r) \in routes THEN Refused("CreateRoute", NoUID)
       ELSE Respond(/\ routes' = routes \cup {WireRoute(r)}
                    /\ UNCHANGED <<ifaces, vips, prefixes, given>>,
                    Answer("CreateRoute", NoUID, "none", r))

DeleteRoute(r) ==
    /\ wire' = {WireRoute(r).addr, WireRoute(r).nhAddr}
    /\ IF WireRoute(r) \notin routes THEN Refused("DeleteRoute", NoUID)
       ELSE Respond(/\ routes' = routes \ {WireRoute(r)}
                    /\ UNCHANGED <<ifaces, vips, prefixes, given>>,
                    Answer("DeleteRoute", NoUID, "none", None))

-----------------------------------------------------------------------------
Init ==
    /\ ifaces = [u \in UIDs |-> None]
    /\ vips = [u \in UIDs |-> None]
    /\ prefixes = [u \in UIDs |-> {}]
    /\ routes = {}
    /\ given = [u \in UIDs |-> None]
    /\ wire = {}
    /\ ret = NoRet
    /\ failures = 0

Next ==
    \/ \E u \in UIDs :
         \/ GetInterface(u)
         \/ \E sp \in IfaceSpecs : CreateInterface(u, sp)
         \/ DeleteInterface(u)
         \/ \E a \in Addrs : CreateVirtualIP(u, a)
         \/ GetVirtualIP(u)
         \/ DeleteVirtualIP(u)
         \/ ListPrefixes(u)
         \/ \E p \in Prefixes : CreatePrefix(u, p) \/ DeletePrefix(u, p)
    \/ \E r \in Routes : CreateRoute(r) \/ DeleteRoute(r)

Spec == Init /\ [][Next]_vars

-----------------------------------------------------------------------------
(* Properties.                                                             *)

IfaceViews == [vni : VNIs, dev : Devices, v4 : Addrs, v6 : Addrs]
Calls == {"none", "GetInterface", "CreateInterface", "DeleteInterface",
          "CreateVirtualIP", "GetVirtualIP", "DeleteVirtualIP",
          "ListPrefixes", "CreatePrefix", "DeletePrefix",
          "CreateRoute", "DeleteRoute"}

\* What each call returns besides an error.
ValsOf(call) ==
    CASE call = "GetInterface" -> IfaceViews
      [] call = "CreateInterface" -> IfaceSpecs
      [] call \in {"CreateVirtualIP", "GetVirtualIP"} -> Addrs
      [] call = "ListPrefixes" -> SUBSET Prefixes
      [] call = "CreatePrefix" -> Prefixes
      [] call = "CreateRoute" -> Routes
      [] OTHER -> {}

TypeOK ==
    /\ ifaces \in [UIDs -> StoredIfaces \cup {None}]
    /\ vips \in [UIDs -> Texts \cup {None}]
    /\ prefixes \in [UIDs -> SUBSET (Texts \X Lens)]
    /\ routes \subseteq WireRoutes
    /\ given \in [UIDs -> IfaceSpecs \cup {None}]
    /\ wire \subseteq Texts
    /\ DOMAIN ret = {"call", "uid", "err", "val"}
    /\ ret.call \in Calls
    /\ ret.uid \in UIDs \cup {NoUID}
    /\ ret.err \in Errs
    /\ ret.val \in {None} \cup ValsOf(ret.call)
    /\ failures \in 0..MaxFailures

(* spec.md 4.1: a non-zero status of dp-service is turned into a status  *)
(* error and never silently swallowed, so ListPrefixes returns without     *)
(* error only for an interface dp-service holds.                           *)
ListStatusSurfaced ==
    ret.call = "ListPrefixes" /\ ret.err = "none" => ifaces[ret.uid] # None

(* spec.md 4.1: GetInterface returns the interface as it was created: the  *)
(* VNI, device and both primary addresses of the CreateInterface call      *)
(* that stored it.                                                         *)
InterfaceRoundTrip ==
    ret.call = "GetInterface" /\ ret.err = "none" =>
        LET sp == given[ret.uid] IN
        ret.val = [vni |-> sp.vni, dev |-> sp.dev, v4 |-> sp.v4, v6 |-> sp.v6]

(* spec.md 4.1: createVirtualIP attaches the VIP to the interface its      *)
(* metadata names: on an interface that exists and has no VIP yet, the     *)
(* call succeeds unless the transport fails.                               *)
VirtualIPAttached ==
    ret.call = "CreateVirtualIP" /\ ret.err # "transport" =>
        ret.err = "none" \/ ifaces[ret.uid] = None \/ vips[ret.uid] # None

(* spec.md 4.1: every address field of a request is the canonical text of *)
(* an address.                                                             *)
WireAddressesCanonical == \A t \in wire : t[1] = "addr"
-----------------------------------------------------------------------------
(* Refinement of AliasPrefixes.  An interface's alias prefixes are the     *)
(* masked forms (host bits cleared, as netip's Prefix.Masked) of the       *)
(* prefixes whose CreatePrefix rendering dp-service holds for it; the last *)
(* answer is a listing when ListPrefixes returned without a transport      *)
(* error.                                                                  *)
Masked(p) == <<Mask(p[1], p[2]), p[2]>>

AliasesOf ==
    [u \in UIDs |-> {Masked(p) : p \in {q \in Prefixes : <<AddrText(q[1]), q[2]>> \in prefixes[u]}}]

ListedOf ==
    IF ret.call = "ListPrefixes" /\ ret.err # "transport"
    THEN [uid |-> ret.uid, val |-> ret.val]
    ELSE None

Alias == INSTANCE AliasPrefixes
    WITH Pfx <- Prefixes, aliases <- AliasesOf, listed <- ListedOf, NoList <- None

(* The alias-prefix calls (CreatePrefix, DeletePrefix, DeleteInterface,   *)
(* ListPrefixes) implement the abstract per-interface prefix store: every  *)
(* call changes at most one prefix or drops one interface's prefixes, no   *)
(* other call touches them, and a listing returns exactly the store, each *)
(* prefix with its host bits cleared.                                      *)
AliasSpec == Alias!Spec
==============================================================================
