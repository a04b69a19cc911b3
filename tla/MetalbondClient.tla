--------------------------- MODULE MetalbondClient ---------------------------
(***************************************************************************)
(* The route realization engine of metalnet (src/metalbond/               *)
(* metalbond_client.go): the AddRoute / RemoveRoute callbacks the          *)
(* metalbond route-propagation engine invokes, their single-network        *)
(* realization addLocalRoute / removeLocalRoute, and the fan-out of a      *)
(* STANDARD route to every peered VNI.                                     *)
(*                                                                         *)
(* The environment is modelled next to the code:                           *)
(*  - the protocol engine keeps the set of announced keys and re-delivers  *)
(*    a key whose callback failed or whose announcement changed (dirty);   *)
(*  - the dataplane service (dp-service) holds one table of entries for    *)
(*    routes, load-balancer targets and neighbour NATs, answers each RPC   *)
(*    atomically with a status code, and an RPC may fail in transport      *)
(*    either before or after the service applied it;                      *)
(*  - the topology cache: peerings may be revoked (both directions at     *)
(*    once); allow-lists and the LB registry are fixed.                    *)
(* CleanupNotPeeredRoutes runs periodically for every VNI.                 *)
(***************************************************************************)
EXTENDS Naturals

CONSTANTS
    VNIs,             \* virtual network identifiers
    Dests,            \* destination prefixes announced through metalbond
    V4Dests,          \* the IPv4 ones among them
    Addrs,            \* next-hop target (underlay) addresses
    PortRanges,       \* NAT port ranges [from, to)
    LBIds,            \* load-balancer UIDs
    NoLB,             \* GetLoadBalancerServer found nothing
    NoVal,            \* value of a table entry that carries none
    Unfiltered,       \* no peered-prefix allow-list for a peer
    Keys,             \* the <<vni, dest, hop>> triples the engine may announce
    PeerVnis,         \* GetPeerVnis initially: VNI -> set of peered VNIs
    Absent,           \* GetPeerVnis found no entry (ok = false)
    Unpeerable,       \* the <<vni, peer>> peerings that may be revoked
    AbsentWhenEmpty,  \* the cache drops a VNI's entry with its last peer
    PeeredPrefixes,   \* GetPeeredPrefixes: VNI -> peer -> allowed dests
    LBServer,         \* GetLoadBalancerServer: VNI -> dest -> LB UID
    PreferredNetwork, \* ClientOptions.PreferredNetwork as a set of addrs
    IPv4Only,         \* ClientOptions.IPv4Only
    SerialNextHopChange, \* a dest changes next hop only once the old one is realized
    MaxEvents,        \* bound on announcements and withdrawals
    MaxFailures       \* bound on RPCs failing in transport

HopTypes == {"STANDARD", "LOADBALANCER_TARGET", "NAT"}

\* mb.NextHop: type tag, TargetAddress and the NAT port range.
Hops == [type : HopTypes, addr : Addrs, ports : PortRanges]

ASSUME KeysAssumption == Keys \subseteq VNIs \X Dests \X Hops
ASSUME V4Assumption == V4Dests \subseteq Dests
ASSUME PeerAssumption ==
    /\ PeerVnis \in [VNIs -> SUBSET VNIs]
    /\ \A v \in VNIs : v \notin PeerVnis[v]
    /\ Unpeerable \subseteq VNIs \X VNIs
    /\ PeeredPrefixes \in [VNIs -> [VNIs -> (SUBSET Dests) \cup {Unfiltered}]]
ASSUME LBAssumption ==
    /\ NoLB \notin LBIds
    /\ LBServer \in [VNIs -> [Dests -> LBIds \cup {NoLB}]]
ASSUME ConfigAssumption ==
    /\ PreferredNetwork \subseteq Addrs
    /\ IPv4Only \in BOOLEAN
    /\ SerialNextHopChange \in BOOLEAN
    /\ AbsentWhenEmpty \in BOOLEAN
ASSUME BoundsAssumption == MaxEvents \in Nat /\ MaxFailures \in Nat

-----------------------------------------------------------------------------
(* The dataplane table.  A route is keyed by <<vni, prefix>> (dp-service  *)
(* keeps one next hop per prefix of a VNI) and carries <<nhVni, nhAddr>>; *)
(* an LB target is keyed by <<lbUID, targetIP>>; a neighbour NAT by        *)
(* <<natIP, vni, portRange>> and carries its underlay route.              *)
RouteEntries == [tbl : {"route"}, key : VNIs \X Dests, val : VNIs \X Addrs]
LBEntries == [tbl : {"lb"}, key : LBIds \X Addrs, val : {NoVal}]
NATEntries == [tbl : {"nat"}, key : Dests \X VNIs \X PortRanges, val : Addrs]
Entries == RouteEntries \cup LBEntries \cup NATEntries

(* What addLocalRoute / removeLocalRoute decide: no call and success       *)
(* (Skip), no call and an error (Fail), or one dataplane RPC with the      *)
(* status codes passed to dpdkerrors.Ignore.                               *)
Skip == [kind |-> "skip"]
Fail == [kind |-> "fail"]
Rpc(verb, tbl, key, val, ignore) ==
    [kind |-> "rpc", verb |-> verb, tbl |-> tbl, key |-> key, val |-> val,
     ignore |-> ignore]

VARIABLES
    announced,  \* keys the protocol engine currently holds as announced
    dirty,      \* keys whose announcement state awaits (re)delivery
    handler,    \* per key: the callback in progress
    dp,         \* the dataplane table, a set of Entries
    events,     \* announcements and withdrawals so far
    failures,   \* RPCs failed in transport so far
    peers,      \* the topology cache's peer set of each VNI, or Absent
    cleaner     \* per VNI: the CleanupNotPeeredRoutes pass in progress

vars == <<announced, dirty, handler, dp, events, failures, peers, cleaner>>

Handlers == [pc : {"idle", "fanout"}, op : {"add", "remove"},
             todo : SUBSET VNIs, err : BOOLEAN]

IdleHandler == [pc |-> "idle", op |-> "add", todo |-> {}, err |-> FALSE]

Cleaners == [pc : {"idle", "delete"}, todo : SUBSET RouteEntries]

IdleCleaner == [pc |-> "idle", todo |-> {}]

\* GetPeerVnis as AddRoute and RemoveRoute use it: the ok flag is dropped
\* and an absent entry reads as the empty set.
PeerSet(v) == IF peers[v] = Absent THEN {} ELSE peers[v]

-----------------------------------------------------------------------------
(* dp-service: the status an RPC gets and the table it leaves.            *)
Present(tbl, key) == \E e \in dp : e.tbl = tbl /\ e.key = key

ExistsCode(tbl) == IF tbl = "route" THEN "ROUTE_EXISTS" ELSE "ALREADY_EXISTS"

MissingCode(req) ==
    CASE req.tbl = "route" ->
            IF \E e \in dp : e.tbl = "route" /\ e.key[1] = req.key[1]
            THEN "ROUTE_NOT_FOUND" ELSE "NO_VNI"
      [] req.tbl = "lb" -> "NO_BACKIP"
      [] OTHER -> "NOT_FOUND"

Status(req) ==
    IF req.verb = "create"
    THEN IF Present(req.tbl, req.key) THEN ExistsCode(req.tbl) ELSE "OK"
    ELSE IF Present(req.tbl, req.key) THEN "OK" ELSE MissingCode(req)

Apply(req) ==
    IF Status(req) # "OK" THEN dp
    ELSE IF req.verb = "create"
         THEN dp \cup {[tbl |-> req.tbl, key |-> req.key, val |-> req.val]}
         ELSE {e \in dp : ~(e.tbl = req.tbl /\ e.key = req.key)}

(* One call as the client sees it: ok is FALSE when the call returns an   *)
(* error (a local verdict, a status code not ignored, a transport error). *)
(* A transport error may come before or after the service applied the     *)
(* request.                                                                *)
Exec(req, ok) ==
    \/ /\ req.kind = "skip"
       /\ ok
       /\ UNCHANGED <<dp, failures>>
    \/ /\ req.kind = "fail"
       /\ ~ok
       /\ UNCHANGED <<dp, failures>>
    \/ /\ req.kind = "rpc"
       /\ ok = (Status(req) \in {"OK"} \cup req.ignore)
       /\ dp' = Apply(req)
       /\ UNCHANGED failures
    \/ /\ req.kind = "rpc"
       /\ failures < MaxFailures
       /\ ~ok
       /\ dp' \in {dp, Apply(req)}
       /\ failures' = failures + 1

-----------------------------------------------------------------------------
(* metalbond_client.go: the client's decisions.                            *)
\* Mutant: PreferredNetwork.Contains treated as always true.
InPreferredNetworkAlways(a) == TRUE

InPreferredNetwork(a) == a \in PreferredNetwork

\* Mutant: the route's next hop built from the hop itself, not its address.
AddLocalRouteHopAsAddr(destVni, vni, d, h) ==
    IF IPv4Only /\ d \notin V4Dests THEN Fail
    ELSE CASE h.type = "LOADBALANCER_TARGET" ->
                IF LBServer[vni][d] = NoLB THEN Fail
                ELSE IF ~InPreferredNetwork(h.addr) THEN Skip
                ELSE Rpc("create", "lb", <<LBServer[vni][d], h.addr>>, NoVal,
                         {"ALREADY_EXISTS"})
           [] h.type = "NAT" ->
                Rpc("create", "nat", <<d, vni, h.ports>>, h.addr,
                    {"ALREADY_EXISTS"})
           [] OTHER ->
                Rpc("create", "route", <<vni, d>>, <<destVni, h>>,
                    {"ROUTE_EXISTS"})

\* Mutant: CreateRoute without dpdkerrors.Ignore(ROUTE_EXISTS).
AddLocalRouteNoIgnore(destVni, vni, d, h) ==
    IF IPv4Only /\ d \notin V4Dests THEN Fail
    ELSE CASE h.type = "LOADBALANCER_TARGET" ->
                IF LBServer[vni][d] = NoLB THEN Fail
                ELSE IF ~InPreferredNetwork(h.addr) THEN Skip
                ELSE Rpc("create", "lb", <<LBServer[vni][d], h.addr>>, NoVal,
                         {"ALREADY_EXISTS"})
           [] h.type = "NAT" ->
                Rpc("create", "nat", <<d, vni, h.ports>>, h.addr,
                    {"ALREADY_EXISTS"})
           [] OTHER ->
                Rpc("create", "route", <<vni, d>>, <<destVni, h.addr>>, {})

\* addLocalRoute(destVni, vni, dest, hop)
AddLocalRoute(destVni, vni, d, h) ==
    IF IPv4Only /\ d \notin V4Dests THEN Fail
    ELSE CASE h.type = "LOADBALANCER_TARGET" ->
                IF LBServer[vni][d] = NoLB THEN Fail
                ELSE IF ~InPreferredNetwork(h.addr) THEN Skip
                ELSE Rpc("create", "lb", <<LBServer[vni][d], h.addr>>, NoVal,
                         {"ALREADY_EXISTS"})
           [] h.type = "NAT" ->
                Rpc("create", "nat", <<d, vni, h.ports>>, h.addr,
                    {"ALREADY_EXISTS"})
           [] OTHER ->
                Rpc("create", "route", <<vni, d>>, <<destVni, h.addr>>,
                    {"ROUTE_EXISTS"})

\* removeLocalRoute(destVni, vni, dest, hop): destVni is unused by the code.
RemoveLocalRoute(vni, d, h) ==
    IF IPv4Only /\ d \notin V4Dests THEN Fail
    ELSE CASE h.type = "LOADBALANCER_TARGET" ->
                IF LBServer[vni][d] = NoLB THEN Fail
                ELSE Rpc("delete", "lb", <<LBServer[vni][d], h.addr>>, NoVal,
                         {"NOT_FOUND", "NO_BACKIP", "NO_LB"})
           [] h.type = "NAT" ->
                Rpc("delete", "nat", <<d, vni, h.ports>>, h.addr, {"NOT_FOUND"})
           [] OTHER ->
                Rpc("delete", "route", <<vni, d>>, NoVal,
                    {"NO_VNI", "ROUTE_NOT_FOUND"})

\* Mutant: the allow-list is not consulted.
PeerAllowedIgnoringList(vni, peer, d) == TRUE

\* AddRoute's allow-list check for one peer: default-allow without a list.
PeerAllowed(vni, peer, d) ==
    \/ PeeredPrefixes[vni][peer] = Unfiltered
    \/ d \in PeeredPrefixes[vni][peer]

\* The request AddRoute / RemoveRoute issue for one peer of the loop.
PeerRequest(op, vni, peer, d, h) ==
    IF op = "add"
    THEN IF PeerAllowed(vni, peer, d) THEN AddLocalRoute(vni, peer, d, h)
         ELSE Skip
    ELSE RemoveLocalRoute(peer, d, h)

-----------------------------------------------------------------------------
(* The protocol engine (environment).                                       *)

\* The entries spec.md section 4.2 requires for an announced key, given the
\* peer set ps of its VNI: the route in its VNI and in every peer whose
\* allow-list admits the dest; the LB target if registered and in the
\* preferred network; the NAT mapping.
WantedWith(k, ps) ==
    LET v == k[1]  d == k[2]  h == k[3] IN
    IF IPv4Only /\ d \notin V4Dests THEN {}
    ELSE CASE h.type = "STANDARD" ->
                {[tbl |-> "route", key |-> <<x, d>>, val |-> <<v, h.addr>>] :
                    x \in {v} \cup {p \in ps :
                                      \/ PeeredPrefixes[v][p] = Unfiltered
                                      \/ d \in PeeredPrefixes[v][p]}}
           [] h.type = "NAT" ->
                {[tbl |-> "nat", key |-> <<d, v, h.ports>>, val |-> h.addr]}
           [] OTHER ->
                IF LBServer[v][d] = NoLB \/ h.addr \notin PreferredNetwork
                THEN {}
                ELSE {[tbl |-> "lb", key |-> <<LBServer[v][d], h.addr>>,
                       val |-> NoVal]}

Wanted(k) == WantedWith(k, PeerSet(k[1]))

\* Two keys whose realized entries would share a table key: the same prefix
\* in one VNI with two next hops (ECMP, which dp-service's single next hop
\* per prefix cannot hold), or the same LB target or NAT mapping.
Collide(k1, k2) ==
    /\ k1 # k2
    /\ \E e1 \in Wanted(k1), e2 \in Wanted(k2) :
          e1.tbl = e2.tbl /\ e1.key = e2.key

\* A key the engine holds or has not finished realizing.  Colliding keys
\* are never announced at once; with SerialNextHopChange a key is only
\* announced once a colliding one's withdrawal has been realized.
Pending(k) == k \in announced \/ k \in dirty \/ handler[k].pc # "idle"

Announce(k) ==
    /\ k \notin announced
    /\ events < MaxEvents
    /\ \A k2 \in announced : ~Collide(k, k2)
    /\ SerialNextHopChange => \A k2 \in Keys : ~(Collide(k, k2) /\ Pending(k2))
    /\ announced' = announced \cup {k}
    /\ dirty' = dirty \cup {k}
    /\ events' = events + 1
    /\ UNCHANGED <<handler, dp, failures, peers, cleaner>>

Withdraw(k) ==
    /\ k \in announced
    /\ events < MaxEvents
    /\ announced' = announced \ {k}
    /\ dirty' = dirty \cup {k}
    /\ events' = events + 1
    /\ UNCHANGED <<handler, dp, failures, peers, cleaner>>

\* The peering of v and p is revoked in the cache, in both directions.  A
\* VNI left without peers keeps an empty entry or, if AbsentWhenEmpty,
\* loses its entry.
Unpeer(v, p) ==
    LET Shrunk(x) ==
            LET rest == PeerSet(x) \ {v, p}
            IN IF rest = {} /\ AbsentWhenEmpty THEN Absent ELSE rest
    IN /\ <<v, p>> \in Unpeerable
       /\ p \in PeerSet(v)
       /\ peers' = [x \in VNIs |-> IF x \in {v, p} THEN Shrunk(x) ELSE peers[x]]
       /\ UNCHANGED <<announced, dirty, handler, dp, events, failures, cleaner>>

-----------------------------------------------------------------------------
(* The callbacks.  Deliver is the engine invoking AddRoute or RemoveRoute  *)
(* for key k = <<vni, dest, hop>> and the callback's first call, the       *)
(* realization into vni itself; it then reads the peer set, which the      *)
(* loop visits in any order (UnsortedList).                                *)
Deliver(k) ==
    LET v == k[1]  d == k[2]  h == k[3]
        op == IF k \in announced THEN "add" ELSE "remove"
        req == IF op = "add" THEN AddLocalRoute(v, v, d, h)
               ELSE RemoveLocalRoute(v, d, h)
    IN /\ k \in dirty
       /\ handler[k].pc = "idle"
       /\ \E ok \in BOOLEAN :
            /\ Exec(req, ok)
            /\ handler' = [handler EXCEPT ![k] =
                   [pc |-> "fanout", op |-> op,
                    todo |-> IF h.type = "STANDARD" THEN PeerSet(v) ELSE {},
                    err |-> ~ok]]
       /\ dirty' = dirty \ {k}
       /\ UNCHANGED <<announced, events, peers, cleaner>>

\* Mutant: only the last peer's error is kept.
FanoutPeerLastError(k, p) ==
    LET v == k[1]  d == k[2]  h == k[3] IN
    /\ handler[k].pc = "fanout"
    /\ p \in handler[k].todo
    /\ \E ok \in BOOLEAN :
         /\ Exec(PeerRequest(handler[k].op, v, p, d, h), ok)
         /\ handler' = [handler EXCEPT ![k].todo = @ \ {p},
                                       ![k].err = ~ok]
    /\ UNCHANGED <<announced, dirty, events, peers, cleaner>>

\* One iteration of the peer loop: errors are collected, never short-circuit.
FanoutPeer(k, p) ==
    LET v == k[1]  d == k[2]  h == k[3] IN
    /\ handler[k].pc = "fanout"
    /\ p \in handler[k].todo
    /\ \E ok \in BOOLEAN :
         /\ Exec(PeerRequest(handler[k].op, v, p, d, h), ok)
         /\ handler' = [handler EXCEPT ![k].todo = @ \ {p},
                                       ![k].err = @ \/ ~ok]
    /\ UNCHANGED <<announced, dirty, events, peers, cleaner>>

\* The callback returns; a non-nil aggregate error makes the engine redeliver.
Finish(k) ==
    /\ handler[k].pc = "fanout"
    /\ handler[k].todo = {}
    /\ handler' = [handler EXCEPT ![k] = IdleHandler]
    /\ dirty' = IF handler[k].err THEN dirty \cup {k} ELSE dirty
    /\ UNCHANGED <<announced, dp, events, failures, peers,
                   cleaner>>

-----------------------------------------------------------------------------
(* CleanupNotPeeredRoutes(vni), invoked periodically for every VNI.  The   *)
(* ListRoutes call and the GetPeerVnis read are one step; the deletes of   *)
(* the routes it found stale follow one by one, each against the table as *)
(* it is by then, and the pass returns on the first error.                 *)

\* Mutant: the "not the local vni" half of the condition dropped.
NotPeeredWithLocal(v, nhVni) ==
    peers[v] # Absent /\ nhVni \notin peers[v]

\* The condition of line 269: not the local VNI, and the cache has a peer
\* set for v that lacks the route's next-hop VNI.
NotPeered(v, nhVni) ==
    nhVni # v /\ peers[v] # Absent /\ nhVni \notin peers[v]

CleanupList(v) ==
    LET stale == {e \in dp : e.tbl = "route" /\ e.key[1] = v
                             /\ NotPeered(v, e.val[1])}
    IN /\ cleaner[v].pc = "idle"
       /\ \/ /\ cleaner' = [cleaner EXCEPT ![v] =
                  IF stale = {} THEN IdleCleaner
                  ELSE [pc |-> "delete", todo |-> stale]]
             /\ UNCHANGED failures
          \/ /\ failures < MaxFailures
             /\ failures' = failures + 1
             /\ UNCHANGED cleaner
       /\ UNCHANGED <<announced, dirty, handler, dp, events, peers>>

\* One iteration of the delete loop: DeleteRoute by (vni, prefix).
CleanupDelete(v, e) ==
    /\ cleaner[v].pc = "delete"
    /\ e \in cleaner[v].todo
    /\ \E ok \in BOOLEAN :
         /\ Exec(Rpc("delete", "route", e.key, NoVal,
                     {"NO_VNI", "ROUTE_NOT_FOUND"}), ok)
         /\ cleaner' = [cleaner EXCEPT ![v] =
                IF ok /\ cleaner[v].todo # {e}
                THEN [pc |-> "delete", todo |-> cleaner[v].todo \ {e}]
                ELSE IdleCleaner]
    /\ UNCHANGED <<announced, dirty, handler, events, peers>>

-----------------------------------------------------------------------------
Init ==
    /\ announced = {}
    /\ dirty = {}
    /\ handler = [k \in Keys |-> IdleHandler]
    /\ dp = {}
    /\ events = 0
    /\ failures = 0
    /\ peers = PeerVnis
    /\ cleaner = [v \in VNIs |-> IdleCleaner]

Next ==
    \/ \E k \in Keys :
        \/ Announce(k)
        \/ Withdraw(k)
        \/ Deliver(k)
        \/ \E p \in VNIs : FanoutPeer(k, p)
        \/ Finish(k)
    \/ \E v, p \in VNIs : Unpeer(v, p)
    \/ \E v \in VNIs :
        \/ CleanupList(v)
        \/ \E e \in RouteEntries : CleanupDelete(v, e)

\* Each callback runs to completion and the engine delivers what is dirty;
\* the periodic cleanup pass keeps being invoked and runs to completion.
Fairness ==
    /\ \A k \in Keys :
        /\ WF_vars(Deliver(k))
        /\ WF_vars(\E p \in VNIs : FanoutPeer(k, p))
        /\ WF_vars(Finish(k))
    /\ \A v \in VNIs :
        /\ WF_vars(CleanupList(v))
        /\ WF_vars(\E e \in RouteEntries : CleanupDelete(v, e))

Spec == Init /\ [][Next]_vars /\ Fairness

-----------------------------------------------------------------------------
(* Properties.                                                             *)

TypeOK ==
    /\ announced \subseteq Keys
    /\ dirty \subseteq Keys
    /\ handler \in [Keys -> Handlers]
    /\ dp \subseteq Entries
    /\ events \in 0..MaxEvents
    /\ failures \in 0..MaxFailures
    /\ peers \in [VNIs -> (SUBSET VNIs) \cup {Absent}]
    /\ cleaner \in [VNIs -> Cleaners]

\* No callback is running and nothing awaits delivery.
Quiet == dirty = {} /\ \A k \in Keys : handler[k].pc = "idle"

Desired == UNION {Wanted(k) : k \in announced}

(* Once every callback has returned without error and nothing awaits       *)
(* redelivery, the dataplane holds exactly the entries the announced       *)
(* routes call for: nothing missing after partial failures and retries,    *)
(* nothing left over from withdrawn routes.  This is what AddRoute,        *)
(* RemoveRoute and the ignore-lists of addLocalRoute / removeLocalRoute    *)
(* must achieve together.                                                  *)
ConvergedWhenQuiet == Quiet => dp = Desired

(* Every change of announcements is eventually realized: the engine's      *)
(* redelivery of failed callbacks terminates once the environment stops,   *)
(* which needs every "already exists" / "not found" on replay to be        *)
(* absorbed by the ignore-lists.                                           *)
EventuallyQuiet == <>[]Quiet

(* Once announcements and peering changes stop, the dataplane comes to     *)
(* hold exactly the entries the announced routes call for under the       *)
(* current topology, and keeps holding them.  Routes fanned out to a peer *)
(* whose peering was revoked are out of RemoveRoute's reach; the periodic *)
(* CleanupNotPeeredRoutes pass must remove them, including those a        *)
(* fan-out that read the peer set before the revocation installs after    *)
(* the pass.                                                               *)
EventuallyConverged == <>[](dp = Desired)

(* The callback contract of spec.md section 4.2: when AddRoute returns nil *)
(* every entry the route calls for is in the dataplane, and when           *)
(* RemoveRoute returns nil none of them is left -- whatever peers failed   *)
(* on the way, and whatever other callbacks ran meanwhile.                 *)
SuccessMeansRealized ==
    [][\A k \in Keys :
         (handler[k].pc = "fanout" /\ handler'[k].pc = "idle"
             /\ ~handler[k].err)
         => IF handler[k].op = "add" THEN Wanted(k) \subseteq dp
            ELSE Wanted(k) \cap dp = {}]_vars
=============================================================================
