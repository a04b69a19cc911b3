------------------------- MODULE MetalbondConvergence -------------------------
(***************************************************************************)
(* Why the route realization engine converges: the inductive invariant    *)
(* behind ConvergedWhenQuiet and SuccessMeansRealized, and the conditions *)
(* on the topology under which they hold.                                  *)
(***************************************************************************)
EXTENDS MetalbondClientProofs

\* The VNIs a callback for k realizes into: its own and, for a STANDARD
\* route, every peer.
ScopeWith(k, ps) ==
    IF k[3].type = "STANDARD" THEN {k[1]} \cup ps ELSE {k[1]}

\* The table keys removeLocalRoute deletes for k in the VNIs S.
RemovedKeys(k, S) ==
    {<<r.tbl, r.key>> :
        r \in {q \in {RemoveLocalRoute(x, k[2], k[3]) : x \in S} :
                 q.kind = "rpc"}}

\* The table keys of the entries k calls for.
KeysOf(E) == {<<e.tbl, e.key>> : e \in E}

-----------------------------------------------------------------------------
(* The conditions of the theorems, on the constants.                       *)

\* GetPeerVnis before any change of the topology.
InitPeerSet(v) == IF PeerVnis[v] = Absent THEN {} ELSE PeerVnis[v]

\* The peering is fixed.
StaticTopology == Unpeerable = {}

\* Peering is mutual.
SymmetricPeers == \A v, p \in VNIs : p \in InitPeerSet(v) => v \in InitPeerSet(p)

\* RemoveRoute for k reaches a table key another key k2 calls for only if
\* k and k2 call for a common table key (they collide, and are never
\* pending together).  This excludes finding 2: removal toward a peer whose
\* allow-list filtered the route, where that peer owns the prefix.
Separated ==
    \A k, k2 \in Keys :
        /\ k # k2
        /\ RemovedKeys(k, ScopeWith(k, InitPeerSet(k[1])))
             \cap KeysOf(WantedWith(k2, InitPeerSet(k2[1]))) # {}
        => KeysOf(WantedWith(k, InitPeerSet(k[1])))
             \cap KeysOf(WantedWith(k2, InitPeerSet(k2[1]))) # {}

\* Together: the conditions under which the theorems hold.
Conditions ==
    /\ StaticTopology
    /\ SerialNextHopChange
    /\ SymmetricPeers
    /\ Separated

-----------------------------------------------------------------------------
(* The inductive invariant.                                                *)

Scope(k) == ScopeWith(k, PeerSet(k[1]))

\* What the running callback for k has already done: the entries an add
\* has put in place, the table keys a remove has cleared.
AddDone(k) ==
    {e \in Wanted(k) : e.tbl # "route" \/ e.key[1] \notin handler[k].todo}
RemoveDone(k) == RemovedKeys(k, Scope(k) \ handler[k].todo)

Running(k, op) ==
    handler[k].pc = "fanout" /\ handler[k].op = op /\ ~handler[k].err

\* The static part: the topology cache and the cleanup passes never move.
Static ==
    /\ peers = PeerVnis
    /\ cleaner = [v \in VNIs |-> IdleCleaner]

\* A running callback's operation is the key's current state, or the key is
\* dirty again.
OpCurrent ==
    \A k \in Keys : handler[k].pc = "fanout" =>
        /\ handler[k].op = "add" => k \in announced \/ k \in dirty
        /\ handler[k].op = "remove" => k \notin announced \/ k \in dirty

\* The peers a callback has still to visit.
TodoShape ==
    \A k \in Keys :
        /\ handler[k].todo \subseteq PeerSet(k[1])
        /\ handler[k].todo # {} => k[3].type = "STANDARD"

\* Colliding keys are never pending together.
Exclusive ==
    \A k, k2 \in Keys : ~(Pending(k) /\ Pending(k2) /\ Collide(k, k2))

\* Every entry is called for by a pending key.
Justified == \A e \in dp : \E k \in Keys : Pending(k) /\ e \in Wanted(k)

\* A settled announced key is realized.
Settled ==
    \A k \in announced :
        k \notin dirty /\ handler[k].pc = "idle" => Wanted(k) \subseteq dp

\* A running callback without error has done what it has visited.
AddProgress == \A k \in Keys : Running(k, "add") => AddDone(k) \subseteq dp
RemoveProgress ==
    \A k \in Keys : Running(k, "remove") =>
        \A e \in dp : <<e.tbl, e.key>> \notin RemoveDone(k)

(* The inductive invariant: the conjuncts above.  It strengthens          *)
(* ConvergedWhenQuiet (Justified and Settled) and SuccessMeansRealized    *)
(* (AddProgress and RemoveProgress) so that every step of the callbacks   *)
(* keeps it.                                                               *)
IInv ==
    /\ TypeOK
    /\ Static
    /\ OpCurrent
    /\ TodoShape
    /\ Exclusive
    /\ Justified
    /\ Settled
    /\ AddProgress
    /\ RemoveProgress
-----------------------------------------------------------------------------
(* dp-service's answer to one request.                                     *)

Entry(req) == [tbl |-> req.tbl, key |-> req.key, val |-> req.val]

(* A create adds its entry unless an entry holds the table key already.   *)
LEMMA ApplyCreate ==
    ASSUME NEW req, req.verb = "create"
    PROVE  Apply(req) = IF Present(req.tbl, req.key) THEN dp
                        ELSE dp \cup {Entry(req)}
BY DEF Apply, Status, ExistsCode, Entry

(* A delete clears the table key, whatever status it gets.                *)
LEMMA ApplyDelete ==
    ASSUME NEW req, req.verb = "delete"
    PROVE  Apply(req) = {e \in dp : ~(e.tbl = req.tbl /\ e.key = req.key)}
<1>1. CASE Present(req.tbl, req.key)
  BY <1>1 DEF Apply, Status
<1>2. CASE ~Present(req.tbl, req.key)
  <2>1. Status(req) # "OK"
    BY <1>2 DEF Status, MissingCode
  <2>2. QED BY <1>2, <2>1 DEF Apply, Present
<1>3. QED BY <1>1, <1>2

(* A call changes dp only at the table key of its request, and only an    *)
(* RPC changes it.                                                         *)
LEMMA ExecFrame ==
    ASSUME NEW req, NEW ok, Exec(req, ok),
           req.kind = "rpc" => req.verb \in {"create", "delete"}
    PROVE  /\ req.kind # "rpc" => dp' = dp
           /\ \A e : ~(e.tbl = req.tbl /\ e.key = req.key) =>
                  (e \in dp' <=> e \in dp)
           /\ dp' \subseteq dp \cup {Entry(req)}
           /\ req.kind = "rpc" /\ req.verb = "create" => dp \subseteq dp'
           /\ req.kind = "rpc" /\ req.verb = "delete" => dp' \subseteq dp
           /\ ok /\ req.kind = "rpc" => dp' = Apply(req)
<1>1. dp' = dp \/ (req.kind = "rpc" /\ dp' = Apply(req))
  BY DEF Exec
<1>2. CASE req.kind = "rpc" /\ req.verb = "create" /\ dp' = Apply(req)
  BY <1>2, ApplyCreate DEF Entry, Exec
<1>3. CASE req.kind = "rpc" /\ req.verb = "delete" /\ dp' = Apply(req)
  BY <1>3, ApplyDelete DEF Exec
<1>4. CASE dp' = dp
  BY <1>4, <1>1 DEF Exec
<1>5. QED BY <1>1, <1>2, <1>3, <1>4
-----------------------------------------------------------------------------
(* The requests a callback for key k issues into VNI x.                    *)

AddReq(k, x) ==
    IF x = k[1] THEN AddLocalRoute(k[1], k[1], k[2], k[3])
    ELSE PeerRequest("add", k[1], x, k[2], k[3])

RemReq(k, x) == RemoveLocalRoute(x, k[2], k[3])

\* The entry of Wanted(k) that realizing k into x yields.
ForVni(e, k, x) == IF e.tbl = "route" THEN e.key[1] = x ELSE x = k[1]

(* Realizing k into x is a skip, a failure or the create of the entry of  *)
(* Wanted(k) for x, whose "exists" status is ignored; and every entry of  *)
(* Wanted(k) for x is so created.                                          *)
LEMMA AddReqShape ==
    ASSUME NEW k \in Keys, NEW ps \in SUBSET VNIs, k[1] \notin ps,
           NEW x \in ScopeWith(k, ps)
    PROVE  /\ AddReq(k, x).kind \in {"skip", "fail", "rpc"}
           /\ AddReq(k, x).kind = "rpc" =>
                 /\ AddReq(k, x).verb = "create"
                 /\ Entry(AddReq(k, x)) \in WantedWith(k, ps)
                 /\ ForVni(Entry(AddReq(k, x)), k, x)
                 /\ ExistsCode(AddReq(k, x).tbl) \in AddReq(k, x).ignore
           /\ \A e \in WantedWith(k, ps) :
                 ForVni(e, k, x) =>
                    AddReq(k, x).kind = "rpc" /\ Entry(AddReq(k, x)) = e
<1> DEFINE v == k[1]
<1> DEFINE d == k[2]
<1> DEFINE h == k[3]
<1>1. v \in VNIs /\ d \in Dests /\ h \in Hops /\ k = <<v, d, h>>
  BY KeysAssumption
<1>2. PeeredPrefixes[v] \in [VNIs -> (SUBSET Dests) \cup {Unfiltered}]
  BY <1>1, PeerAssumption
<1>3. CASE IPv4Only /\ d \notin V4Dests
  <2>1. WantedWith(k, ps) = {}
    BY <1>3 DEF WantedWith
  <2>2. AddReq(k, x) \in {Fail, Skip}
    BY <1>3 DEF AddReq, AddLocalRoute, PeerRequest
  <2>3. QED BY <2>1, <2>2 DEF Fail, Skip
<1>4. CASE ~(IPv4Only /\ d \notin V4Dests) /\ h.type = "STANDARD"
  <2>1. CASE x = v
    <3>2. AddReq(k, x) = Rpc("create", "route", <<v, d>>, <<v, h.addr>>,
                             {"ROUTE_EXISTS"})
      BY <1>4, <2>1 DEF AddReq, AddLocalRoute
    <3>3. WantedWith(k, ps) =
            {[tbl |-> "route", key |-> <<y, d>>, val |-> <<v, h.addr>>] :
               y \in {v} \cup {p \in ps : \/ PeeredPrefixes[v][p] = Unfiltered
                                          \/ d \in PeeredPrefixes[v][p]}}
      BY <1>4 DEF WantedWith
    <3>4. QED BY <2>1, <3>2, <3>3 DEF Rpc, Entry, ForVni, ExistsCode
  <2>5. CASE x # v
    <3>6. x \in ps
      BY <1>4, <2>5 DEF ScopeWith
    <3>7. CASE PeeredPrefixes[v][x] = Unfiltered \/ d \in PeeredPrefixes[v][x]
      <4>1. AddReq(k, x) = Rpc("create", "route", <<x, d>>, <<v, h.addr>>,
                               {"ROUTE_EXISTS"})
        BY <1>4, <2>5, <3>7 DEF AddReq, PeerRequest, PeerAllowed, AddLocalRoute
      <4>2. QED BY <1>4, <2>5, <3>6, <3>7, <4>1
                DEF WantedWith, Rpc, Entry, ForVni, ExistsCode
    <3>8. CASE ~(PeeredPrefixes[v][x] = Unfiltered \/ d \in PeeredPrefixes[v][x])
      <4>1. AddReq(k, x) = Skip
        BY <1>4, <2>5, <3>8 DEF AddReq, PeerRequest, PeerAllowed
      <4>2. \A e \in WantedWith(k, ps) : ~ForVni(e, k, x)
        BY <1>4, <2>5, <3>8 DEF WantedWith, ForVni
      <4>3. QED BY <4>1, <4>2 DEF Skip
    <3>9. QED BY <3>7, <3>8
  <2>10. QED BY <2>1, <2>5
<1>5. CASE ~(IPv4Only /\ d \notin V4Dests) /\ h.type # "STANDARD"
  <2>1. x = v
    BY <1>5 DEF ScopeWith
  <2>2. CASE h.type = "NAT"
    <3>3. AddReq(k, x) = Rpc("create", "nat", <<d, v, h.ports>>, h.addr,
                             {"ALREADY_EXISTS"})
      BY <1>5, <2>1, <2>2 DEF AddReq, AddLocalRoute
    <3>4. WantedWith(k, ps) =
            {[tbl |-> "nat", key |-> <<d, v, h.ports>>, val |-> h.addr]}
      BY <1>5, <2>2 DEF WantedWith
    <3>5. QED BY <2>1, <3>3, <3>4 DEF Rpc, Entry, ForVni, ExistsCode
  <2>6. CASE h.type = "LOADBALANCER_TARGET"
    <3>7. AddReq(k, x) =
            IF LBServer[v][d] = NoLB THEN Fail
            ELSE IF h.addr \notin PreferredNetwork THEN Skip
            ELSE Rpc("create", "lb", <<LBServer[v][d], h.addr>>, NoVal,
                     {"ALREADY_EXISTS"})
      BY <1>5, <2>1, <2>6 DEF AddReq, AddLocalRoute, InPreferredNetwork
    <3>8. WantedWith(k, ps) =
            IF LBServer[v][d] = NoLB \/ h.addr \notin PreferredNetwork
            THEN {}
            ELSE {[tbl |-> "lb", key |-> <<LBServer[v][d], h.addr>>,
                   val |-> NoVal]}
      BY <1>5, <2>6 DEF WantedWith
    <3>9. QED BY <2>1, <3>7, <3>8 DEF Rpc, Fail, Skip, Entry, ForVni, ExistsCode
  <2>9. h.type \in {"NAT", "LOADBALANCER_TARGET"}
    BY <1>1, <1>5 DEF Hops, HopTypes
  <2>10. QED BY <2>2, <2>6, <2>9
<1>6. QED BY <1>3, <1>4, <1>5

(* Removing k from x is a failure or the delete of one table key, whose   *)
(* "not found" statuses are all ignored.                                   *)
LEMMA RemReqShape ==
    ASSUME NEW k \in Keys, NEW x \in VNIs
    PROVE  /\ RemReq(k, x).kind \in {"fail", "rpc"}
           /\ RemReq(k, x).kind = "rpc" =>
                 /\ RemReq(k, x).verb = "delete"
                 /\ <<RemReq(k, x).tbl, RemReq(k, x).key>> \in RemovedKeys(k, {x})
<1>1. k[3] \in Hops
  BY KeysAssumption
<1>2. QED BY <1>1 DEF RemReq, RemoveLocalRoute, Rpc, Fail, RemovedKeys, Hops, HopTypes

(* Distinct entries k calls for have distinct table keys.                 *)
LEMMA WantedFunctional ==
    ASSUME NEW k \in Keys, NEW ps, NEW e1 \in WantedWith(k, ps),
           NEW e2 \in WantedWith(k, ps), e1.tbl = e2.tbl, e1.key = e2.key
    PROVE  e1 = e2
BY DEF WantedWith

(* RemoveRoute for k clears every table key k calls for.                  *)
LEMMA WantedKeysRemoved ==
    ASSUME NEW k \in Keys, NEW ps \in SUBSET VNIs
    PROVE  KeysOf(WantedWith(k, ps)) \subseteq RemovedKeys(k, ScopeWith(k, ps))
<1> DEFINE v == k[1]
<1> DEFINE d == k[2]
<1> DEFINE h == k[3]
<1>1. v \in VNIs /\ d \in Dests /\ h \in Hops
  BY KeysAssumption
<1>2. CASE IPv4Only /\ d \notin V4Dests
  BY <1>2 DEF WantedWith, KeysOf
<1>3. CASE ~(IPv4Only /\ d \notin V4Dests) /\ h.type = "STANDARD"
  <2>1. SUFFICES ASSUME NEW x \in {v} \cup ps
                 PROVE  <<"route", <<x, d>>>> \in RemovedKeys(k, ScopeWith(k, ps))
    BY <1>3 DEF WantedWith, KeysOf
  <2>2. RemoveLocalRoute(x, d, h) = Rpc("delete", "route", <<x, d>>, NoVal,
                                        {"NO_VNI", "ROUTE_NOT_FOUND"})
    BY <1>3 DEF RemoveLocalRoute
  <2>3. x \in ScopeWith(k, ps)
    BY <1>3 DEF ScopeWith
  <2>4. QED BY <2>2, <2>3 DEF RemovedKeys, Rpc
<1>4. CASE ~(IPv4Only /\ d \notin V4Dests) /\ h.type = "NAT"
  <2>1. RemoveLocalRoute(v, d, h) = Rpc("delete", "nat", <<d, v, h.ports>>,
                                        h.addr, {"NOT_FOUND"})
    BY <1>4 DEF RemoveLocalRoute
  <2>2. v \in ScopeWith(k, ps)
    BY DEF ScopeWith
  <2>3. QED BY <1>4, <2>1, <2>2 DEF WantedWith, KeysOf, RemovedKeys, Rpc
<1>5. CASE ~(IPv4Only /\ d \notin V4Dests) /\ h.type = "LOADBALANCER_TARGET"
  <2>1. CASE LBServer[v][d] = NoLB \/ h.addr \notin PreferredNetwork
    BY <1>5, <2>1 DEF WantedWith, KeysOf
  <2>2. CASE ~(LBServer[v][d] = NoLB \/ h.addr \notin PreferredNetwork)
    <3>1. RemoveLocalRoute(v, d, h) =
            Rpc("delete", "lb", <<LBServer[v][d], h.addr>>, NoVal,
                {"NOT_FOUND", "NO_BACKIP", "NO_LB"})
      BY <1>5, <2>2 DEF RemoveLocalRoute
    <3>2. v \in ScopeWith(k, ps)
      BY DEF ScopeWith
    <3>3. QED BY <1>5, <2>2, <3>1, <3>2 DEF WantedWith, KeysOf, RemovedKeys, Rpc
  <2>3. QED BY <2>1, <2>2
<1>6. QED BY <1>1, <1>2, <1>3, <1>4, <1>5 DEF Hops, HopTypes
-----------------------------------------------------------------------------
(* Under the conditions: what a key's requests can do to another key's     *)
(* entries.                                                                *)

(* With the topology fixed, GetPeerVnis returns the configured peer set.  *)
LEMMA PeerSetStatic ==
    ASSUME peers = PeerVnis, NEW v \in VNIs
    PROVE  /\ PeerSet(v) = InitPeerSet(v)
           /\ PeerSet(v) \subseteq VNIs
           /\ v \notin PeerSet(v)
BY PeerAssumption DEF PeerSet, InitPeerSet

(* A step that leaves the cache alone leaves what every key calls for.    *)
LEMMA WantedStatic ==
    ASSUME peers' = peers
    PROVE  /\ \A k \in Keys : Wanted(k)' = Wanted(k) /\ Scope(k)' = Scope(k)
           /\ \A k, k2 \in Keys : Collide(k, k2)' = Collide(k, k2)
BY DEF Wanted, PeerSet, Scope, Collide

(* Two keys that do not collide call for disjoint table keys, and the     *)
(* removal of one clears none of the other's (Separated).                 *)
LEMMA NoInterference ==
    ASSUME Separated, peers = PeerVnis, NEW k \in Keys, NEW k2 \in Keys,
           k # k2, ~Collide(k, k2)
    PROVE  /\ KeysOf(Wanted(k)) \cap KeysOf(Wanted(k2)) = {}
           /\ RemovedKeys(k, Scope(k)) \cap KeysOf(Wanted(k2)) = {}
<1>1. KeysOf(Wanted(k)) \cap KeysOf(Wanted(k2)) = {}
  BY DEF Collide, KeysOf
<1>2. /\ Wanted(k) = WantedWith(k, InitPeerSet(k[1]))
      /\ Wanted(k2) = WantedWith(k2, InitPeerSet(k2[1]))
      /\ Scope(k) = ScopeWith(k, InitPeerSet(k[1]))
  BY KeysAssumption, PeerSetStatic DEF Wanted, Scope
<1>3. QED BY <1>1, <1>2 DEF Separated

(* Two keys pending together agree on every table key they share with dp. *)
LEMMA DpAgrees ==
    ASSUME Exclusive, Justified, NEW k \in Keys, Pending(k),
           NEW e \in Wanted(k), NEW e2 \in dp, e2.tbl = e.tbl, e2.key = e.key
    PROVE  e2 = e
<1>1. PICK k2 \in Keys : Pending(k2) /\ e2 \in Wanted(k2)
  BY DEF Justified
<1>2. CASE k2 = k
  BY <1>1, <1>2, WantedFunctional DEF Wanted
<1>3. CASE k2 # k
  <2>1. Collide(k, k2)
    BY <1>1, <1>3 DEF Collide
  <2>2. QED BY <1>1, <2>1 DEF Exclusive
<1>4. QED BY <1>2, <1>3

\* The request a callback for k with operation op issues into VNI x.
Req(k, op, x) == IF op = "add" THEN AddReq(k, x) ELSE RemReq(k, x)

(* Every request a callback issues is a skip, a failure, a create or a    *)
(* delete, and the entries it can add are ones its key calls for.          *)
LEMMA ReqShape ==
    ASSUME Static, NEW k \in Keys, NEW op \in {"add", "remove"},
           NEW x \in Scope(k)
    PROVE  /\ x \in VNIs
           /\ Req(k, op, x).kind = "rpc" =>
                 Req(k, op, x).verb \in {"create", "delete"}
           /\ Req(k, op, x).kind \in {"skip", "fail", "rpc"}
           /\ op = "add" /\ Req(k, op, x).kind = "rpc" =>
                 /\ Req(k, op, x).verb = "create"
                 /\ Entry(Req(k, op, x)) \in Wanted(k)
           /\ op = "remove" /\ Req(k, op, x).kind = "rpc" =>
                 /\ Req(k, op, x).verb = "delete"
                 /\ <<Req(k, op, x).tbl, Req(k, op, x).key>>
                       \in RemovedKeys(k, Scope(k))
<1>1. k[1] \in VNIs /\ PeerSet(k[1]) \subseteq VNIs /\ k[1] \notin PeerSet(k[1])
  BY KeysAssumption, PeerSetStatic DEF Static
<1>2. x \in VNIs /\ x \in ScopeWith(k, PeerSet(k[1]))
  BY <1>1 DEF Scope, ScopeWith
<1>3. CASE op = "add"
  BY <1>1, <1>2, <1>3, AddReqShape DEF Req, Wanted
<1>4. CASE op = "remove"
  <2>1. RemovedKeys(k, {x}) \subseteq RemovedKeys(k, Scope(k))
    BY DEF RemovedKeys
  <2>2. QED BY <1>2, <1>4, <2>1, RemReqShape DEF Req
<1>5. QED BY <1>3, <1>4

(* A request of k adds only entries k calls for.                          *)
LEMMA NewEntries ==
    ASSUME Static, NEW k \in Keys, NEW op \in {"add", "remove"},
           NEW x \in Scope(k), NEW ok, Exec(Req(k, op, x), ok)
    PROVE  dp' \subseteq dp \cup Wanted(k)
<1>1. Req(k, op, x).kind = "rpc" => Req(k, op, x).verb \in {"create", "delete"}
  BY ReqShape
<1>2. CASE op = "add" /\ Req(k, op, x).kind = "rpc"
  BY <1>1, <1>2, ReqShape, ExecFrame
<1>3. CASE op = "remove" /\ Req(k, op, x).kind = "rpc"
  BY <1>1, <1>3, ReqShape, ExecFrame
<1>4. CASE Req(k, op, x).kind # "rpc"
  BY <1>1, <1>4, ExecFrame
<1>5. QED BY <1>2, <1>3, <1>4

(* A request of k leaves every entry of a key k2 it does not collide with *)
(* as it was, and adds none that k2's removal clears.                     *)
LEMMA OtherKeyFrame ==
    ASSUME Static, Separated, NEW k \in Keys, NEW k2 \in Keys, k # k2,
           ~Collide(k, k2), ~Collide(k2, k),
           NEW op \in {"add", "remove"}, NEW x \in Scope(k),
           NEW ok, Exec(Req(k, op, x), ok)
    PROVE  /\ \A e \in Wanted(k2) : e \in dp' <=> e \in dp
           /\ \A e \in dp' :
                 <<e.tbl, e.key>> \in RemovedKeys(k2, Scope(k2)) => e \in dp
<1> DEFINE req == Req(k, op, x)
<1>1. req.kind = "rpc" => req.verb \in {"create", "delete"}
  BY ReqShape
<1>2. /\ KeysOf(Wanted(k)) \cap KeysOf(Wanted(k2)) = {}
      /\ RemovedKeys(k, Scope(k)) \cap KeysOf(Wanted(k2)) = {}
      /\ RemovedKeys(k2, Scope(k2)) \cap KeysOf(Wanted(k)) = {}
  BY NoInterference DEF Static
<1>3. CASE req.kind # "rpc"
  BY <1>1, <1>3, ExecFrame
<1>4. CASE op = "add" /\ req.kind = "rpc"
  <2>1. req.verb = "create" /\ Entry(req) \in Wanted(k)
    BY <1>4, ReqShape
  <2>2. <<req.tbl, req.key>> \notin KeysOf(Wanted(k2))
        /\ <<req.tbl, req.key>> \notin RemovedKeys(k2, Scope(k2))
    BY <1>2, <2>1 DEF KeysOf, Entry
  <2>3. \A e \in Wanted(k2) : ~(e.tbl = req.tbl /\ e.key = req.key)
    BY <2>2 DEF KeysOf
  <2>4. QED BY <1>1, <2>1, <2>2, <2>3, ExecFrame DEF Entry
<1>5. CASE op = "remove" /\ req.kind = "rpc"
  <2>1. req.verb = "delete"
        /\ <<req.tbl, req.key>> \in RemovedKeys(k, Scope(k))
    BY <1>5, ReqShape
  <2>2. \A e \in Wanted(k2) : ~(e.tbl = req.tbl /\ e.key = req.key)
    BY <1>2, <2>1 DEF KeysOf
  <2>3. QED BY <1>1, <1>5, <2>1, <2>2, ExecFrame
<1>6. QED BY <1>3, <1>4, <1>5

(* An add of k into x that returns nil leaves k's entry for x in place:   *)
(* created, or found already there, and then equal to it.                  *)
LEMMA OwnAdd ==
    ASSUME Static, Exclusive, Justified, NEW k \in Keys, Pending(k),
           NEW x \in Scope(k), Exec(Req(k, "add", x), TRUE)
    PROVE  {e \in Wanted(k) : ForVni(e, k, x)} \subseteq dp'
<1> DEFINE req == Req(k, "add", x)
<1>1. SUFFICES ASSUME NEW e \in Wanted(k), ForVni(e, k, x)
               PROVE  e \in dp'
  OBVIOUS
<1>2. k[1] \in VNIs /\ PeerSet(k[1]) \subseteq VNIs /\ k[1] \notin PeerSet(k[1])
  BY KeysAssumption, PeerSetStatic DEF Static
<1>3. req.kind = "rpc" /\ req.verb = "create" /\ Entry(req) = e
  BY <1>1, <1>2, AddReqShape DEF Req, Wanted, Scope
<1>4. dp' = Apply(req)
  BY <1>3, ExecFrame
<1>5. CASE Present(req.tbl, req.key)
  <2>1. PICK e2 \in dp : e2.tbl = e.tbl /\ e2.key = e.key
    BY <1>3, <1>5 DEF Present, Entry
  <2>2. e2 = e
    BY <2>1, DpAgrees
  <2>3. QED BY <1>3, <1>4, <1>5, <2>1, <2>2, ApplyCreate
<1>6. CASE ~Present(req.tbl, req.key)
  BY <1>3, <1>4, <1>6, ApplyCreate
<1>7. QED BY <1>5, <1>6

(* A remove of k from x that returns nil leaves none of the table keys it *)
(* clears.                                                                 *)
LEMMA OwnRemove ==
    ASSUME NEW k \in Keys, NEW x \in VNIs, Exec(Req(k, "remove", x), TRUE)
    PROVE  \A e \in dp' : <<e.tbl, e.key>> \notin RemovedKeys(k, {x})
<1> DEFINE req == Req(k, "remove", x)
<1>1. req = RemReq(k, x)
  BY DEF Req
<1>2. req.kind = "rpc" /\ req.verb = "delete"
  <2>1. RemReq(k, x).kind \in {"fail", "rpc"}
        /\ (RemReq(k, x).kind = "rpc" => RemReq(k, x).verb = "delete")
    BY RemReqShape
  <2>2. Exec(req, TRUE)
    OBVIOUS
  <2>3. req.kind # "fail"
    BY <2>2 DEF Exec
  <2>4. QED BY <1>1, <2>1, <2>3
<1>3. RemovedKeys(k, {x}) = {<<req.tbl, req.key>>}
  BY <1>1, <1>2 DEF RemovedKeys, RemReq
<1>4. dp' = {e \in dp : ~(e.tbl = req.tbl /\ e.key = req.key)}
  BY <1>2, ExecFrame, ApplyDelete
<1>5. QED BY <1>3, <1>4
-----------------------------------------------------------------------------
(* The inductive invariant, action by action.                              *)

(* The cleanup pass finds nothing stale: every route of v in dp goes to v *)
(* itself or to a VNI that v is peered with, by the symmetry of peering.  *)
LEMMA NoStale ==
    ASSUME SymmetricPeers, Static, Justified, NEW v \in VNIs
    PROVE  {e \in dp : e.tbl = "route" /\ e.key[1] = v
                       /\ NotPeered(v, e.val[1])} = {}
<1>1. SUFFICES ASSUME NEW e \in dp, e.tbl = "route", e.key[1] = v,
                      NotPeered(v, e.val[1])
               PROVE  FALSE
  OBVIOUS
<1>2. PICK k \in Keys : Pending(k) /\ e \in Wanted(k)
  BY DEF Justified
<1>3. k[1] \in VNIs /\ PeerSet(k[1]) = InitPeerSet(k[1])
  BY KeysAssumption, PeerSetStatic DEF Static
<1>4. e.val[1] = k[1] /\ (e.key[1] = k[1] \/ e.key[1] \in InitPeerSet(k[1]))
  BY <1>1, <1>2, <1>3 DEF Wanted, WantedWith
<1>5. CASE e.key[1] = k[1]
  BY <1>1, <1>4, <1>5 DEF NotPeered
<1>6. CASE e.key[1] \in InitPeerSet(k[1])
  <2>1. k[1] \in InitPeerSet(v)
    BY <1>1, <1>3, <1>6 DEF SymmetricPeers
  <2>2. QED BY <1>1, <1>4, <2>1 DEF NotPeered, InitPeerSet, Static
<1>7. QED BY <1>4, <1>5, <1>6

(* Announce adds a key that collides with no pending key.                 *)
LEMMA AnnounceIInv ==
    ASSUME Conditions, IInv, NEW k \in Keys, Announce(k)
    PROVE  IInv'
<1>1. TypeOK'
  BY NextTypeOK DEF IInv, Next
<1>2. /\ \A j \in Keys : Wanted(j)' = Wanted(j) /\ Scope(j)' = Scope(j)
      /\ \A j, j2 \in Keys : Collide(j, j2)' = Collide(j, j2)
  BY WantedStatic DEF Announce
<1>3. \A j \in Keys : Pending(j)' <=> Pending(j) \/ j = k
  BY DEF Pending, Announce
<1>4. Static' /\ OpCurrent' /\ TodoShape'
  BY DEF IInv, Static, OpCurrent, TodoShape, PeerSet, Announce
<1>5. Exclusive'
  <2>1. \A j \in Keys : ~(Collide(k, j) /\ Pending(j))
    BY DEF Conditions, Announce
  <2>2. \A j \in Keys : Collide(j, k) => Collide(k, j)
    BY DEF Collide
  <2>3. SUFFICES ASSUME NEW j \in Keys, NEW j2 \in Keys, Pending(j)',
                        Pending(j2)', Collide(j, j2)
                 PROVE  FALSE
    BY <1>2 DEF Exclusive
  <2>8. j # j2
    BY <2>3 DEF Collide
  <2>4. CASE j = k
    <3>1. Pending(j2)
      BY <1>3, <2>3, <2>4, <2>8
    <3>2. QED BY <2>1, <2>3, <2>4, <3>1
  <2>5. CASE j2 = k
    <3>1. Pending(j)
      BY <1>3, <2>3, <2>5, <2>8
    <3>2. Collide(k, j)
      BY <2>2, <2>3, <2>5
    <3>3. QED BY <2>1, <3>1, <3>2
  <2>6. CASE j # k /\ j2 # k
    BY <1>3, <2>3, <2>6 DEF IInv, Exclusive
  <2>7. QED BY <2>4, <2>5, <2>6
<1>6. Justified'
  BY <1>2, <1>3 DEF IInv, Justified, Announce
<1>7. Settled'
  <2>1. SUFFICES ASSUME NEW j \in announced', j \notin dirty',
                        handler'[j].pc = "idle"
                 PROVE  Wanted(j)' \subseteq dp'
    BY DEF Settled
  <2>2. j \in announced /\ j \notin dirty /\ handler[j].pc = "idle" /\ j \in Keys
    BY <2>1 DEF Announce, IInv, TypeOK
  <2>3. QED BY <1>2, <2>2 DEF IInv, Settled, Announce
<1>8. AddProgress' /\ RemoveProgress'
  BY <1>2 DEF IInv, AddProgress, RemoveProgress, AddDone, RemoveDone,
              Running, Announce
<1>9. QED BY <1>1, <1>4, <1>5, <1>6, <1>7, <1>8 DEF IInv

(* Withdraw keeps the key pending, as dirty.                               *)
LEMMA WithdrawIInv ==
    ASSUME IInv, NEW k \in Keys, Withdraw(k)
    PROVE  IInv'
<1>1. TypeOK'
  BY NextTypeOK DEF IInv, Next
<1>2. /\ \A j \in Keys : Wanted(j)' = Wanted(j) /\ Scope(j)' = Scope(j)
      /\ \A j, j2 \in Keys : Collide(j, j2)' = Collide(j, j2)
  BY WantedStatic DEF Withdraw
<1>3. \A j \in Keys : Pending(j)' <=> Pending(j)
  BY DEF Pending, Withdraw
<1>4. Static' /\ OpCurrent' /\ TodoShape'
  BY DEF IInv, Static, OpCurrent, TodoShape, PeerSet, Withdraw
<1>5. Exclusive' /\ Justified'
  BY <1>2, <1>3 DEF IInv, Exclusive, Justified, Withdraw
<1>6. Settled'
  <2>1. SUFFICES ASSUME NEW j \in announced', j \notin dirty',
                        handler'[j].pc = "idle"
                 PROVE  Wanted(j)' \subseteq dp'
    BY DEF Settled
  <2>2. j \in announced /\ j \notin dirty /\ handler[j].pc = "idle" /\ j \in Keys
    BY <2>1 DEF Withdraw, IInv, TypeOK
  <2>3. QED BY <1>2, <2>2 DEF IInv, Settled, Withdraw
<1>7. AddProgress' /\ RemoveProgress'
  BY <1>2 DEF IInv, AddProgress, RemoveProgress, AddDone, RemoveDone,
              Running, Withdraw
<1>8. QED BY <1>1, <1>4, <1>5, <1>6, <1>7 DEF IInv

(* A cleanup pass lists nothing stale and stays idle.                     *)
LEMMA CleanupListIInv ==
    ASSUME Conditions, IInv, NEW v \in VNIs, CleanupList(v)
    PROVE  IInv'
<1>1. TypeOK'
  BY NextTypeOK, SMTT(20) DEF IInv, Next
<1>2. /\ \A j \in Keys : Wanted(j)' = Wanted(j) /\ Scope(j)' = Scope(j)
      /\ \A j, j2 \in Keys : Collide(j, j2)' = Collide(j, j2)
  BY WantedStatic, SMTT(20) DEF CleanupList
<1>3. cleaner' = cleaner
  <2>1. {e \in dp : e.tbl = "route" /\ e.key[1] = v
                    /\ NotPeered(v, e.val[1])} = {}
    BY NoStale DEF Conditions, IInv
  <2>2. cleaner[v] = IdleCleaner /\ cleaner \in [VNIs -> Cleaners]
    BY DEF IInv, Static, TypeOK
  <2>3. QED BY <2>1, <2>2 DEF CleanupList
<1>4. Static' /\ OpCurrent' /\ TodoShape'
  BY <1>3 DEF IInv, Static, OpCurrent, TodoShape, PeerSet, CleanupList
<1>5. \A j \in Keys : Pending(j)' <=> Pending(j)
  BY DEF Pending, CleanupList
<1>6. Exclusive' /\ Justified'
  BY <1>2, <1>5 DEF IInv, Exclusive, Justified, CleanupList
<1>7. Settled'
  <2>1. SUFFICES ASSUME NEW j \in announced', j \notin dirty',
                        handler'[j].pc = "idle"
                 PROVE  Wanted(j)' \subseteq dp'
    BY DEF Settled
  <2>2. j \in announced /\ j \notin dirty /\ handler[j].pc = "idle" /\ j \in Keys
    BY <2>1 DEF CleanupList, IInv, TypeOK
  <2>3. QED BY <1>2, <2>2 DEF IInv, Settled, CleanupList
<1>8. AddProgress' /\ RemoveProgress'
  BY <1>2 DEF IInv, AddProgress, RemoveProgress, AddDone, RemoveDone,
              Running, CleanupList
<1>9. QED BY <1>1, <1>4, <1>6, <1>7, <1>8 DEF IInv

(* No peering is revoked, and no cleanup pass is deleting.                *)
LEMMA DisabledSteps ==
    ASSUME Conditions, IInv
    PROVE  /\ \A v, p \in VNIs : ~Unpeer(v, p)
           /\ \A v \in VNIs, e \in RouteEntries : ~CleanupDelete(v, e)
BY DEF Conditions, StaticTopology, Unpeer, CleanupDelete, IInv, Static,
       IdleCleaner

(* RemoveRoute for k, over its whole scope, clears what k calls for.      *)
LEMMA WantedRemoved ==
    ASSUME Static, NEW k \in Keys
    PROVE  KeysOf(Wanted(k)) \subseteq RemovedKeys(k, Scope(k))
<1>1. PeerSet(k[1]) \subseteq VNIs
  BY KeysAssumption, PeerSetStatic DEF Static
<1>2. QED BY <1>1, WantedKeysRemoved DEF Wanted, Scope

(* A callback that returns nil has done its whole operation.               *)
LEMMA FinishedDone ==
    ASSUME IInv, NEW k \in Keys, handler[k].pc = "fanout",
           handler[k].todo = {}, ~handler[k].err
    PROVE  /\ handler[k].op = "add" => Wanted(k) \subseteq dp
           /\ handler[k].op = "remove" => Wanted(k) \cap dp = {}
<1>1. handler[k].op = "add" => Wanted(k) \subseteq dp
  BY DEF IInv, AddProgress, Running, AddDone
<1>2. ASSUME handler[k].op = "remove" PROVE Wanted(k) \cap dp = {}
  <2>1. \A e \in dp : <<e.tbl, e.key>> \notin RemovedKeys(k, Scope(k))
    BY <1>2, Zenon DEF IInv, RemoveProgress, Running, RemoveDone
  <2>2. KeysOf(Wanted(k)) \subseteq RemovedKeys(k, Scope(k))
    BY WantedRemoved DEF IInv
  <2>3. QED BY <2>1, <2>2 DEF KeysOf
<1>3. QED BY <1>1, <1>2

(* Finish returns the callback; a key it leaves unpending has none of its *)
(* entries left, and a key it leaves settled has all of them.             *)
LEMMA FinishIInv ==
    ASSUME IInv, NEW k \in Keys, Finish(k)
    PROVE  IInv'
<1>1. TypeOK'
  BY NextTypeOK DEF IInv, Next
<1>2. /\ \A j \in Keys : Wanted(j)' = Wanted(j) /\ Scope(j)' = Scope(j)
      /\ \A j, j2 \in Keys : Collide(j, j2)' = Collide(j, j2)
  BY WantedStatic DEF Finish
<1>3. /\ handler'[k] = IdleHandler
      /\ \A j \in Keys \ {k} : handler'[j] = handler[j]
  BY DEF Finish, IInv, TypeOK
<1>4. \A j \in Keys \ {k} : Pending(j)' <=> Pending(j)
  BY <1>3 DEF Pending, Finish
<1>5. Pending(k)' => Pending(k)
  BY DEF Pending, Finish
<1>6. handler[k].op \in {"add", "remove"}
  BY DEF IInv, TypeOK, Handlers
<1>7. Static' /\ OpCurrent' /\ TodoShape'
  BY <1>3 DEF IInv, Static, OpCurrent, TodoShape, PeerSet, Finish, IdleHandler
<1>8. Exclusive'
  BY <1>2, <1>4, <1>5 DEF IInv, Exclusive
<1>9. Justified'
  <2>1. SUFFICES ASSUME NEW e \in dp'
                 PROVE  \E j \in Keys : Pending(j)' /\ e \in Wanted(j)'
    BY SMTT(20) DEF Justified
  <2>2. PICK j \in Keys : Pending(j) /\ e \in Wanted(j)
    BY <2>1 DEF IInv, Justified, Finish
  <2>3. CASE j # k
    BY <1>2, <1>4, <2>2, <2>3
  <2>4. CASE j = k
    <3>1. SUFFICES Pending(k)'
      BY <1>2, <2>2, <2>4
    <3>2. SUFFICES ASSUME k \notin announced, k \notin dirty, ~handler[k].err
                   PROVE  FALSE
      BY DEF Pending, Finish
    <3>3. handler[k].op = "remove"
      BY <1>6, <3>2 DEF IInv, OpCurrent, Finish
    <3>4. Wanted(k) \cap dp = {}
      BY <3>2, <3>3, FinishedDone DEF Finish
    <3>5. QED BY <2>2, <2>4, <3>4 DEF Finish
  <2>5. QED BY <2>3, <2>4
<1>10. Settled'
  <2>1. SUFFICES ASSUME NEW j \in announced', j \notin dirty',
                        handler'[j].pc = "idle"
                 PROVE  Wanted(j)' \subseteq dp'
    BY DEF Settled
  <2>2. j \in Keys
    BY <2>1 DEF IInv, TypeOK, Finish
  <2>3. CASE j # k
    BY <1>2, <1>3, <2>1, <2>2, <2>3 DEF IInv, Settled, Finish
  <2>4. CASE j = k
    <3>1. k \in announced /\ k \notin dirty /\ ~handler[k].err
      BY <2>1, <2>4 DEF Finish
    <3>2. handler[k].op = "add"
      BY <1>6, <3>1 DEF IInv, OpCurrent, Finish
    <3>3. QED BY <1>2, <2>4, <3>1, <3>2, FinishedDone DEF Finish
  <2>5. QED BY <2>3, <2>4
<1>11. AddProgress' /\ RemoveProgress'
  <2>1. \A j \in Keys \ {k} : AddDone(j)' = AddDone(j) /\ RemoveDone(j)' = RemoveDone(j)
    BY <1>2, <1>3 DEF AddDone, RemoveDone
  <2>2. ~Running(k, "add")' /\ ~Running(k, "remove")'
    BY <1>3 DEF Running, IdleHandler
  <2>3. \A j \in Keys \ {k} : Running(j, "add")' = Running(j, "add")
                              /\ Running(j, "remove")' = Running(j, "remove")
    BY <1>3 DEF Running
  <2>4. QED BY <2>1, <2>2, <2>3 DEF IInv, AddProgress, RemoveProgress, Finish
<1>12. QED BY <1>1, <1>7, <1>8, <1>9, <1>10, <1>11 DEF IInv

(* Only a STANDARD key calls for routes, in its own VNI and its peers.    *)
LEMMA RouteEntriesOf ==
    ASSUME NEW k \in Keys, NEW ps, NEW e \in WantedWith(k, ps), e.tbl = "route"
    PROVE  k[3].type = "STANDARD" /\ e.key[1] \in {k[1]} \cup ps
BY DEF WantedWith

(* After the callback's first call (into its own VNI), what it has done   *)
(* is what that call does.                                                 *)
LEMMA DeliverDone ==
    ASSUME NEW k \in Keys, NEW ps, k[1] \notin ps
    PROVE  LET T == IF k[3].type = "STANDARD" THEN ps ELSE {} IN
           /\ {e \in WantedWith(k, ps) : e.tbl # "route" \/ e.key[1] \notin T}
                 \subseteq {e \in WantedWith(k, ps) : ForVni(e, k, k[1])}
           /\ ScopeWith(k, ps) \ T = {k[1]}
<1>1. ASSUME NEW e \in WantedWith(k, ps), e.tbl = "route",
             e.key[1] \notin (IF k[3].type = "STANDARD" THEN ps ELSE {})
      PROVE  ForVni(e, k, k[1])
  BY <1>1, RouteEntriesOf DEF ForVni
<1>2. QED BY <1>1 DEF ForVni, ScopeWith

(* One more peer visited adds what the call into that peer does.          *)
LEMMA FanoutDone ==
    ASSUME NEW k, NEW E, NEW S, NEW T, NEW p
    PROVE  /\ {e \in E : e.tbl # "route" \/ e.key[1] \notin T \ {p}}
                 \subseteq {e \in E : e.tbl # "route" \/ e.key[1] \notin T}
                           \cup {e \in E : ForVni(e, k, p)}
           /\ RemovedKeys(k, S \ (T \ {p}))
                 \subseteq RemovedKeys(k, S \ T) \cup RemovedKeys(k, {p})
<1>1. {e \in E : e.tbl # "route" \/ e.key[1] \notin T \ {p}}
          \subseteq {e \in E : e.tbl # "route" \/ e.key[1] \notin T}
                    \cup {e \in E : ForVni(e, k, p)}
  BY DEF ForVni
<1>2. RemovedKeys(k, S \ (T \ {p}))
          \subseteq RemovedKeys(k, S \ T) \cup RemovedKeys(k, {p})
  BY DEF RemovedKeys
<1>3. QED BY <1>1, <1>2
==============================================================================
