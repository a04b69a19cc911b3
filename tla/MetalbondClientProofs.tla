----------------------- MODULE MetalbondClientProofs -----------------------
(* Machine-checked proofs about MetalbondClient.                           *)
EXTENDS MetalbondClient, TLAPS

\* A dataplane entry built from a request.
EntryOf(req) == [tbl |-> req.tbl, key |-> req.key, val |-> req.val]

(* Every request addLocalRoute / removeLocalRoute can issue for a key of   *)
(* the engine, into its own VNI or a peer, builds a well-typed entry.      *)
LEMMA RequestTyped ==
    ASSUME NEW v \in VNIs, NEW x \in VNIs, NEW d \in Dests, NEW h \in Hops,
           NEW op \in {"add", "remove"}
    PROVE  LET req == IF op = "add" THEN AddLocalRoute(v, x, d, h)
                      ELSE RemoveLocalRoute(x, d, h)
           IN  req.kind \in {"skip", "fail", "rpc"}
               /\ (req.kind = "rpc" =>
                     /\ req.verb \in {"create", "delete"}
                     /\ (req.verb = "create" => EntryOf(req) \in Entries))
<1> USE LBAssumption DEF Hops, HopTypes
<1>1. CASE op = "add"
  BY <1>1 DEF AddLocalRoute, Rpc, Skip, Fail, EntryOf, Entries,
              RouteEntries, LBEntries, NATEntries
<1>2. CASE op = "remove"
  BY <1>2 DEF RemoveLocalRoute, Rpc, Skip, Fail
<1>3. QED BY <1>1, <1>2

(* A step of the dataplane keeps its table well typed and the transport   *)
(* failure count within its bound.                                         *)
LEMMA ExecTyped ==
    ASSUME NEW req, NEW ok,
           dp \subseteq Entries, failures \in 0..MaxFailures,
           req.kind \in {"skip", "fail", "rpc"},
           req.kind = "rpc" => /\ req.verb \in {"create", "delete"}
                               /\ (req.verb = "create" => EntryOf(req) \in Entries),
           Exec(req, ok)
    PROVE  dp' \subseteq Entries /\ failures' \in 0..MaxFailures
<1>1. req.kind = "rpc" => Apply(req) \subseteq Entries
  BY DEF Apply, EntryOf
<1>2. QED BY <1>1, BoundsAssumption DEF Exec

(* GetPeerVnis as the callbacks read it is a set of VNIs.                  *)
LEMMA PeerSetTyped ==
    ASSUME peers \in [VNIs -> (SUBSET VNIs) \cup {Absent}], NEW v \in VNIs
    PROVE  PeerSet(v) \subseteq VNIs
BY DEF PeerSet

LEMMA InitTypeOK == Init => TypeOK
BY BoundsAssumption, PeerAssumption
DEF Init, TypeOK, IdleHandler, Handlers, IdleCleaner, Cleaners

LEMMA NextTypeOK == TypeOK /\ [Next]_vars => TypeOK'
<1> SUFFICES ASSUME TypeOK, [Next]_vars PROVE TypeOK'
  OBVIOUS
<1> USE DEF TypeOK
<1>1. ASSUME NEW k \in Keys, Announce(k) PROVE TypeOK'
  BY <1>1, BoundsAssumption DEF Announce
<1>2. ASSUME NEW k \in Keys, Withdraw(k) PROVE TypeOK'
  BY <1>2, BoundsAssumption DEF Withdraw
<1>3. ASSUME NEW k \in Keys, Deliver(k) PROVE TypeOK'
  <2> PICK v \in VNIs, d \in Dests, h \in Hops : k = <<v, d, h>>
    BY KeysAssumption
  <2> DEFINE op == IF k \in announced THEN "add" ELSE "remove"
             req == IF op = "add" THEN AddLocalRoute(v, v, d, h)
                    ELSE RemoveLocalRoute(v, d, h)
  <2> PICK ok \in BOOLEAN :
        /\ Exec(req, ok)
        /\ handler' = [handler EXCEPT ![k] =
               [pc |-> "fanout", op |-> op,
                todo |-> IF h.type = "STANDARD" THEN PeerSet(v) ELSE {},
                err |-> ~ok]]
    BY <1>3 DEF Deliver
  <2>1. dp' \subseteq Entries /\ failures' \in 0..MaxFailures
    BY RequestTyped, ExecTyped
  <2>2. handler' \in [Keys -> Handlers]
    BY PeerSetTyped DEF Handlers
  <2>3. QED BY <2>1, <2>2, <1>3 DEF Deliver
<1>4. ASSUME NEW k \in Keys, NEW p \in VNIs, FanoutPeer(k, p) PROVE TypeOK'
  <2> PICK v \in VNIs, d \in Dests, h \in Hops : k = <<v, d, h>>
    BY KeysAssumption
  <2> DEFINE hop == handler[k].op
             req == PeerRequest(hop, v, p, d, h)
  <2> PICK ok \in BOOLEAN :
        /\ Exec(req, ok)
        /\ handler' = [handler EXCEPT ![k].todo = @ \ {p},
                                      ![k].err = @ \/ ~ok]
    BY <1>4 DEF FanoutPeer
  <2>1. req.kind \in {"skip", "fail", "rpc"}
        /\ (req.kind = "rpc" =>
              /\ req.verb \in {"create", "delete"}
              /\ (req.verb = "create" => EntryOf(req) \in Entries))
    <3>1. CASE hop = "add" /\ ~PeerAllowed(v, p, d)
      BY <3>1 DEF PeerRequest, Skip
    <3>2. CASE hop = "add" /\ PeerAllowed(v, p, d)
      BY <3>2, RequestTyped DEF PeerRequest
    <3>3. CASE hop = "remove"
      BY <3>3, RequestTyped DEF PeerRequest
    <3>4. QED BY <3>1, <3>2, <3>3 DEF Handlers
  <2>2. dp' \subseteq Entries /\ failures' \in 0..MaxFailures
    BY <2>1, ExecTyped
  <2>3. handler' \in [Keys -> Handlers]
    <3>1. handler[k] \in Handlers
      OBVIOUS
    <3>2. [handler[k] EXCEPT !.todo = @ \ {p}, !.err = @ \/ ~ok] \in Handlers
      BY <3>1 DEF Handlers
    <3>3. QED BY <3>2
  <2>4. QED BY <2>2, <2>3, <1>4 DEF FanoutPeer
<1>5. ASSUME NEW k \in Keys, Finish(k) PROVE TypeOK'
  BY <1>5 DEF Finish, IdleHandler, Handlers
<1>6. CASE UNCHANGED vars
  BY <1>6 DEF vars
<1>7. ASSUME NEW v \in VNIs, NEW p \in VNIs, Unpeer(v, p) PROVE TypeOK'
  <2>1. \A x \in VNIs : PeerSet(x) \ {v, p} \subseteq VNIs
    BY PeerSetTyped
  <2>2. peers' \in [VNIs -> (SUBSET VNIs) \cup {Absent}]
    BY <1>7, <2>1 DEF Unpeer
  <2>3. QED BY <1>7, <2>2 DEF Unpeer
<1>8. ASSUME NEW v \in VNIs, CleanupList(v) PROVE TypeOK'
  <2> DEFINE stale == {e \in dp : e.tbl = "route" /\ e.key[1] = v
                                  /\ NotPeered(v, e.val[1])}
  <2>1. stale \subseteq RouteEntries
    BY DEF Entries, RouteEntries, LBEntries, NATEntries
  <2>2. cleaner' \in [VNIs -> Cleaners] /\ failures' \in 0..MaxFailures
    BY <1>8, <2>1, BoundsAssumption DEF CleanupList, Cleaners, IdleCleaner
  <2>3. QED BY <1>8, <2>2 DEF CleanupList
<1>9. ASSUME NEW v \in VNIs, NEW e \in RouteEntries, CleanupDelete(v, e)
      PROVE TypeOK'
  <2> DEFINE req == Rpc("delete", "route", e.key, NoVal,
                        {"NO_VNI", "ROUTE_NOT_FOUND"})
  <2> PICK ok \in BOOLEAN :
        /\ Exec(req, ok)
        /\ cleaner' = [cleaner EXCEPT ![v] =
               IF ok /\ cleaner[v].todo # {e}
               THEN [pc |-> "delete", todo |-> cleaner[v].todo \ {e}]
               ELSE IdleCleaner]
    BY <1>9 DEF CleanupDelete
  <2>1. dp' \subseteq Entries /\ failures' \in 0..MaxFailures
    BY ExecTyped DEF Rpc
  <2>2. cleaner' \in [VNIs -> Cleaners]
    BY DEF Cleaners, IdleCleaner
  <2>3. QED BY <1>9, <2>1, <2>2 DEF CleanupDelete
<1>10. QED BY <1>1, <1>2, <1>3, <1>4, <1>5, <1>6, <1>7, <1>8, <1>9 DEF Next

(* The model's state is always well typed: in particular every entry the  *)
(* client ever writes into the dataplane is a route, LB target or NAT      *)
(* entry over the constants, and the failure and event counters stay       *)
(* within their bounds, for every value of the constants.                  *)
THEOREM TypeCorrect == Spec => []TypeOK
BY InitTypeOK, NextTypeOK, PTL DEF Spec
==============================================================================
