--------------------------- MODULE DpdkClientTypes ---------------------------
(***************************************************************************)
(* Type correctness of the dpdk client, for every set of UIDs, VNIs,       *)
(* devices, addresses and prefix lengths: dp-service only ever stores the  *)
(* texts the client renders, and every call returns a value of the type    *)
(* the Go signature promises, or nil.  The proof rests on the conversions: *)
(* a rendered address parses to an address or fails, never to anything    *)
(* else.                                                                   *)
(***************************************************************************)
EXTENDS DpdkClient, TLAPS

\* The dp-service half of TypeOK.
StoreOK ==
    /\ ifaces \in [UIDs -> StoredIfaces \cup {None}]
    /\ vips \in [UIDs -> Texts \cup {None}]
    /\ prefixes \in [UIDs -> SUBSET (Texts \X Lens)]
    /\ routes \subseteq WireRoutes
    /\ given \in [UIDs -> IfaceSpecs \cup {None}]

\* What a call returns: a call name, a UID, an error and a value of the
\* call's result type, or nil.
RetOK(x) ==
    /\ DOMAIN x = {"call", "uid", "err", "val"}
    /\ x.call \in Calls
    /\ x.uid \in UIDs \cup {NoUID}
    /\ x.err \in Errs
    /\ x.val \in {None} \cup ValsOf(x.call)

LEMMA TypeSplit ==
    TypeOK <=> /\ StoreOK /\ wire \subseteq Texts /\ RetOK(ret)
               /\ failures \in 0..MaxFailures
BY DEF TypeOK, StoreOK, RetOK

\* The result type of each call that returns a value.
LEMMA ValsOfCalls ==
    /\ ValsOf("GetInterface") = IfaceViews
    /\ ValsOf("CreateInterface") = IfaceSpecs
    /\ ValsOf("CreateVirtualIP") = Addrs
    /\ ValsOf("GetVirtualIP") = Addrs
    /\ ValsOf("ListPrefixes") = SUBSET Prefixes
    /\ ValsOf("CreatePrefix") = Prefixes
    /\ ValsOf("CreateRoute") = Routes
BY DEF ValsOf
-----------------------------------------------------------------------------
(* The conversions.                                                        *)

(* Addr.String() of an address is a text that netip.ParseAddr maps back.  *)
LEMMA AddrTextOK ==
    ASSUME NEW a \in Addrs
    PROVE  AddrText(a) \in Texts /\ ParseAddr(AddrText(a)) = a
<1>1. AddrText(a) = <<"addr", a>>
  BY DEF AddrText
<1>2. AddrText(a) \in {AddrText(b) : b \in Addrs \cup {NoAddr}}
  OBVIOUS
<1>3. QED BY <1>1, <1>2 DEF Texts, ParseAddr

(* netipAddrToDPDKIPConfig renders an address or the zero Addr as a text. *)
LEMMA ConfigTextOK ==
    ASSUME NEW a \in Addrs \cup {NoAddr}
    PROVE  ConfigText(a) \in Texts
BY DEF Texts, ConfigText

(* Parsing any text dp-service may hold yields an address or an error:   *)
(* "invalid IP", the empty field and "addr/len" all fail.                  *)
LEMMA ParseText ==
    ASSUME NEW t \in Texts
    PROVE  ParseAddr(t) \in Addrs \cup {ParseError}
<1>1. CASE \E a \in Addrs \cup {NoAddr} : t = AddrText(a)
  <2>1. PICK a \in Addrs \cup {NoAddr} : t = AddrText(a)
    BY <1>1
  <2>2. CASE a \in Addrs
    BY <2>1, <2>2, AddrTextOK
  <2>3. CASE a = NoAddr
    <3>1. t = <<"invalid IP">>
      BY <2>1, <2>3, AddrAssumption DEF AddrText
    <3>2. QED BY <3>1 DEF ParseAddr
  <2>4. QED BY <2>2, <2>3
<1>2. CASE t = Empty
  BY <1>2 DEF ParseAddr, Empty
<1>3. CASE \E a \in Addrs, l \in Lens : t = PrefixString(a, l)
  BY <1>3 DEF ParseAddr, PrefixString
<1>4. QED BY <1>1, <1>2, <1>3 DEF Texts
-----------------------------------------------------------------------------
(* Answers.                                                                *)

LEMMA AnswerOK ==
    ASSUME NEW c \in Calls, NEW u \in UIDs \cup {NoUID}, NEW e \in Errs,
           NEW v \in {None} \cup ValsOf(c)
    PROVE  RetOK(Answer(c, u, e, v))
BY DEF RetOK, Answer

(* A parsed answer carries the value only when parsing succeeded.         *)
LEMMA ParsedOK ==
    ASSUME NEW c \in Calls, NEW u \in UIDs \cup {NoUID}, NEW ok \in BOOLEAN,
           NEW v, ok => v \in ValsOf(c)
    PROVE  RetOK(Parsed(c, u, ok, v))
<1>1. /\ (IF ok THEN "none" ELSE "parse") \in Errs
      /\ (IF ok THEN v ELSE None) \in {None} \cup ValsOf(c)
  BY DEF Errs
<1>2. QED BY <1>1, AnswerOK DEF Parsed

(* A call keeps TypeOK when its answer is well typed, its applied request *)
(* stores well-typed objects and the texts it sends are rendered ones,    *)
(* whether dp-service answers or the transport fails.                      *)
LEMMA RespondOK ==
    ASSUME TypeOK, NEW Applied, NEW r, RetOK(r), Applied => StoreOK',
           Respond(Applied, r), wire' \subseteq Texts
    PROVE  TypeOK'
<1>1. CASE Applied /\ ret' = r /\ UNCHANGED failures
  BY <1>1 DEF TypeOK, StoreOK, RetOK
<1>2. CASE /\ failures < MaxFailures
           /\ failures' = failures + 1
           /\ Applied \/ UNCHANGED Store
           /\ ret' = [r EXCEPT !.err = "transport", !.val = None]
  <2>1. StoreOK'
    BY <1>2 DEF TypeOK, StoreOK, Store
  <2>2. RetOK(ret')
    BY <1>2 DEF RetOK, Errs
  <2>3. failures' \in 0..MaxFailures
    BY <1>2, BoundAssumption DEF TypeOK
  <2>4. QED BY <2>1, <2>2, <2>3 DEF TypeOK, StoreOK, RetOK
<1>3. QED BY <1>1, <1>2 DEF Respond

(* A call that leaves dp-service alone keeps TypeOK.                      *)
LEMMA ReadOK ==
    ASSUME TypeOK, NEW r, RetOK(r), Respond(UNCHANGED Store, r),
           wire' \subseteq Texts
    PROVE  TypeOK'
<1>1. UNCHANGED Store => StoreOK'
  BY DEF TypeOK, StoreOK, Store
<1>2. QED BY <1>1, RespondOK

(* A call dp-service refuses keeps TypeOK.                                *)
LEMMA RefusedOK ==
    ASSUME TypeOK, NEW c \in Calls, NEW u \in UIDs \cup {NoUID},
           Refused(c, u), wire' \subseteq Texts
    PROVE  TypeOK'
<1>1. RetOK(Answer(c, u, "status", None))
  BY AnswerOK DEF Errs
<1>2. QED BY <1>1, ReadOK DEF Refused
-----------------------------------------------------------------------------
(* Interfaces and virtual IPs.                                             *)

(* GetInterface returns the parsed interface, or nil when a field of it   *)
(* does not parse.                                                         *)
LEMMA GetInterfaceOK ==
    ASSUME TypeOK, NEW u \in UIDs, GetInterface(u)
    PROVE  TypeOK'
<1>1. wire' \subseteq Texts
  BY DEF GetInterface
<1>2. CASE ifaces[u] = None
  BY <1>1, <1>2, RefusedOK DEF GetInterface, Calls
<1>3. CASE ifaces[u] # None
  <2> DEFINE s == ifaces[u]
  <2> DEFINE c == DpdkInterfaceToInterface(s)
  <2>1. s \in StoredIfaces
    BY <1>3 DEF TypeOK
  <2>2. ParseAddr(s.v4) \in Addrs \cup {ParseError}
    BY <2>1, ParseText DEF StoredIfaces
  <2>3. c.ok \in BOOLEAN /\ (c.ok => c.val \in IfaceViews)
    BY <2>1, <2>2 DEF DpdkInterfaceToInterface, IfaceViews, StoredIfaces
  <2>4. RetOK(Parsed("GetInterface", u, c.ok, c.val))
    BY <2>3, ParsedOK, ValsOfCalls DEF Calls
  <2>5. Respond(UNCHANGED Store, Parsed("GetInterface", u, c.ok, c.val))
    BY <1>3 DEF GetInterface
  <2>6. QED BY <1>1, <2>4, <2>5, ReadOK
<1>4. QED BY <1>2, <1>3

(* CreateInterface stores the rendered addresses and the underlay, and    *)
(* returns the spec as given.                                              *)
LEMMA CreateInterfaceOK ==
    ASSUME TypeOK, NEW u \in UIDs, NEW sp \in IfaceSpecs, CreateInterface(u, sp)
    PROVE  TypeOK'
<1>1. ConfigText(sp.v4) \in Texts /\ ConfigText(sp.v6) \in Texts
  BY ConfigTextOK DEF IfaceSpecs, Addrs
<1>2. wire' \subseteq Texts
  BY <1>1 DEF CreateInterface
<1>3. CASE ifaces[u] # None
  BY <1>2, <1>3, RefusedOK DEF CreateInterface, Calls
<1>4. CASE ifaces[u] = None
  <2>1. PICK ul \in Underlays :
          Respond(/\ ifaces' = [ifaces EXCEPT ![u] =
                        [vni |-> sp.vni, dev |-> sp.dev,
                         v4 |-> ConfigText(sp.v4), v6 |-> ConfigText(sp.v6),
                         underlay |-> AddrText(ul)]]
                  /\ given' = [given EXCEPT ![u] = sp]
                  /\ UNCHANGED <<vips, prefixes, routes>>,
                  Parsed("CreateInterface", u,
                         ParseAddr(AddrText(ul)) # ParseError, sp))
    BY <1>4 DEF CreateInterface
  <2>2. AddrText(ul) \in Texts
    BY AddrTextOK, AddrAssumption
  <2>3. [vni |-> sp.vni, dev |-> sp.dev,
         v4 |-> ConfigText(sp.v4), v6 |-> ConfigText(sp.v6),
         underlay |-> AddrText(ul)] \in StoredIfaces
    BY <1>1, <2>2 DEF IfaceSpecs, StoredIfaces
  <2>4. (/\ ifaces' = [ifaces EXCEPT ![u] =
                 [vni |-> sp.vni, dev |-> sp.dev,
                  v4 |-> ConfigText(sp.v4), v6 |-> ConfigText(sp.v6),
                  underlay |-> AddrText(ul)]]
         /\ given' = [given EXCEPT ![u] = sp]
         /\ UNCHANGED <<vips, prefixes, routes>>) => StoreOK'
    BY <2>3 DEF TypeOK, StoreOK
  <2>5. RetOK(Parsed("CreateInterface", u,
                     ParseAddr(AddrText(ul)) # ParseError, sp))
    BY ParsedOK, ValsOfCalls DEF Calls
  <2>6. QED BY <1>2, <2>1, <2>4, <2>5, RespondOK
<1>5. QED BY <1>3, <1>4

(* DeleteInterface drops the interface with its VIP and prefixes.         *)
LEMMA DeleteInterfaceOK ==
    ASSUME TypeOK, NEW u \in UIDs, DeleteInterface(u)
    PROVE  TypeOK'
<1>1. wire' \subseteq Texts
  BY DEF DeleteInterface
<1>2. CASE ifaces[u] = None
  BY <1>1, <1>2, RefusedOK DEF DeleteInterface, Calls
<1>3. CASE ifaces[u] # None
  <2>1. (/\ ifaces' = [ifaces EXCEPT ![u] = None]
         /\ vips' = [vips EXCEPT ![u] = None]
         /\ prefixes' = [prefixes EXCEPT ![u] = {}]
         /\ UNCHANGED <<routes, given>>) => StoreOK'
    BY DEF TypeOK, StoreOK
  <2>2. RetOK(Answer("DeleteInterface", u, "none", None))
    BY AnswerOK DEF Calls, Errs
  <2>3. QED BY <1>1, <1>3, <2>1, <2>2, RespondOK DEF DeleteInterface
<1>4. QED BY <1>2, <1>3

(* CreateVirtualIP names no interface, so dp-service refuses it.          *)
LEMMA CreateVirtualIPOK ==
    ASSUME TypeOK, NEW u \in UIDs, NEW a \in Addrs, CreateVirtualIP(u, a)
    PROVE  TypeOK'
<1>1. wire' \subseteq Texts
  BY AddrTextOK DEF CreateVirtualIP
<1>2. VIPRequestID(u) \notin UIDs
  BY AddrAssumption DEF VIPRequestID
<1>3. QED BY <1>1, <1>2, RefusedOK DEF CreateVirtualIP, Calls

(* GetVirtualIP returns the parsed address, or nil.                       *)
LEMMA GetVirtualIPOK ==
    ASSUME TypeOK, NEW u \in UIDs, GetVirtualIP(u)
    PROVE  TypeOK'
<1>1. wire' \subseteq Texts
  BY DEF GetVirtualIP
<1>2. CASE vips[u] = None
  BY <1>1, <1>2, RefusedOK DEF GetVirtualIP, Calls
<1>3. CASE vips[u] # None
  <2> DEFINE c == DpdkVirtualIPToVirtualIP(vips[u])
  <2>1. ParseAddr(vips[u]) \in Addrs \cup {ParseError}
    BY <1>3, ParseText DEF TypeOK
  <2>2. c.ok \in BOOLEAN /\ (c.ok => c.val \in Addrs)
    BY <2>1 DEF DpdkVirtualIPToVirtualIP
  <2>3. RetOK(Parsed("GetVirtualIP", u, c.ok, c.val))
    BY <2>2, ParsedOK, ValsOfCalls DEF Calls
  <2>4. QED BY <1>1, <1>3, <2>3, ReadOK DEF GetVirtualIP
<1>4. QED BY <1>2, <1>3

LEMMA DeleteVirtualIPOK ==
    ASSUME TypeOK, NEW u \in UIDs, DeleteVirtualIP(u)
    PROVE  TypeOK'
<1>1. wire' \subseteq Texts
  BY DEF DeleteVirtualIP
<1>2. CASE vips[u] = None
  BY <1>1, <1>2, RefusedOK DEF DeleteVirtualIP, Calls
<1>3. CASE vips[u] # None
  <2>1. (/\ vips' = [vips EXCEPT ![u] = None]
         /\ UNCHANGED <<ifaces, prefixes, routes, given>>) => StoreOK'
    BY DEF TypeOK, StoreOK
  <2>2. RetOK(Answer("DeleteVirtualIP", u, "none", None))
    BY AnswerOK DEF Calls, Errs
  <2>3. QED BY <1>1, <1>3, <2>1, <2>2, RespondOK DEF DeleteVirtualIP
<1>4. QED BY <1>2, <1>3
-----------------------------------------------------------------------------
(* Alias prefixes and routes.                                              *)

(* The network address of a prefix is an address of the same family, so  *)
(* a masked prefix is a prefix.                                            *)
LEMMA MaskedPrefix ==
    ASSUME NEW p \in Prefixes
    PROVE  Masked(p) \in Prefixes
<1> DEFINE m == Mask(p[1], p[2])
<1>1. p[1] \in Addrs /\ p[2] \in Lens /\ p[2] <= MaxBits(p[1])
  BY DEF Prefixes
<1>2. CASE p[1] \in V4Addrs
  <2>1. m \in V4Addrs
    BY <1>1, <1>2, MaskAssumption
  <2>2. MaxBits(m) = MaxBits(p[1])
    BY <1>2, <2>1 DEF MaxBits
  <2>3. QED BY <1>1, <2>1, <2>2 DEF Masked, Prefixes, Addrs
<1>3. CASE p[1] \notin V4Addrs
  <2>1. m \in V6Addrs
    BY <1>1, <1>3, MaskAssumption
  <2>2. m \notin V4Addrs
    BY <2>1, AddrAssumption
  <2>3. MaxBits(m) = MaxBits(p[1])
    BY <1>3, <2>2 DEF MaxBits
  <2>4. QED BY <1>1, <2>1, <2>3 DEF Masked, Prefixes, Addrs
<1>4. QED BY <1>2, <1>3

(* ListPrefixes returns netip prefixes, host bits cleared: a stored text  *)
(* whose address does not parse, or whose length exceeds the family's     *)
(* width, fails the whole list instead.                                    *)
LEMMA ListPrefixesOK ==
    ASSUME TypeOK, NEW u \in UIDs, ListPrefixes(u)
    PROVE  TypeOK'
<1> DEFINE S == prefixes[u]
<1> DEFINE ok == \A t \in S : DpdkPrefixToPrefix(t).ok
<1> DEFINE V == {DpdkPrefixToPrefix(t).val : t \in S}
<1>1. S \subseteq Texts \X Lens
  BY DEF TypeOK
<1>2. ASSUME NEW t \in S, DpdkPrefixToPrefix(t).ok
      PROVE  DpdkPrefixToPrefix(t).val \in Prefixes
  <2>1. ParseAddr(t[1]) \in Addrs \cup {ParseError} /\ t[2] \in Lens
    BY <1>1, ParseText
  <2> DEFINE a == ParseAddr(t[1])
  <2>2. a \in Addrs /\ t[2] <= MaxBits(a)
    BY <1>2, <2>1 DEF DpdkPrefixToPrefix
  <2>3. <<a, t[2]>> \in Prefixes
    BY <2>1, <2>2 DEF Prefixes
  <2>4. DpdkPrefixToPrefix(t).val = Masked(<<a, t[2]>>)
    BY DEF DpdkPrefixToPrefix, Masked
  <2>5. QED BY <2>3, <2>4, MaskedPrefix
<1>3. ok => V \in SUBSET Prefixes
  BY <1>2
<1>4. RetOK(Parsed("ListPrefixes", u, ok, V))
  BY <1>3, ParsedOK, ValsOfCalls DEF Calls
<1>5. QED BY <1>4, ReadOK DEF ListPrefixes

(* CreatePrefix and DeletePrefix store or remove the rendered prefix.     *)
LEMMA PrefixWritesOK ==
    ASSUME TypeOK, NEW u \in UIDs, NEW p \in Prefixes,
           CreatePrefix(u, p) \/ DeletePrefix(u, p)
    PROVE  TypeOK'
<1> DEFINE t == <<AddrText(p[1]), p[2]>>
<1>1. t \in Texts \X Lens /\ t[1] \in Texts
  BY AddrTextOK DEF Prefixes
<1>2. CASE CreatePrefix(u, p)
  <2>1. wire' \subseteq Texts
    BY <1>1, <1>2 DEF CreatePrefix
  <2>2. CASE ifaces[u] = None \/ t \in prefixes[u]
    BY <1>2, <2>1, <2>2, RefusedOK DEF CreatePrefix, Calls
  <2>3. CASE ~(ifaces[u] = None \/ t \in prefixes[u])
    <3>1. (/\ prefixes' = [prefixes EXCEPT ![u] = @ \cup {t}]
           /\ UNCHANGED <<ifaces, vips, routes, given>>) => StoreOK'
      BY <1>1 DEF TypeOK, StoreOK
    <3>2. RetOK(Answer("CreatePrefix", u, "none", p))
      BY AnswerOK, ValsOfCalls DEF Calls, Errs
    <3>3. QED BY <1>2, <2>1, <2>3, <3>1, <3>2, RespondOK DEF CreatePrefix
  <2>4. QED BY <2>2, <2>3
<1>3. CASE DeletePrefix(u, p)
  <2>1. wire' \subseteq Texts
    BY <1>1, <1>3 DEF DeletePrefix
  <2>2. CASE t \notin prefixes[u]
    BY <1>3, <2>1, <2>2, RefusedOK DEF DeletePrefix, Calls
  <2>3. CASE t \in prefixes[u]
    <3>1. (/\ prefixes' = [prefixes EXCEPT ![u] = @ \ {t}]
           /\ UNCHANGED <<ifaces, vips, routes, given>>) => StoreOK'
      BY DEF TypeOK, StoreOK
    <3>2. RetOK(Answer("DeletePrefix", u, "none", None))
      BY AnswerOK DEF Calls, Errs
    <3>3. QED BY <1>3, <2>1, <2>3, <3>1, <3>2, RespondOK DEF DeletePrefix
  <2>4. QED BY <2>2, <2>3
<1>4. QED BY <1>2, <1>3

(* A route goes on the wire with its prefix rendered by Prefix.String().  *)
LEMMA WireRouteOK ==
    ASSUME NEW r \in Routes
    PROVE  /\ WireRoute(r) \in WireRoutes
           /\ WireRoute(r).addr \in Texts /\ WireRoute(r).nhAddr \in Texts
<1>1. r.prefix[1] \in Addrs /\ r.prefix[2] \in Lens /\ r.nhAddr \in Addrs
  BY DEF Routes, Prefixes
<1>2. PrefixString(r.prefix[1], r.prefix[2]) \in Texts
  BY <1>1 DEF Texts
<1>3. AddrText(r.nhAddr) \in Texts
  BY <1>1, AddrTextOK
<1>4. QED BY <1>1, <1>2, <1>3 DEF WireRoute, WireRoutes, Routes

LEMMA RouteCallsOK ==
    ASSUME TypeOK, NEW r \in Routes, CreateRoute(r) \/ DeleteRoute(r)
    PROVE  TypeOK'
<1>1. NoUID \in UIDs \cup {NoUID}
  OBVIOUS
<1>2. CASE CreateRoute(r)
  <2>1. wire' \subseteq Texts
    BY <1>2, WireRouteOK DEF CreateRoute
  <2>2. CASE WireRoute(r) \in routes
    BY <1>1, <1>2, <2>1, <2>2, RefusedOK DEF CreateRoute, Calls
  <2>3. CASE WireRoute(r) \notin routes
    <3>1. (/\ routes' = routes \cup {WireRoute(r)}
           /\ UNCHANGED <<ifaces, vips, prefixes, given>>) => StoreOK'
      BY WireRouteOK DEF TypeOK, StoreOK
    <3>2. RetOK(Answer("CreateRoute", NoUID, "none", r))
      BY AnswerOK, ValsOfCalls DEF Calls, Errs
    <3>3. QED BY <1>2, <2>1, <2>3, <3>1, <3>2, RespondOK DEF CreateRoute
  <2>4. QED BY <2>2, <2>3
<1>3. CASE DeleteRoute(r)
  <2>1. wire' \subseteq Texts
    BY <1>3, WireRouteOK DEF DeleteRoute
  <2>2. CASE WireRoute(r) \notin routes
    BY <1>1, <1>3, <2>1, <2>2, RefusedOK DEF DeleteRoute, Calls
  <2>3. CASE WireRoute(r) \in routes
    <3>1. (/\ routes' = routes \ {WireRoute(r)}
           /\ UNCHANGED <<ifaces, vips, prefixes, given>>) => StoreOK'
      BY DEF TypeOK, StoreOK
    <3>2. RetOK(Answer("DeleteRoute", NoUID, "none", None))
      BY AnswerOK DEF Calls, Errs
    <3>3. QED BY <1>3, <2>1, <2>3, <3>1, <3>2, RespondOK DEF DeleteRoute
  <2>4. QED BY <2>2, <2>3
<1>4. QED BY <1>2, <1>3
-----------------------------------------------------------------------------
LEMMA InitTypeOK == Init => TypeOK
BY BoundAssumption DEF Init, TypeOK, NoRet, Calls, Errs

LEMMA NextTypeOK == TypeOK /\ [Next]_vars => TypeOK'
<1> SUFFICES ASSUME TypeOK, [Next]_vars PROVE TypeOK'
  OBVIOUS
<1>1. CASE UNCHANGED vars
  BY <1>1 DEF vars, TypeOK
<1>2. ASSUME NEW u \in UIDs,
             \/ GetInterface(u)
             \/ \E sp \in IfaceSpecs : CreateInterface(u, sp)
             \/ DeleteInterface(u)
             \/ \E a \in Addrs : CreateVirtualIP(u, a)
             \/ GetVirtualIP(u)
             \/ DeleteVirtualIP(u)
             \/ ListPrefixes(u)
             \/ \E p \in Prefixes : CreatePrefix(u, p) \/ DeletePrefix(u, p)
      PROVE  TypeOK'
  BY <1>2, GetInterfaceOK, CreateInterfaceOK, DeleteInterfaceOK,
     CreateVirtualIPOK, GetVirtualIPOK, DeleteVirtualIPOK, ListPrefixesOK,
     PrefixWritesOK
<1>3. CASE \E r \in Routes : CreateRoute(r) \/ DeleteRoute(r)
  BY <1>3, RouteCallsOK
<1>4. QED BY <1>1, <1>2, <1>3 DEF Next

(* Theorem, for every set of UIDs, VNIs, devices, addresses and prefix    *)
(* lengths: dp-service only holds objects built from the texts the client *)
(* renders, the client only sends such texts, every call answers with a   *)
(* value of its result type or nil, and transport failures stay within    *)
(* their bound.                                                            *)
THEOREM DpdkTypeCorrect == Spec => []TypeOK
BY InitTypeOK, NextTypeOK, PTL DEF Spec
==============================================================================
