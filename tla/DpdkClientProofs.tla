-------------------------- MODULE DpdkClientProofs --------------------------
(* Machine-checked proofs about DpdkClient, for every set of UIDs,        *)
(* addresses and prefix lengths: the alias-prefix calls implement the      *)
(* abstract prefix store AliasPrefixes, a listing returning each stored    *)
(* prefix with its host bits cleared.                                      *)
EXTENDS DpdkClientTypes

\* What CreatePrefix sends for a prefix: Addr().String() and Bits().
StoredPrefix(p) == <<AddrText(p[1]), p[2]>>

PrefixTexts == {StoredPrefix(p) : p \in Prefixes}

\* The prefixes whose rendering is in a set S of stored texts.
Created(S) == {q \in Prefixes : StoredPrefix(q) \in S}

(* The invariant the refinement rests on: dp-service only holds prefix    *)
(* texts CreatePrefix rendered.                                            *)
IInv == prefixes \in [UIDs -> SUBSET PrefixTexts]

(* dpdkPrefixToPrefix accepts CreatePrefix's rendering of a prefix and    *)
(* returns the prefix with its host bits cleared.                          *)
LEMMA ParseStored ==
    ASSUME NEW p \in Prefixes
    PROVE  /\ DpdkPrefixToPrefix(StoredPrefix(p)).ok
           /\ DpdkPrefixToPrefix(StoredPrefix(p)).val = Masked(p)
<1>1. ParseAddr(AddrText(p[1])) = p[1]
  BY DEF Prefixes, ParseAddr, AddrText
<1>2. p[2] <= MaxBits(p[1])
  BY DEF Prefixes
<1>3. p[1] # ParseError
  BY ParseAssumption DEF Prefixes
<1>4. QED BY <1>1, <1>2, <1>3 DEF DpdkPrefixToPrefix, StoredPrefix, Masked

(* Listing a set of stored texts parses every one of them and yields the  *)
(* masked forms of exactly the prefixes whose rendering is in the set.     *)
LEMMA ListStored ==
    ASSUME NEW S \in SUBSET PrefixTexts
    PROVE  /\ \A t \in S : DpdkPrefixToPrefix(t).ok
           /\ {DpdkPrefixToPrefix(t).val : t \in S}
                = {Masked(p) : p \in Created(S)}
<1>1. \A t \in S : DpdkPrefixToPrefix(t).ok
  BY ParseStored DEF PrefixTexts
<1>2. ASSUME NEW t \in S
      PROVE  DpdkPrefixToPrefix(t).val \in {Masked(p) : p \in Created(S)}
  <2>1. PICK p \in Prefixes : t = StoredPrefix(p)
    BY DEF PrefixTexts
  <2>2. p \in Created(S)
    BY <2>1 DEF Created
  <2>3. QED BY <2>1, <2>2, ParseStored
<1>3. ASSUME NEW p \in Created(S)
      PROVE  Masked(p) \in {DpdkPrefixToPrefix(t).val : t \in S}
  <2>1. p \in Prefixes /\ StoredPrefix(p) \in S
    BY DEF Created
  <2>2. QED BY <2>1, ParseStored
<1>4. QED BY <1>1, <1>2, <1>3

\* The mapping, stated with Created.
LEMMA AliasesOfCreated ==
    ASSUME NEW u \in UIDs
    PROVE  /\ AliasesOf[u] = {Masked(p) : p \in Created(prefixes[u])}
           /\ AliasesOf'[u] = {Masked(p) : p \in Created(prefixes'[u])}
BY DEF AliasesOf, Created, StoredPrefix

(* What a call returns is the answer built for it, unless the transport   *)
(* fails; either way it names the call and the UID.                        *)
LEMMA RespondAnswer ==
    ASSUME NEW Applied, NEW c, NEW u, NEW e, NEW v,
           Respond(Applied, Answer(c, u, e, v))
    PROVE  /\ ret'.call = c
           /\ ret'.uid = u
           /\ ret'.err # "transport" => ret'.err = e /\ ret'.val = v
<1> DEFINE r == Answer(c, u, e, v)
<1>1. ret' = r \/ ret' = [r EXCEPT !.err = "transport", !.val = None]
  BY DEF Respond
<1>2. CASE ret' = r
  BY <1>2 DEF Answer
<1>3. CASE ret' = [r EXCEPT !.err = "transport", !.val = None]
  BY <1>3 DEF Answer
<1>4. QED BY <1>1, <1>2, <1>3

(* A call either applies its request or leaves dp-service as it was.     *)
LEMMA RespondApplies ==
    ASSUME NEW Applied, NEW r, Respond(Applied, r)
    PROVE  Applied \/ UNCHANGED Store
BY DEF Respond

(* A call that answers without changing dp-service changes no prefix.     *)
LEMMA RespondKeeps ==
    ASSUME NEW r, Respond(UNCHANGED Store, r)
    PROVE  prefixes' = prefixes
BY DEF Respond, Store

(* A call that does not change dp-service keeps IInv.                     *)
LEMMA ReadOnly ==
    ASSUME IInv, NEW r, Respond(UNCHANGED Store, r)
    PROVE  IInv'
BY RespondKeeps DEF IInv

(* A call whose applied request keeps the prefixes rendered keeps IInv.   *)
LEMMA Writes ==
    ASSUME IInv, NEW Applied, NEW r, Applied => IInv',
           Respond(Applied, r)
    PROVE  IInv'
<1>1. Applied \/ UNCHANGED Store
  BY RespondApplies
<1>2. QED BY <1>1 DEF IInv, Store
-----------------------------------------------------------------------------
LEMMA InitIInv == Init => IInv
BY DEF Init, IInv

(* The calls that write alias prefixes store rendered prefixes only.      *)
LEMMA PrefixWritesKeep ==
    ASSUME IInv, NEW u \in UIDs, NEW p \in Prefixes,
           CreatePrefix(u, p) \/ DeletePrefix(u, p)
    PROVE  IInv'
<1> DEFINE t == <<AddrText(p[1]), p[2]>>
<1>1. t \in PrefixTexts
  BY DEF PrefixTexts, StoredPrefix
<1>2. CASE CreatePrefix(u, p)
  <2>1. CASE ifaces[u] = None \/ t \in prefixes[u]
    BY <1>2, <2>1, ReadOnly DEF CreatePrefix, Refused
  <2>2. CASE ~(ifaces[u] = None \/ t \in prefixes[u])
    BY <1>1, <1>2, <2>2, Writes, ZenonT(30) DEF CreatePrefix, IInv
  <2>3. QED BY <2>1, <2>2
<1>3. CASE DeletePrefix(u, p)
  <2>1. CASE t \notin prefixes[u]
    BY <1>3, <2>1, ReadOnly DEF DeletePrefix, Refused
  <2>2. CASE t \in prefixes[u]
    BY <1>3, <2>2, Writes DEF DeletePrefix, IInv
  <2>3. QED BY <2>1, <2>2
<1>4. QED BY <1>2, <1>3

(* DeleteInterface drops the interface's prefixes with it.                *)
LEMMA DeleteInterfaceKeeps ==
    ASSUME IInv, NEW u \in UIDs, DeleteInterface(u)
    PROVE  IInv'
<1>1. CASE ifaces[u] = None
  BY <1>1, ReadOnly DEF DeleteInterface, Refused
<1>2. CASE ifaces[u] # None
  BY <1>2, Writes DEF DeleteInterface, IInv
<1>3. QED BY <1>1, <1>2

(* Every other call leaves alias prefixes alone.                          *)
LEMMA OtherCallsKeep ==
    ASSUME IInv,
           \/ \E u \in UIDs :
                \/ GetInterface(u)
                \/ \E sp \in IfaceSpecs : CreateInterface(u, sp)
                \/ \E a \in Addrs : CreateVirtualIP(u, a)
                \/ GetVirtualIP(u)
                \/ DeleteVirtualIP(u)
                \/ ListPrefixes(u)
           \/ \E r \in Routes : CreateRoute(r) \/ DeleteRoute(r)
    PROVE  IInv'
<1>1. CASE \E u \in UIDs : GetInterface(u) \/ GetVirtualIP(u) \/ ListPrefixes(u)
  BY <1>1, ReadOnly DEF GetInterface, GetVirtualIP, ListPrefixes, Refused
<1>2. CASE \E u \in UIDs, sp \in IfaceSpecs : CreateInterface(u, sp)
  BY <1>2, ReadOnly, Writes DEF CreateInterface, Refused, IInv
<1>3. CASE \E u \in UIDs, a \in Addrs : CreateVirtualIP(u, a)
  BY <1>3, ReadOnly, Writes DEF CreateVirtualIP, Refused, IInv
<1>4. CASE \E u \in UIDs : DeleteVirtualIP(u)
  BY <1>4, ReadOnly, Writes DEF DeleteVirtualIP, Refused, IInv
<1>5. CASE \E r \in Routes : CreateRoute(r) \/ DeleteRoute(r)
  BY <1>5, ReadOnly, Writes DEF CreateRoute, DeleteRoute, Refused, IInv
<1>6. QED BY <1>1, <1>2, <1>3, <1>4, <1>5

LEMMA NextIInv == IInv /\ [Next]_vars => IInv'
<1> SUFFICES ASSUME IInv, [Next]_vars PROVE IInv'
  OBVIOUS
<1>1. CASE UNCHANGED vars
  BY <1>1 DEF vars, IInv
<1>2. CASE \E u \in UIDs, p \in Prefixes : CreatePrefix(u, p) \/ DeletePrefix(u, p)
  BY <1>2, PrefixWritesKeep
<1>3. CASE \E u \in UIDs : DeleteInterface(u)
  BY <1>3, DeleteInterfaceKeeps
<1>4. QED BY <1>1, <1>2, <1>3, OtherCallsKeep DEF Next
-----------------------------------------------------------------------------
(* Refinement of AliasPrefixes.                                           *)

(* Distinct prefixes are rendered differently by CreatePrefix.            *)
LEMMA StoredInjective ==
    ASSUME NEW p \in Prefixes, NEW q \in Prefixes,
           StoredPrefix(p) = StoredPrefix(q)
    PROVE  p = q
<1>1. p[1] = q[1] /\ p[2] = q[2]
  BY DEF StoredPrefix, AddrText, Prefixes
<1>2. QED BY <1>1 DEF Prefixes

(* A call that answers other than ListPrefixes and leaves the prefixes    *)
(* alone is the abstract Other step.                                       *)
LEMMA AbsOther ==
    ASSUME ret'.call # "ListPrefixes", prefixes' = prefixes
    PROVE  Alias!Other
<1>1. ListedOf' = None
  BY DEF ListedOf
<1>2. AliasesOf' = AliasesOf
  BY DEF AliasesOf
<1>3. QED BY <1>1, <1>2 DEF Alias!Other

(* A write of u's prefixes leaves the other interfaces' aliases alone.    *)
LEMMA OthersAliases ==
    ASSUME IInv, NEW u \in UIDs, NEW S,
           prefixes' = [prefixes EXCEPT ![u] = S]
    PROVE  /\ AliasesOf' = [AliasesOf EXCEPT ![u] = AliasesOf'[u]]
           /\ prefixes'[u] = S
BY DEF IInv, AliasesOf

(* Storing the rendering of p on u is the abstract Add of p's masked      *)
(* form.                                                                   *)
LEMMA AbsAdd ==
    ASSUME IInv, NEW u \in UIDs, NEW p \in Prefixes,
           ret'.call # "ListPrefixes",
           prefixes' = [prefixes EXCEPT ![u] = @ \cup {StoredPrefix(p)}]
    PROVE  Alias!Next
<1>1. ListedOf' = None
  BY DEF ListedOf
<1>2. /\ AliasesOf' = [AliasesOf EXCEPT ![u] = AliasesOf'[u]]
      /\ prefixes'[u] = prefixes[u] \cup {StoredPrefix(p)}
  BY OthersAliases DEF IInv
<1>3. Created(prefixes'[u]) = Created(prefixes[u]) \cup {p}
  BY <1>2, StoredInjective DEF Created
<1>4. AliasesOf'[u] = AliasesOf[u] \cup {Masked(p)}
  <2>1. AliasesOf'[u] = {Masked(q) : q \in Created(prefixes[u]) \cup {p}}
    BY <1>3, AliasesOfCreated
  <2>2. AliasesOf[u] = {Masked(q) : q \in Created(prefixes[u])}
    BY AliasesOfCreated
  <2>3. QED BY <2>1, <2>2
<1>5. Alias!Add(u, Masked(p))
  BY <1>1, <1>2, <1>4 DEF Alias!Add
<1>6. QED BY <1>5, MaskedPrefix DEF Alias!Next

(* Removing the rendering of p from u is the abstract Remove of p's       *)
(* masked form, or no change of the aliases when another stored prefix     *)
(* masks to the same network.                                              *)
LEMMA AbsRemove ==
    ASSUME IInv, NEW u \in UIDs, NEW p \in Prefixes,
           ret'.call # "ListPrefixes",
           prefixes' = [prefixes EXCEPT ![u] = @ \ {StoredPrefix(p)}]
    PROVE  Alias!Next
<1> DEFINE A == Created(prefixes[u])
<1>1. ListedOf' = None
  BY DEF ListedOf
<1>2. /\ AliasesOf' = [AliasesOf EXCEPT ![u] = AliasesOf'[u]]
      /\ prefixes'[u] = prefixes[u] \ {StoredPrefix(p)}
  BY OthersAliases DEF IInv
<1>3. Created(prefixes'[u]) = A \ {p}
  BY <1>2, StoredInjective DEF Created
<1>4. AliasesOf'[u] = {Masked(q) : q \in A \ {p}} /\ AliasesOf[u] = {Masked(q) : q \in A}
  BY <1>3, AliasesOfCreated
<1>5. CASE \E q \in A \ {p} : Masked(q) = Masked(p)
  <2>1. AliasesOf'[u] = AliasesOf[u]
    BY <1>4, <1>5
  <2>2. AliasesOf' = AliasesOf
    BY <1>2, <2>1 DEF AliasesOf
  <2>3. QED BY <1>1, <2>2 DEF Alias!Other, Alias!Next
<1>6. CASE ~\E q \in A \ {p} : Masked(q) = Masked(p)
  <2>1. AliasesOf'[u] = AliasesOf[u] \ {Masked(p)}
    BY <1>4, <1>6
  <2>2. Alias!Remove(u, Masked(p))
    BY <1>1, <1>2, <2>1 DEF Alias!Remove
  <2>3. QED BY <2>2, MaskedPrefix DEF Alias!Next
<1>7. QED BY <1>5, <1>6

(* Clearing u's prefixes is the abstract Drop(u).                         *)
LEMMA AbsDrop ==
    ASSUME IInv, NEW u \in UIDs,
           ret'.call # "ListPrefixes",
           prefixes' = [prefixes EXCEPT ![u] = {}]
    PROVE  Alias!Drop(u)
<1>1. ListedOf' = None
  BY DEF ListedOf
<1>2. AliasesOf' = [AliasesOf EXCEPT ![u] = {}]
  BY DEF IInv, AliasesOf
<1>3. QED BY <1>1, <1>2 DEF Alias!Drop

(* A call answering c # ListPrefixes, whose applied request is an         *)
(* abstract step, is an abstract step whether it is applied or not.        *)
LEMMA AbsCall ==
    ASSUME NEW c, c # "ListPrefixes", NEW u, NEW e, NEW v, NEW Applied,
           (Applied /\ ret'.call = c) => Alias!Next,
           Respond(Applied, Answer(c, u, e, v))
    PROVE  Alias!Next
<1>1. ret'.call = c
  BY RespondAnswer
<1>2. Applied \/ UNCHANGED Store
  BY RespondApplies
<1>3. CASE UNCHANGED Store
  BY <1>1, <1>3, AbsOther DEF Store, Alias!Next
<1>4. QED BY <1>1, <1>2, <1>3
(* A call that answers c # ListPrefixes without changing dp-service is    *)
(* the abstract Other step.                                                *)
LEMMA AbsRead ==
    ASSUME NEW c, c # "ListPrefixes", NEW u, NEW e, NEW v,
           Respond(UNCHANGED Store, Answer(c, u, e, v))
    PROVE  Alias!Next
<1>1. ret'.call = c
  BY RespondAnswer
<1>2. prefixes' = prefixes
  BY RespondKeeps
<1>3. QED BY <1>1, <1>2, AbsOther DEF Alias!Next

LEMMA InitAlias == Init => Alias!Init
BY DEF Init, Alias!Init, AliasesOf, ListedOf, NoRet

(* A listing that does not fail in transport is the abstract List(u).     *)
LEMMA ListStep ==
    ASSUME IInv, NEW u \in UIDs, ListPrefixes(u)
    PROVE  Alias!Next
<1> DEFINE S == prefixes[u]
<1>1. S \in SUBSET PrefixTexts
  BY DEF IInv
<1>2. {DpdkPrefixToPrefix(t).val : t \in S} = AliasesOf[u]
  BY <1>1, ListStored, AliasesOfCreated
<1>3. Respond(UNCHANGED Store,
              Answer("ListPrefixes", u, "none", AliasesOf[u]))
  BY <1>1, <1>2, ListStored DEF ListPrefixes, Parsed
<1>4. prefixes' = prefixes
  BY <1>3, RespondKeeps
<1>5. AliasesOf' = AliasesOf
  BY <1>4 DEF AliasesOf
<1>6. /\ ret'.call = "ListPrefixes"
      /\ ret'.uid = u
      /\ ret'.err # "transport" => ret'.val = AliasesOf[u]
  BY <1>3, RespondAnswer
<1>7. CASE ret'.err = "transport"
  BY <1>5, <1>7 DEF ListedOf, Alias!Next, Alias!Other
<1>8. CASE ret'.err # "transport"
  <2>1. ListedOf' = [uid |-> u, val |-> AliasesOf[u]]
    BY <1>6, <1>8 DEF ListedOf
  <2>2. Alias!List(u)
    BY <1>5, <2>1 DEF Alias!List
  <2>3. QED BY <2>2 DEF Alias!Next
<1>9. QED BY <1>7, <1>8

(* The writes of alias prefixes are abstract Add, Remove and Drop steps.  *)
LEMMA PrefixWriteSteps ==
    ASSUME IInv, NEW u \in UIDs,
           \/ \E p \in Prefixes : CreatePrefix(u, p) \/ DeletePrefix(u, p)
           \/ DeleteInterface(u)
    PROVE  Alias!Next
<1>1. CASE \E p \in Prefixes : CreatePrefix(u, p)
  <2>1. PICK p \in Prefixes : CreatePrefix(u, p)
    BY <1>1
  <2> DEFINE t == StoredPrefix(p)
  <2>2. CASE ifaces[u] = None \/ t \in prefixes[u]
    BY <2>1, <2>2, AbsRead DEF CreatePrefix, Refused, StoredPrefix
  <2>3. CASE ~(ifaces[u] = None \/ t \in prefixes[u])
    <3>1. (prefixes' = [prefixes EXCEPT ![u] = @ \cup {t}]
            /\ ret'.call = "CreatePrefix") => Alias!Next
      BY AbsAdd
    <3>2. QED BY <2>1, <2>3, <3>1, AbsCall DEF CreatePrefix, StoredPrefix
  <2>4. QED BY <2>2, <2>3
<1>2. CASE \E p \in Prefixes : DeletePrefix(u, p)
  <2>1. PICK p \in Prefixes : DeletePrefix(u, p)
    BY <1>2
  <2> DEFINE t == StoredPrefix(p)
  <2>2. CASE t \notin prefixes[u]
    BY <2>1, <2>2, AbsRead DEF DeletePrefix, Refused, StoredPrefix
  <2>3. CASE t \in prefixes[u]
    <3>1. (prefixes' = [prefixes EXCEPT ![u] = @ \ {t}]
            /\ ret'.call = "DeletePrefix") => Alias!Next
      BY AbsRemove
    <3>2. QED BY <2>1, <2>3, <3>1, AbsCall DEF DeletePrefix, StoredPrefix
  <2>4. QED BY <2>2, <2>3
<1>3. CASE DeleteInterface(u)
  <2>1. CASE ifaces[u] = None
    BY <1>3, <2>1, AbsRead DEF DeleteInterface, Refused
  <2>2. CASE ifaces[u] # None
    <3>1. (prefixes' = [prefixes EXCEPT ![u] = {}]
            /\ ret'.call = "DeleteInterface") => Alias!Next
      BY AbsDrop, ZenonT(30) DEF Alias!Next
    <3>2. QED BY <1>3, <2>2, <3>1, AbsCall DEF DeleteInterface
  <2>3. QED BY <2>1, <2>2
<1>4. QED BY <1>1, <1>2, <1>3
(* A call whose applied request leaves the prefixes alone is an abstract *)
(* Other step.                                                             *)
LEMMA AbsKeep ==
    ASSUME NEW c, c # "ListPrefixes", NEW u, NEW e, NEW v, NEW Applied,
           Applied => prefixes' = prefixes,
           Respond(Applied, Answer(c, u, e, v))
    PROVE  Alias!Next
<1>1. (Applied /\ ret'.call = c) => Alias!Next
  BY AbsOther DEF Alias!Next
<1>2. QED BY <1>1, AbsCall

(* Interface, VIP and route calls are abstract Other steps.               *)
LEMMA OtherSteps ==
    ASSUME IInv,
           \/ \E u \in UIDs :
                \/ GetInterface(u)
                \/ \E sp \in IfaceSpecs : CreateInterface(u, sp)
                \/ \E a \in Addrs : CreateVirtualIP(u, a)
                \/ GetVirtualIP(u)
                \/ DeleteVirtualIP(u)
           \/ \E r \in Routes : CreateRoute(r) \/ DeleteRoute(r)
    PROVE  Alias!Next
<1>1. CASE \E u \in UIDs : GetInterface(u)
  BY <1>1, AbsRead DEF GetInterface, Refused, Parsed
<1>2. CASE \E u \in UIDs, sp \in IfaceSpecs : CreateInterface(u, sp)
  <2>1. PICK u \in UIDs, sp \in IfaceSpecs : CreateInterface(u, sp)
    BY <1>2
  <2>2. CASE ifaces[u] # None
    BY <2>1, <2>2, AbsRead DEF CreateInterface, Refused
  <2>3. CASE ifaces[u] = None
    BY <2>1, <2>3, AbsKeep DEF CreateInterface, Parsed
  <2>4. QED BY <2>2, <2>3
<1>3. CASE \E u \in UIDs, a \in Addrs : CreateVirtualIP(u, a)
  <2>1. \A u \in UIDs : VIPRequestID(u) \notin UIDs
    BY AddrAssumption DEF VIPRequestID
  <2>2. QED BY <1>3, <2>1, AbsRead DEF CreateVirtualIP, Refused
<1>4. CASE \E u \in UIDs : GetVirtualIP(u)
  BY <1>4, AbsRead DEF GetVirtualIP, Refused, Parsed
<1>5. CASE \E u \in UIDs : DeleteVirtualIP(u)
  BY <1>5, AbsRead, AbsKeep DEF DeleteVirtualIP, Refused
<1>6. CASE \E r \in Routes : CreateRoute(r)
  BY <1>6, AbsRead, AbsKeep DEF CreateRoute, Refused
<1>7. CASE \E r \in Routes : DeleteRoute(r)
  BY <1>7, AbsRead, AbsKeep DEF DeleteRoute, Refused
<1>8. QED BY <1>1, <1>2, <1>3, <1>4, <1>5, <1>6, <1>7

LEMMA NextAlias == IInv /\ [Next]_vars => [Alias!Next]_Alias!vars
<1> SUFFICES ASSUME IInv, [Next]_vars PROVE [Alias!Next]_Alias!vars
  OBVIOUS
<1>1. CASE UNCHANGED vars
  BY <1>1 DEF vars, Alias!vars, AliasesOf, ListedOf
<1>2. CASE \E u \in UIDs : ListPrefixes(u)
  BY <1>2, ListStep
<1>3. CASE \E u \in UIDs :
             \/ \E p \in Prefixes : CreatePrefix(u, p) \/ DeletePrefix(u, p)
             \/ DeleteInterface(u)
  BY <1>3, PrefixWriteSteps
<1>4. QED BY <1>1, <1>2, <1>3, OtherSteps DEF Next

(* Theorem, for every set of UIDs, addresses and prefix lengths: the      *)
(* alias-prefix calls of the dpdk client implement the abstract prefix    *)
(* store AliasPrefixes under the mapping AliasesOf/ListedOf: no call but   *)
(* CreatePrefix, DeletePrefix and DeleteInterface changes an interface's   *)
(* prefixes, each changes them by one prefix or drops them, and a listing  *)
(* (rendering in CreatePrefix, parsing and addr.Prefix masking in          *)
(* dpdkPrefixToPrefix) returns the store, host bits cleared.               *)
THEOREM AliasRefinement == Spec => AliasSpec
<1>1. []IInv /\ [][Next]_vars => [][Alias!Next]_Alias!vars
  BY NextAlias, PTL
<1>2. Spec => []IInv
  BY InitIInv, NextIInv, PTL DEF Spec
<1>3. QED BY <1>1, <1>2, InitAlias, PTL DEF Spec, AliasSpec, Alias!Spec
==============================================================================
