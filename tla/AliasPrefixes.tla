----------------------------- MODULE AliasPrefixes -----------------------------
(***************************************************************************)
(* What the alias-prefix calls of the dpdk client promise, stated without  *)
(* dp-service, wire messages or parsing (spec.md 4.1): each interface has  *)
(* a set of alias prefixes; a step adds one, removes one or drops all of   *)
(* one interface's prefixes; and a listing that does not fail in transport *)
(* returns exactly the interface's current set.                            *)
(***************************************************************************)
CONSTANTS
    UIDs,      \* interface UIDs
    Pfx,       \* prefixes
    NoList     \* no successful listing is the last answer

VARIABLES
    aliases,   \* UID -> the set of alias prefixes of the interface
    listed     \* the last answer, if it is a listing: [uid, val], or NoList

vars == <<aliases, listed>>

Init ==
    /\ aliases = [u \in UIDs |-> {}]
    /\ listed = NoList

\* A listing of interface u returns its current prefixes.
List(u) ==
    /\ listed' = [uid |-> u, val |-> aliases[u]]
    /\ UNCHANGED aliases

\* Any other answer: a prefix is added, removed, the interface's prefixes
\* are dropped, or nothing changes.
Add(u, p) ==
    /\ aliases' = [aliases EXCEPT ![u] = @ \cup {p}]
    /\ listed' = NoList

Remove(u, p) ==
    /\ aliases' = [aliases EXCEPT ![u] = @ \ {p}]
    /\ listed' = NoList

Drop(u) ==
    /\ aliases' = [aliases EXCEPT ![u] = {}]
    /\ listed' = NoList

Other ==
    /\ listed' = NoList
    /\ UNCHANGED aliases

Next ==
    \/ Other
    \/ \E u \in UIDs :
         \/ List(u)
         \/ Drop(u)
         \/ \E p \in Pfx : Add(u, p) \/ Remove(u, p)

Spec == Init /\ [][Next]_vars
==============================================================================
