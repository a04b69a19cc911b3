# Formal models of metalnet's route realization engine

This directory holds TLA+ models of the two parts of metalnet that decide what
the dataplane service (dp-service) ends up holding:

* the **Route Realization Engine**: `MetalnetClient` in
  `src/metalbond/metalbond_client.go`. Its callbacks are invoked by the
  metalbond protocol engine for each route announcement and withdrawal. It
  also has `CleanupNotPeeredRoutes`, which removes routes toward VNIs that
  are no longer peered;
* the **Dataplane Translation Layer**: `client` in `src/dpdk/client.go`, which
  turns interfaces, virtual IPs, alias prefixes and routes into dp-service gRPC
  requests and parses the answers.

The realization engine calls dp-service through
`net-dpservice-go`, which is outside this repository. It reads the topology
(peer VNIs, allow-lists and LB registrations) from `MetalnetCache`, which is
also outside the repository. The metalbond engine redelivers an event whose
callback returned an error. The translation layer is the client that
metalnet's controllers use for interfaces, VIPs, prefixes and routes.

## Modules

| Module | Models | Kind |
|---|---|---|
| `MetalbondClient` | `addLocalRoute`, `removeLocalRoute`, `AddRoute`, `RemoveRoute`, `CleanupNotPeeredRoutes`, plus an environment of protocol engine, peering topology and dp-service tables | component |
| `MCMetalbondClient` | model values, topology and key sets for the runs | MC |
| `MetalbondClientProofs` | TLAPS proof of type correctness | proofs |
| `MetalbondConvergence` | the conditions and the inductive invariant under which the engine converges, with the lemmas about the request, `Wanted` and dataplane operators and the preservation lemmas for Announce, Withdraw, CleanupList and Finish | proofs |
| `MetalbondConvergenceProofs` | the preservation lemmas for Deliver and FanoutPeer and the theorems: `IInv`, `ConvergedWhenQuiet` and `SuccessMeansRealized` | proofs |
| `MCMetalbondConvergence` | the instance module of the fanout and kinds runs: `MCMetalbondClient` with `IInv`, asserting the instances meet the conditions | MC |
| `DpdkClient` | every method of the `dpdk.Client` interface | component |
| `MCDpdkClient` | the instance for the dpdk runs | MC |
| `AliasPrefixes` | what the alias-prefix calls promise: a per-interface prefix store | abstract spec |
| `DpdkClientProofs` | TLAPS proof of the refinement of `AliasPrefixes` | proofs |
| `DpdkClientTypes` | TLAPS proof that `TypeOK` of `DpdkClient` is an invariant | proofs |

### MetalbondClient

State:

* `announced`: the route keys `<<vni, dest, hop>>` the protocol engine
  currently holds.
* `dirty`: the keys whose current state still has to be delivered to a
  callback. An event adds its key. A callback that returns an error puts the
  key back, because the engine is level-triggered and retries.
* `handler[k]`: the callback running for `k`. It records whether the
  callback is in the peer loop (`pc`), add or remove (`op`), the peers not yet
  visited (`todo`), and whether any call failed (`err`).
* `dp`: the dp-service tables as a set of entries. An entry is
  `tbl` ∈ {route, lb, nat}, `key` (the table's identity) and `val`. A route
  is keyed by (VNI, prefix) and holds one next hop, as dp-service does.
* `events` and `failures`: counters that bound the environment.
* `peers[v]`: the peer set `MetalnetCache.GetPeerVnis` returns for `v`. It is
  either a set of VNIs or `Absent` (the `ok = false` answer). It starts as
  `PeerVnis`. The allow-lists and the LB registry are constants.
* `cleaner[v]`: the `CleanupNotPeeredRoutes(v)` run in progress. `pc` is idle
  or delete, and `todo` holds the listed stale routes not yet deleted.

Actions:

* `Deliver(k)` is the start of `AddRoute`/`RemoveRoute` (lines 184-197 and
  231-239). It runs the local `addLocalRoute`/`removeLocalRoute` call and
  reads the peer set.
* `FanoutPeer(k, p)` is one iteration of the peer loop (lines 198-221 and
  241-247). The loop visits the peers in any order, because `UnsortedList`
  gives no order. An error is recorded and the loop continues.
* `Finish(k)` is the aggregate-error return.
* `CleanupList(v)` is the start of `CleanupNotPeeredRoutes` (lines 256-269).
  `ListRoutes` either fails, counted against `MaxFailures`, or lists `v`'s
  routes. The peer set is then read once, and the routes that `NotPeered`
  selects become the run's work (`NotPeered` is the condition at line 269).
* `CleanupDelete(v, e)` is one loop iteration (lines 270-276). It deletes by
  (VNI, prefix), ignoring `NO_VNI` and `ROUTE_NOT_FOUND`. A failed delete ends
  the run, which is the return on the first error.
* `Announce`/`Withdraw` are the environment. So is `Unpeer(v, p)`, which
  revokes a peering in both directions (`Unpeerable` lists the pairs that may
  be revoked). With `AbsentWhenEmpty` set, an emptied peer set becomes
  `Absent`, as when the cache drops the VNI's entry.

The request a call makes is computed by `AddLocalRoute`, `RemoveLocalRoute`,
`PeerAllowed` and `PeerRequest`. These are translated branch by branch:
IPv4-only rejection, LB lookup, the preferred-network skip, NAT, the plain
route, and the `dpdkerrors.Ignore` code list of each call. `Exec` runs a
request against `dp`. dp-service answers with a status code, and the client
treats the call as successful if that code is OK or ignored. A transport error
(at most `MaxFailures`) fails the call, and the request may or may not have
been applied. Prefix containment of the allow-list
(`peeredPrefix.Contains(dest.Prefix.Addr())`) is abstracted to membership of
the destination in a set of destinations.

### AliasPrefixes and the refinement

`AliasPrefixes` states what the alias-prefix calls promise, without wire
text or dp-service. Each interface has a set of prefixes. A step adds one
prefix, removes one, drops all of one interface's prefixes, or lists them.
A listing returns exactly the current set. `DpdkClient` maps onto it through
two definitions:

* `AliasesOf`: the prefixes whose CreatePrefix rendering dp-service holds,
  each with its host bits cleared (`Masked`).
* `ListedOf`: the last answer, when it is a ListPrefixes answer without a
  transport error.

`AliasSpec` is `AliasPrefixes!Spec` under this mapping.

### DpdkClient

State:

* `ifaces`, `vips`, `prefixes`, `routes`: what dp-service stores, as the text
  fields of the requests that created it.
* `given`: the spec each interface was created from.
* `wire`: the address fields of the last request.
* `ret`: what the last call returned (call, UID, error kind, value).

Each method is one action. Its guard is dp-service's status answer (the
`Refused` branch, a `*StatusError`). The action then either succeeds or fails
in transport, before or after the store changes (`Respond`).

An address is its bits, most significant first: a function from 1..32
(IPv4) or 1..128 (IPv6) to {0, 1}. `Prefixes` holds the `netip.Prefix`
values: an address together with a length that is at most the width of the
address (`MaxBits`). The address may have host bits set, as a caller's
`netip.PrefixFrom` or `ParsePrefix` allows. `dpdkPrefixToPrefix` applies the
same length check to what dp-service returns and then, as `addr.Prefix(len)`
does, clears every bit after the first `len` (`Mask`). A prefix created as
10.0.0.5/24 is therefore listed back as 10.0.0.0/24. `MaskAssumption` asks
the address sets to hold the network address of each of their prefixes.
dp-service is modelled as storing prefixes as they are sent. Under that
model, a DeletePrefix of the listed 10.0.0.0/24 does not remove the stored
10.0.0.5/24. Whether the real dp-service masks on its side is not known
from this repository.

Conversions are modelled by what they produce. `Addr.String()` of a valid
address is text that parses back. The zero address renders as "invalid IP"
and an unset field is empty, and neither parses. `Prefix.String()` is
"addr/len", which is not an address.

## Runs

| Run | cfg | Expect | Shows |
|---|---|---|---|
| fanout | `MCFanout.cfg` | pass | STANDARD routes fanned out to 3 VNIs, with one allow-list, a transport failure and next-hop changes. See the property list below. |
| kinds | `MCKinds.cfg` | pass | LB targets (registered/unregistered, in/out of the preferred network), NAT and IPv4-only. Registered LB targets and NAT converge to what they require. A key that the IPv4-only check or an unregistered LB makes fail keeps the engine from ever being quiet once it is announced, so for those keys the run only shows that nothing is installed. |
| next_hop_move | `MCNextHopMove.cfg` | violation | A next-hop change with the withdrawal delivered late leaves no route (finding 1). |
| filtered_overlap | `MCFilteredOverlap.cfg` | violation | RemoveRoute deletes a filtered peer's own route (finding 2). |
| unpeer | `MCUnpeer.cfg` | pass | The peering v1-v3 is revoked while routes fan out, fail and retry. Periodic cleanup, which can fail part-way, eventually brings dp-service to the routes the new topology requires (`EventuallyConverged`). |
| cleanup_absent | `MCCleanupAbsent.cfg` | violation | When an emptied peer set is reported absent, cleanup keeps the stale route (finding 6). |
| unpeer_reuse | `MCUnpeerReuse.cfg` | violation | A former peer's stale route absorbs the VNI's own create, and cleanup then deletes it (finding 7). |
| dpdk_list_status | `MCDpdkListStatus.cfg` | violation | ListPrefixes of an interface dp-service does not hold returns an empty list and no error (finding 8). |
| dpdk_alias_refinement | `MCDpdkAliasRefinement.cfg` | pass | `TypeOK`, and the client implements `AliasPrefixes` (`AliasSpec`) under all call orders and transport failures. The instance has an IPv4 address with a host bit under /24 and the network address it masks to, one IPv6 address, and lengths 24 and 64 (64 is too long for IPv4). The caller's routes are one route (`MCRoutes`), which is enough for the route calls to fire and keeps the route table small. |
| dpdk_iface_roundtrip | `MCDpdkIfaceRoundTrip.cfg` | violation | GetInterface returns the IPv4 address as IPv6 (finding 3). |
| dpdk_virtual_ip | `MCDpdkVirtualIP.cfg` | violation | CreateVirtualIP names no interface (finding 4). |
| dpdk_route_wire | `MCDpdkRouteWire.cfg` | violation | Routes send "addr/len" as an address (finding 5). |

The properties checked on the realization engine:

* `IInv` (fanout and kinds, through `MCMetalbondConvergence`): the
  inductive invariant of the convergence proofs (see Proofs). Both instances
  meet the proofs' conditions, which the `ConditionsHold` assumption checks.
* `ConvergedWhenQuiet`: once no callback is running and nothing awaits
  redelivery, `dp` is exactly the union of the entries required by the
  announced keys. This means every peer's route exists where its allow-list
  admits it, and nothing withdrawn or stale is left. The property relates the
  whole history of interleaved callbacks to the final table.
* `EventuallyQuiet` (liveness): the agent always reaches such a quiet state.
  This fails if an ignorable code is not ignored, because replays would then
  never stop.
* `EventuallyConverged` (liveness, with a changing topology): `dp`
  eventually equals the desired set for the current peerings and stays
  there. It covers three things: routes toward a revoked peer are removed by
  some cleanup run, a cleanup cut short by an error is finished by a later
  one, and a fan-out that read the peer set before an `Unpeer` is repaired.
* `SuccessMeansRealized` (action property): a callback that returns nil has
  all its entries in place on an add, or none of them on a remove. The
  property catches a lost per-peer error.

Bounds:

* 3 VNIs is the smallest topology with a VNI that has two peers, one
  filtered and one not.
* 2 destinations and 2 addresses allow a next-hop change and a destination
  outside the allow-list.
* `MaxEvents = 4` allows announce, withdraw and re-announce of two keys.
* `MaxFailures = 1` allows one transport failure, applied or not, which is
  what a replay needs.

* In `unpeer` there are 3 keys: one prefix of v1 with two next hops, plus a
  v3 route toward v1. Together with the one revocable peering, this gives
  stale routes on both sides of the revoked pair.

`SerialNextHopChange = TRUE` in the passing runs means that the
environment announces a colliding key only after the withdrawal of the old
one has been realized. The `next_hop_move` run drops this assumption and
shows the outcome.

Fairness: each key's `Deliver`, `FanoutPeer` and `Finish` is weakly fair.
The protocol engine delivers every event and redelivers failed ones, and a
callback that has started runs to completion because it is synchronous code
with no waits of its own. Each VNI's `CleanupList` and `CleanupDelete` are
also weakly fair, because spec.md 4.2 says cleanup is invoked periodically.
No caller of `CleanupNotPeeredRoutes` exists under `src/`, so this is the
spec's promise and not the code's. The environment is not fair: neither
announcements nor revocations are assumed to happen. Deadlock is checked in
every run. A cleanup run is always enabled, so a deadlock would be a state
in which no callback or cleanup can step.

## Findings

1. `removeLocalRoute` deletes by (VNI, prefix), and `addLocalRoute`
   ignores `ROUTE_EXISTS`. If the add for a new next hop runs before the
   removal of the old one, the add is a no-op and the removal deletes the
   only route (`metalbond_client.go:173`).
2. `RemoveRoute` does not re-check allow-lists (`metalbond_client.go:243`).
   spec.md §9 calls this a harmless no-op delete. It is not harmless when
   the filtered peer routes the same prefix itself: its route is deleted.
3. `dpdkInterfaceToInterface` parses the IPv6 address from the IPv4 field
   (`client.go:119`).
4. `CreateVirtualIP` never sets `InterfaceID` (`client.go:258`).
5. `CreateRoute`/`DeleteRoute` send `Prefix.String()` as the address
   (`client.go:379`, `client.go:403`).

6. `CleanupNotPeeredRoutes` deletes nothing when the cache reports no peer
   set (`ok` false, `metalbond_client.go:269`). spec.md 4.2 says every
   non-local route is then stale.
7. Cleanup deletes by (VNI, prefix) only (`metalbond_client.go:273`). A VNI
   that, after unpeering, announces a prefix for which it still holds the
   former peer's route has its create absorbed as `ROUTE_EXISTS`. The next
   cleanup then removes that prefix, and the VNI is left with no route.
8. `ListPrefixes` never reads the response status (`client.go:317`). A
   listing of an interface dp-service does not hold comes back as an empty
   list and no error. spec.md 4.1 says a non-zero status is never silently
   swallowed at this layer. The model's dp-service answers such a listing
   with a non-zero status, as it answers the other calls on an unknown
   interface.

## Proofs

`MetalbondClientProofs` proves `THEOREM TypeCorrect == Spec => []TypeOK` for
all values of the constants, under the `ASSUME`s of `MetalbondClient`. These
are: `PeerVnis` maps each VNI to a set of other VNIs, the
allow-lists are subsets of `Dests`, `LBServer` maps into `LBIds ∪ {NoLB}`,
and the bounds are naturals.

The proof is the usual one: `Init => TypeOK`, and `TypeOK /\ [Next]_vars =>
TypeOK'`, one step per action. It rests on the lemma `RequestTyped`, which
says every request `AddLocalRoute`/`RemoveLocalRoute`/`PeerRequest` builds is
skip, fail or an RPC whose entry is in `Entries`, and on `ExecTyped`.
`TypeOK` is inductive by itself, so no strengthening is needed.

`DpdkClientTypes` proves `THEOREM DpdkTypeCorrect == Spec => []TypeOK` for
`DpdkClient`, for every set of UIDs, VNIs, devices, addresses and prefix
lengths, under `AddrAssumption`, `ParseAssumption` and `BoundAssumption`.
This `TypeOK` is also inductive by itself. It says four things:
dp-service only holds objects built from texts the client renders, the
client only sends such texts, every call answers with a value of its Go
result type or nil, and transport failures stay within their bound. The
proof rests on the conversion lemmas:
* `AddrTextOK`: `Addr.String()` parses back.
* `ParseText`: any text dp-service may hold parses to an address or fails.
  This covers "invalid IP", the empty field and the `addr/len` that
  CreateRoute sends.

`RespondOK` then handles the three outcomes of any call once (applied,
refused, transport failure after or before applying). There is one lemma
per call. The parsing calls (`GetInterfaceOK`, `GetVirtualIPOK`,
`ListPrefixesOK`) return their value only when every field parses, which is
why their result is of the right type.

`DpdkClientProofs` proves one theorem for every set of UIDs, addresses and
prefix lengths. It assumes `AddrAssumption`, `ParseAssumption` (a failed
parse, the zero `Addr`, is not an address) and `MaskAssumption`.

* `AliasRefinement == Spec => AliasSpec`. The invariant it rests on, `IInv`,
  says that every stored prefix is the rendering `StoredPrefix(p)` of some
  `p \in Prefixes`. It is needed because a listing's result depends on what
  dp-service holds. Initial states map to the abstract initial state. Under
  `IInv`, every step maps to an abstract step or a stutter:
  * CreatePrefix maps to `Add` of the prefix's masked form (`AbsAdd`).
  * DeletePrefix maps to `Remove` of the masked form. When another stored
    prefix masks to the same network, the aliases do not change and the step
    is `Other` (`AbsRemove`). DeleteInterface maps to `Drop`.
  * A listing that does not fail in transport maps to `List`. This is where
    the conversions matter. `ParseStored` shows that `dpdkPrefixToPrefix`
    parses CreatePrefix's rendering, accepts its length, and returns the
    masked prefix. `ListStored` lifts this to a set of stored texts.
  * Every other call maps to `Other`.

  The lemmas it rests on are `StoredInjective` (distinct prefixes render
  differently), `MaskedPrefix` (in `DpdkClientTypes`: a masked prefix is a
  prefix of the same family), and `ReadOnly`/`Writes`, which handle the three
  outcomes of a call (applied, refused, transport failure) once for all
  calls.

`MetalbondConvergenceProofs` proves three theorems for all VNIs, dests, hops,
keys, allow-lists and LB registrations that meet `Conditions`:

* `InvariantHolds == Spec => []IInv`;
* `ConvergedHolds == Spec => []ConvergedWhenQuiet`;
* `RealizedHolds == Spec => SuccessMeansRealized`.

`Conditions` has four parts. Each is needed, and the instances of the passing
runs meet all four (`MCMetalbondConvergence` asserts it, so TLC checks it):

* `StaticTopology`: no peering is revoked. After an unpeering, routes fanned
  out to the former peer stay until the cleanup pass removes them, so
  `ConvergedWhenQuiet` fails for a while. That case is only eventually true
  (`EventuallyConverged`, the unpeer runs).
* `SerialNextHopChange`: a key is announced only once every colliding key has
  stopped pending. Without it the code loses the route (finding 1,
  next_hop_move).
* `SymmetricPeers`: peering is mutual. Otherwise the cleanup pass deletes
  routes that a one-sided peer fanned out.
* `Separated`: RemoveRoute for one key reaches a table key that another key
  calls for only if the two keys collide. Without it RemoveRoute deletes a
  filtered peer's own route (finding 2, filtered_overlap).

`IInv` strengthens `ConvergedWhenQuiet`. TLC checked it on the fanout and kinds runs
before the proof was written. Its conjuncts:

* `Static`: the peer cache and the cleanup passes never move.
* `OpCurrent`: a running callback's operation matches the key's announcement,
  or the key is dirty again.
* `TodoShape`: the peers still to visit are peers of the key's VNI, and only a
  STANDARD route has any.
* `Exclusive`: keys whose entries share a table key are never pending
  together.
* `Justified`: every entry in `dp` is called for by a pending key.
* `Settled`: an announced key that is neither dirty nor running has all its
  entries in `dp`.
* `AddProgress` / `RemoveProgress`: a callback running without error has
  created, or cleared, what the VNIs it has visited call for.

`ConvergedWhenQuiet` follows from `Justified` and `Settled` once nothing is
pending but the announced keys. `SuccessMeansRealized` follows from the
progress conjuncts when the peer loop is done. The core of the step proof is
`OtherKeyFrame`: a request of key k leaves the entries of any key it does not
collide with as they were. It rests on `Separated` and `Exclusive`
(`NoInterference`). The `ROUTE_EXISTS` / `ALREADY_EXISTS` that an add
ignores is covered by `OwnAdd`: the entry already there is the wanted one,
by `Justified`, `Exclusive` and `WantedFunctional`. There is one lemma per
action. `DeliverIInv` and `FanoutPeerIInv` share `OthersKept`. The cleanup
pass finds nothing stale (`NoStale`, by `SymmetricPeers`).

What stays with TLC:

* liveness (`EventuallyQuiet`, `EventuallyConverged`), which needs fairness
  and ENABLED;
* the convergence properties outside `Conditions`: after unpeering
  (`EventuallyConverged` on the unpeer runs), and the violations of
  findings 1 and 2.

## Not modelled

* Allow-list changes, LB registration changes and new peerings. Only the
  revocation of a peering is modelled, so the two cache reads at lines
  194-195 cannot disagree in the model.
* The controllers and `main.go` (flag parsing and wiring).
* The CRD types.
* The AliasPrefix reconciler stub (it only logs).
* The metalbond engine and `MetalnetCache` themselves. They are modelled
  only through what the callbacks see of them.

## Plan

1. Make the allow-lists a variable, with the two cache reads as separate
   steps, and add new peerings.
2. Write an abstract specification of the realization engine (dp converges
   to the desired set) and refine the callback model to it.
