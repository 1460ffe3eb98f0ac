# darwin-net verification

TLA+ models of darwin-net, the userspace pod network of k3sm on macOS: model-checked
with TLC on small instances, and proved with TLAPS where a theorem for every instance
is in reach. Line references are to the sources under `src/` (`pkg/` unless said otherwise).

## 1. The system and its parts

A macOS host has no network namespaces. A pod's address is a `/32` alias on `lo0`, carved
from the node's `/24`; Services are userspace listeners on aliased VIPs; nodes are joined
by a WireGuard `utun`; names, binds and dials of a pod's processes go through a preloaded
shim. What needs root is done by one small daemon, `netd`.

| Part | Sources | Modules | Status |
|---|---|---|---|
| Pod IPAM, lo0 aliases, blackholes, crash reconcile | `podnet/` | `PodAddresses`, `Lo0Alias`, `PodNet`, `PodNetProofs` | modelled, proved |
| netd: alias and mesh executor | `netd/applier.go` | `NetdAlias`, `RoutingTableProofs` | modelled but for reads, proved |
| netd: identity, interconnect, mesh record | `netd/server.go`, `interconnect.go` | `NetdIdentity`, `NetdProofs` | modelled, proved |
| netd: accept loop, watchdog, BindPort and its client | `netd/server.go`, `watchdog.go`, `wire/client.go` | `NetdServe`, `PodNetProofs` | control modelled, proved |
| netd: ApplyUpdate and its client | `netd/update.go`, `extract.go`, `codesign.go`, `wire/client.go` | `NetdUpdate`, `NetdProofs` | control modelled, proved |
| Service proxy: workers, VIP aliases, barrier, shutdown | `proxy/proxy.go` | `ProxyWorker`, `ProxyProofs` | modelled, proved |
| Service/EndpointSlice watch, anti-entropy, relist | `proxy/watch.go`, `translate.go`, `antientropy.go` | `ServiceWatch`, `ServeProofs` | modelled, proved |
| Routing table, session affinity, traffic policy | `proxy/routing.go`, `affinity.go` | `RoutingTable`, `RoutingTableProofs` | modelled but for a log throttle, proved |
| UDP relay | `proxy/udprelay.go` | `UdpRelay`, `UdpRelayProofs` | modelled, proved |
| vm pod relay | `proxy/podrelay.go` | `PodRelay`, `ProxyProofs` | modelled, proved |
| NodePort sets | `proxy/nodeportset.go`, `nodeportaddrs.go` | `NodePortSet`, `WatcherProofs` | modelled, proved |
| NetworkPolicy subset | `proxy/policy.go`, `policywatch.go` | `PolicyWatch`, `WatcherProofs` | modelled, proved |
| Mesh device: peers, egress alias, kernel routes | `mesh/device_wireguard.go`, `plan.go`, `routes.go` | `MeshDevice`, `WatcherProofs` | control modelled, proved |
| MeshPeer watch and status | `mesh/watch.go`, `mesh.go` | `MeshWatch` | control modelled |
| Ingress routes and watcher | `ingress/route.go`, `watch.go` | `Ingress`, `EdgeProofs` | modelled, its freshness proved; not the HTTP server |
| Link watch | `linkwatch/` | `LinkWatch`, `WatcherProofs` | control modelled, proved |
| DNS: reference resolver, expansion, partial names | `dns/` | `DnsResolver`, `EdgeProofs` | walk and operators modelled, the answer proved |
| Shim: getaddrinfo; bind and connect | `shim/getaddrinfo_shim.c`, `podnet/env.go`, `dns/env.go` | `GetaddrinfoShim`, `SocketShim`, `EdgeProofs` | control modelled; the binds, the dials, the environment and the lookup's answer proved |

How they interact. The runtime calls `podnet` (`Setup`, `Teardown`), which plumbs `lo0`
directly or through `netd`. `netd` executes the privileged commands, remembers which pods
are local (the mesh receive path refuses a SYN to an address that is not), and owns the
WireGuard device. The watcher turns Services and EndpointSlices into ports and backends
and hands each port to its worker, which aliases the VIP, opens the sockets and installs
the backends in the routing table; connections read that table without a lock. Transport
overrides in the same table drive the vm pod relays. The mesh watcher turns MeshPeers into
a plan and applies it to the device, which programs peers, the egress alias and one kernel
route per remote `/24`.

## 2. Modules and the code

Data is abstracted to what the properties tell apart; control is kept. An external command
(`ifconfig`, `route`, a bind, a file write, an API call) is a step that works or fails,
with every effect a failing one can leave. A step ends where the code releases a lock,
loads or stores an atomic, sends, or calls out. Operators named for a plausible bug,
defined before the operator they vary, only serve to show that a property can fail.

**`Lo0Alias`, `PodNet`, `PodAddresses`.** `Lo0Alias` is one call of the lo0 alias manager as
the set of its outcomes: the `/32`'s kernel state (`none`, `alias`, `blackhole`, or
`cloned`, a host route made by traffic), the manager's memory (`no`, `live`, `pending`)
and whether it returned an error. `PodNet` is `Network` with its allocator: `Setup`,
`Teardown`, `Reattach` (both backends), `SweepStale`, `EnsureNodeAlias`, and the
environment: the runtime's `PodStart`/`PodStop` (`box` is its durable record), and
`Crash`, after which the IPAM memory is empty, the kernel is as it was and the runtime
reattaches what runs. `Network.mu` is held across each operation: each is one action.
`PodAddresses` is the abstract promise: running pods hold distinct addresses and keep
them; crashes do not appear in it.

**`NetdAlias`.** The executor one command at a time: `op` is the operation under `aliasMu`
and its next step. `known`/`pods` is the local-pod set that the SYN refusal reads
concurrently, so that every intermediate state matters; `granted` is what a client was
told. `Restart` may cut an operation between any two commands.

**`NetdIdentity`.** Each connection's handler is a process: adoption, the alias and mesh
records, the identity file, `bridge0` and the ownership ledger of the slots with its file,
and the start-up reconcile.

**`NetdServe`.** The accept loop, the connections with their frames, deadlines and closes,
the watchdog that sees the socket path replaced, the drain, and a `BindPort` whose
descriptor the kernel may flush in flight and whose client then asks again.

**`NetdUpdate`.** Clients, the daemon, its installers and the disk: the order of the
verification steps, the staging lock that the installer inherits, the sweep, the
acknowledgement, the exec and the reply; the comparison of two releases is an operator.

**`ProxyWorker`.** Callers, workers, the barrier and the shutdown: the worker map under
`mu`, the bounded event channel, the `stop` channel, a worker's open (alias, bind,
NodePort), its undo, its retry timer, its exit, and the drain of `Run`.

**`ServiceWatch`.** Two informers over an API log, their handlers and Run's own goroutine;
a delivery takes its Service's stripe, snapshots the slices and sends. Around them the
pass that compares a live list with the store (divergences confirmed by a second list, repairs, the
breaker), the relist and the swap of the informer set.

**`RoutingTable`.** A connection's lookup, affinity and pick split at every load,
compare-and-swap and lock, against installs, deletes, purges, sweeps and expiry.

**`UdpRelay`.** Dispatcher, sweeper, readers and `Close` of each relay over one shared
budget. **`PodRelay`.** The table's writer with its observer (`retire`), the reconcile
goroutine that binds outside the lock, and connections; a relay object is named by its pod
and generation, and may outlive its place in the map. **`NodePortSet`.** Opens, closes and
the two-phase swap, address by address.

**`PolicyWatch`.** Three stores that move independently, the one-slot poke, the window,
the pass that lists them one after the other, watch errors; `ResolveRule` and the verdict
as operators, against a definition of NetworkPolicy from the objects.

**`MeshDevice`.** `Up`, `Apply` (peers, then route requests, then read-back; each may fail)
and `Down`. `applied` and `lastUAPI` are the device's memory, `wg` what WireGuard holds
(it moves an endpoint when a peer roams), `routes` what the device owns, `kernel` what
there is, `blind` the routes whose own read-back failed. **`MeshWatch`.** The watchers of an HA control plane: delayed informers, the two
goroutines with one-slot triggers, reconciles, and status patches of several writers.

**`Ingress`.** The match as an operator over host, path and rule order, and two informers'
handlers that each recompute everything. **`LinkWatch`.** Poll, routing socket, merge and
debounce through bounded channels.

**`DnsResolver`, `GetaddrinfoShim`.** The Go resolver and the C mirror are run side by side
on the same question and get the same replies; search expansion, ndots and the completion
of partial names are operators. A reply is a record: whose it is, its truncation bit and
code, whether its question is whole, and its answers up to where it is cut (`cut`: inside a
record; `end`: where too few bytes for one are left). Each language reads it its own way.
`apart` remembers what has parted the two: a reply they read differently, or a duplicate
candidate that did not simply miss. **`SocketShim`.** `bind` and `connect` as the shim
rewrites them, over a kernel with one port space; the encoders of its environment and the C
parser are operators on numbers of `Width` bits. Setting `SO_REUSEADDR` and reading the
socket's options may fail.

**`SeqFolds`.** The operators on sequences that the last four share; `SequencesExt` brings `Bags`
into every proof above it, which this does not.

## 3. Runs

Components that share no state are checked in one run: a variable `part`, chosen at the
start, says which of them a behaviour is about.

| Run | Shows |
|---|---|
| `podnet` | Every command failing at will and a crash at any point: a running pod stays aliased (`RunningPodOnLo0`), `PodNet` implements `PodAddresses` (`KeepsPromise`), a retried teardown completes (`TeardownCompletes`). |
| `netd_daemon` | No live pod address is refusable at any intermediate step (`LivePodAllocated`); a grant is kept (`GrantKept`) and reaches the utun whatever failed or restarted (`GrantReachesUtun`). A retried `BindPort` finds its port free (`RetryPortFree`); Serve returns although peers hang (`ServeExits`). |
| `netd` | The server's mesh and the executor's device carry the node's identity (`DeviceCarriesNode`); however stale the ledger, a restart keeps what it records and leaves other addresses alone (`RestartKeepsOwned`). An installer's directory is its own (`InstallerUndisturbed`), only verified bytes are installed (`OnlyVerifiedInstalled`), never a lower release unasked (`NoDowngrade`), and the client's verdict is true, also when the stream stops short (`ReplyTrue`). |
| `proxy` | An installed port is served or its retry is armed (`ServedOrRetried`), shutdown releases all (`ShutdownReleases`). The binding count is exact and no purged binding comes back (`BindingsAccounted`); what a connection is given was eligible at some moment of its pick (`PickedWasEligible`). |
| `proxy_worker_live` | No caller and no barrier hangs on a departed worker (`CallerReturns`). |
| `service_watch` | Once handlers have caught up, the proxy has what the store has (`ServedCurrent`), and in the end what the API has, though an event, list or sync was lost, unless the breaker withholds the repair (`Heals`). |
| `relays` | The UDP budget is exact (`FlowsCounted`) and no upstream socket is orphaned (`SocketsOwned`). No vm pod relay serves what the overrides let go (`OnlyAdmittedServe`); the relays converge after failed binds (`RelaysConverge`). |
| `watchers` | Policy verdicts are NetworkPolicy's for pods, and never stricter but for vmnet sources that are no pod's (`VerdictsFaithful`), and the last change is computed (`PolicyConverges`); NodePorts are bound on the whole set or not at all (`NodePortsBound`); after a burst the last event is the link's state, but for an interface up without its carrier and a reader that ended (`LinkSettles`, section 4); requests are routed as the Ingresses declare (`RoutedAsDeclared`). |
| `mesh` | No route of the device is unknown to it but those whose own read-back failed (`RoutesOwned`), roamed peers left alone (`RoamedStays`), convergence of the device and of the HA watchers (`DeviceConverges`, `WatchersConverge`). |
| `shim` | C and Go walks agree but for three differences (`ShimMirrorsReference`, section 4) and the answer is the right candidate's (`AnswerRight`), a name the node's resolver completes is a candidate a pod would have asked for (`CompletionIsCandidate`); pods bind the same port freely (`PodsBindFreely`), dials carry the pod's address (`DialsCarryIdentity`), encoder and parser agree (`EncodersAgree`). |

Two runs that TLC refutes, each stating a line of the repository the code does not keep:

| Run | The line | What happens |
|---|---|---|
| `netd_alias_retry` | `podnet.go:219` a failed removal can be completed by a retry | A tolerated `-alias` failure makes the removal pending while the address is still aliased: the retry skips the `-alias`, and the blackhole install is refused for ever. |
| `proxy_shared_vip` | `proxy/doc.go:18` a socket is bound on its lo0 alias | The ports of one VIP share its alias without a count: one port's failed open or delete unaliases the VIP of another. |

**Bounds.** Pods: two over two addresses, so that one may wait for the other's (the proofs
cover any number). netd: two `/24`s of one host and a VIP; two connections, which is what
each race needs; two interconnect slots, so that one rides on the other; in the
interconnect instance the device is never built, only the identity pinned (`NoDevice`).
Updates: two clients, two requests, one fault, releases on both sides of the installed
one. Proxy: one key, two callers, a worker replaced once, `Cap` 2 and `MaxEvents` 4 (a full
channel); the table with two clients, connections and backends, three writes and each cap
at its limit. ServiceWatch: two changes of one Service and one fault, which is a loss
between two recoveries; the second Service keeps the breaker closed; the first change
comes while Run starts, with no fault ahead, or finds the watcher at rest
(`WatchNextScope`; the proof has no such bound). Relays: caps of one
and two on each level; four generations, enough for a stale pass to meet a newer override
twice. Watchers: four store changes, one watch error, two swaps, one failed bind, three
object changes. Mesh: a peer that moves and rotates its key, or one that stays while
another and the node's own come and go, when nobody roams and only the other's prefix is
taken by a foreign interface (`PeerScope`); one watcher with every fault or two without.
Shim: addresses of 4 bits, lists up to one past their ceiling, two sockets; one pod and the
interconnect lose their alias, not both at once; in a lookup at most two of the candidates
exist, and one for the longer names and the special requests; the search lists repeat a
domain and ndots goes past its cap; a reply may be malformed by being cut, not by reserved
label types or address records of an odd length; the engines, which share only the replies,
step in turn, and the shim not beside an ended context (`DnsNextScope`). Behaviours end where these bounds stop the
environment or where Run returns: hence `CHECK_DEADLOCK FALSE` there. `podnet`,
`service_watch` and `netd_alias_retry` check deadlock.

**Fairness.** A goroutine that can step does (weak fairness of its steps). What the code's
caller repeats for ever succeeds if it may succeed again and again (strong fairness of the
*successful* outcome): the runtime's Teardown and Reattach, the mesh resync's
ConfigureMesh and Apply. Go's `select` takes a ready case at random and a blocked sender
is queued (strong fairness of channel operations in `ProxyWorker`). Deadlines pass. Peers,
users, the API, crashes and failures are never obliged to anything; failures are bounded
only by the named constants.

## 4. Disagreements between a comment and the code

The models contain these behaviours; no run states the documented claim, and the
properties are worded so as to hold beside them.

podnet and netd
- `podnet/blackhole.go:68`: the blackhole "stays until the address is aliased again"; Ensure
  deletes it before `ifconfig`, and a failure leaves neither. A crash between `-alias` and
  the install (`alias.go:187`) leaves none either, and the next process installs none.
- `podnet/reconcile.go:138`: failing removals are collected; an untracked address's failing
  `-alias` is taken as absence.
- `podnet/podnet.go:190`, `alias.go:43`, `:133`: an alias that something else took off lo0 is
  neither added again by a repeated Setup nor removable by Teardown, since the manager
  trusts its memory (the models take an alias off lo0 only through the program).
- `netd/applier.go:127`: an address leaves the local-pod set only when its alias is gone; the
  retry of a pending removal takes it out while it is aliased.
- `netd/server.go:709`, `:727`, `:770`, `interconnect.go:189`: an adoption that runs between a
  handler's validation and its effect makes the handler act under the old identity.
- `netd/update.go:228`: a stop during the wait for the acknowledgement "is a Failed frame"; the
  stop also closes the connection (`server.go:553`), so that the frame may be lost and the
  client report a restart. `ReplyTrue` holds all the same: the stream then ended before any
  Installing, and nothing of the archive has run.
- Serve's wait after a lost socket also waits for peers that keep sending frames;
  `ServeExits` bounds their frames. `RetryPortFree` rests on the kernel flushing only
  sockets that nothing but a message in flight refers to, `NoDowngrade` on an operator's own
  install taking the staging lock. Pre-release identifiers beyond 64 bits are compared as
  text.

proxy
- `proxy.go:677`: the barrier waits for "every event delivered", and a worker that stops "has
  nothing left to apply"; an install queued behind a delete is dropped with the worker
  (`:840`) and the barrier succeeds.
- `watch.go:426`: a delete "must not be overtaken" by a recompute; onSlice reads the Service
  before it takes the stripe (`:450`), so that a deleted Service may be installed again, and
  passes compare the store with the API, never the table: it is served until a restart. The
  same holds of a Service repaired from a live list that predates its deletion, of a port
  removed from a Service's spec, and of a notification still queued in the informer set
  that a relist replaces. `ServedCurrent` and `Heals` are about what the API or the store
  has. A relist whose sync fails is not tried again in its episode.
- `podrelay.go:63`: when SetTransportOverrides returns, "no relay serves a pod the caller has
  let go"; a relay the reconcile goroutine took out of the map just before is closed only
  after its own unlock (`:251`). `OnlyAdmittedServe` excepts exactly these. A second
  `udpRelay.Close` returns before the first has finished.
- `udprelay.go:605`: a failed Read is "upstream closed → flow ended"; it may also be an error of
  an open socket (a refused datagram). The reader returns, the flow stays in the table, its
  client's datagrams keep it there, and nobody reads its replies (`deaf`).
- `policywatch.go` lists three stores in turn: between two passes the table may mix their
  moments. Finished pods that keep an address are not skipped.

mesh, linkwatch, ingress
- `mesh/device_wireguard.go:472`: a failed read-back forgets routes that were just added, so that
  a later Apply succeeds with a stale route. `RoutesOwned` excepts these routes alone
  (`blind`), until an Apply that asks for them has verified them.
- `mesh/watch.go:351`: two writers with stale stores may put an older handshake time over a
  newer one, until the next write.
- `mesh/probe.go` (read, not modelled): a removed target gets no down callback, and one that is
  added again counts an echo sent before.
- `linkwatch/linkwatch.go:64`: `Up` includes the carrier; the routing socket's events have the
  flags alone. After a pulled cable an address change reports the link up, and the poll,
  which has sent the state already, does not send it again until it changes.
- `ingress/watch.go:129`: the callback with the TLS Secrets runs after the unlock, so that two
  resyncs may deliver their lists in the opposite order.

dns and shim
- `dns/resolver.go:71`: a transient failure "must never be collapsed" into absence; that of a
  name outside the cluster ends the walk at once as not found (`:231`).
- The walks differ in three ways, and `ShimMirrorsReference` holds up to the first of them.
  A reply that is cut short is malformed to Go; C decides by what comes before the cut, and
  where too few bytes for a record are left it reads a miss, although `k3sm_parse_a` promises "K3SM_DNS_TEMPFAIL (malformed / SERVFAIL
  and friends)" (`shim/getaddrinfo_shim.c:920`): a later search domain may then answer for a
  name that exists. Go drops duplicate candidates; C asks again, and that may fail where the
  first did not. The encoder caps `ndots`, the resolver does not.
- Go's test of a cluster name reads every search domain, C the capped list.
- `SO_REUSEADDR` that cannot be set is traced only (`getaddrinfo_shim.c:1953`): the bind may then
  be refused by another's listener, which `PodsBindFreely` does not speak of.
- A UDP socket that is connected again passes through; `DialsCarryIdentity` is about first
  dials. The kernel's bind-conflict rule is taken from how the shim relies on it.

## 5. Proofs

What is proved holds for every value of the constants that satisfies the named assumptions
of each module (sets that the code keeps in maps are finite where something is counted or
listed, placeholders are not real values, bounds are naturals). `SocketShim` also assumes how powers
of two up to `Width` divide one another (`PowersOfTwo`), which TLC evaluates and the prover,
without exponents, cannot derive.

| Component | Theorems (in) | Inductive invariant |
|---|---|---|
| `PodNet` | `Invariance`, `TypeCorrect`, `IPAM`, `Collision`, `OnLo0`, `Tracking`, `Exhaustion`, `Freed`, `NodeAlias`, `Refinement` (`PodNetProofs`) | A running pod keeps its address because its record, its binding and the alias manager's memory agree with the kernel. |
| `NetdServe` | `RetriesFindPortFree` (`PodNetProofs`) | The one request of the call's connection (`OneRequestOf`): a descriptor can be flushed only after the daemon closed its own copy, and then the client's close is the last. |
| `NetdAlias` | `Invariance`, `TypeCorrect`, `LivePodIsAllocated`, `TrackedIsOnLo0`, `GrantIsKept`, `OnlyRemove` (`RoutingTableProofs`) | What the operation under way has established (`OpInv`), and that nothing is on a utun that is down (`MeshInv`). |
| `NetdIdentity` | `DeviceIdentity`, `OwnedSurvivesRestart` (`NetdProofs`) | Which connections an interconnect handler can be running on (`IcHandlers`), and so what a death leaves half done; nothing is assumed of the files' freshness. |
| `NetdUpdate` | `InstallerAlone`, `VerifiedInstalls`, `NoInstallBelow`, `RepliesAreTrue` (`NetdProofs`) | For whom the staging lock is held (`OneRequest`); what each check found still holds when the installer starts, since no other replaces the release meanwhile (`Checked`); every frame on its way is true, in order (`FramesTrue`), and its outcome is settled (`Settled`); a request whose Installing was never sent has touched nothing, and one that was sent is on its way or read (`SilentInv`). |
| `ProxyWorker` | `WorkerOwnership`, `StopOnce`, `PortsServed`, `ShutdownComplete` (`ProxyProofs`) | Where a worker that touches a key can be found: in the map, or among those the shutdown captured; who may still close a `stop`; no table entry for a key nobody owns. |
| `PodRelay` | `AdmittedOnly` (`ProxyProofs`) | An object outside the map is older than any generation a pass may still install from, one inside it of that generation is as it asks; every open one outside is on somebody's list to close. |
| `ServiceWatch` | `ServesWhatItStores` (`ServeProofs`) | Below. |
| `RoutingTable` | `BindingsFollow`, `EligiblePicks` (`RoutingTableProofs`) | A pick about to record holds `affMu`, what it will record is new and within the caps, and if a writer has stored since it compared, that writer's purge is still owed (`Holder`, `Pending`, `Recording`). |
| `UdpRelay` | `CountsAreFlows`, `NoSocketLeaks` (`UdpRelayProofs`) | The counters are cardinalities of the tables; only the dispatcher adds a flow, so that its client still has none (`NewFlow`), and a closed relay has none to release twice (`ClosedEmpty`); who holds each socket (`SocketHeld`). |
| `MeshDevice` | `MemoryHolds`, `EndpointsInForce`, `SkipsAreNoOps`, `RoamingKept`, `RoutesAreOwned` (`WatcherProofs`) | The memory describes the device at every moment, since a failed update drops it; the routes are followed through the three steps of an Apply, with those whose read-back failed kept apart (`RoutesKnown`). |
| `NodePortSet` | `ListenersAccounted` (`WatcherProofs`) | The listeners are those of the groups and what the holder of the lock has added. |
| `LinkWatch` | `LinkSettled` (`WatcherProofs`) | Each event is traced through the channels to what its source last knew of the interface (`PollTrue`, `SocketTrue`, `RouteTrue`, `ShownTrue`). |
| `PolicyWatch` | `VerdictsAgree` (`WatcherProofs`) | While no notification is due, what a pass has listed is what the stores hold (`PassCurrent`); `Verdict` is a lemma about the operators alone: a table resolved from any objects gives NetworkPolicy's verdict of them. |
| `Ingress` | `TableFresh` (`EdgeProofs`) | While no notification waits, the holder of the lock has listed what the store holds (`ListCurrent`). |
| `SocketShim` | `PodsOwnTheirPorts`, `ScopesAgree`, `DialsIdentified` (`EdgeProofs`) | A pod's bind with `SO_REUSEADDR` can only be refused by a holder of its own address (`OwnAddressOnly`). The environment does not change (`Injected`); the rest is arithmetic: masking twice changes nothing (`MaskedIs`), and a block that begins in the interconnect's range ends in it (`StaysOnLink`). |
| `DnsResolver`, `GetaddrinfoShim` | `AnswersAreRight` (`EdgeProofs`) | Both walks are engines of one kind. One passes over a name that exists only where its failure is closed, which it remembers (`Passed`), and from then on asks for no other such candidate (`Asking`). A truthful server's reply, as Go reads it, is a hit only if the name exists and a miss only if not, wherever it was cut; C's reading is trusted until it differs. |

Each has the same shape: the initial states satisfy the invariant, a lemma for each action
or family of actions shows it preserved conjunct by conjunct, and the theorem combines them.
`Refinement` maps `PodNet` to `PodAddresses`: `PodStart` and `PodStop` map to `Start` and
`Stop`, everything else, crashes included, to a stutter. Some theorems state what no run
checks (exhaustion is reported only when the range is full, a `stop` is closed once, the
ingress table is fresh). The inductive invariants were model-checked before they were proved.

**ServiceWatch.** `ServedCurrent` only speaks of moments when nothing is under way. The
invariant says, for a Service whose ports are not what the store says, who still has to act
(`Accounted`): a notification of the store's version is queued, or a slice event, or the slice
handler wants the Service's stripe, or Run has it on its list (`Due`); or a goroutine is between
snapshot and send (`Delivering`). Three things make it inductive. The Service handler delivers
the version it was notified of, so that behind every queued notification there must be one of
the version in the store (`LastIsCurrent`). A send may carry a slice the store has replaced;
then a later delivery of that Service is due (`HeldFresh`). And a goroutine that ends its send
must not overwrite a newer one, which is what the stripe excludes. Services repaired from a
live list are owed nothing until they settle, nor is any before a swapped-in informer set
has been applied (`Owed`). The one assumption on `Services` is that each set of them can be
listed (`Orders`).

**Only model-checked.**
- All liveness (`TeardownCompletes`, `GrantReachesUtun`, `ServeExits`, `CallerReturns`, `Heals`,
  `RelaysConverge`, `PolicyConverges`, `DeviceConverges`, `WatchersConverge`): fairness and ENABLED
  are outside the prover.
- `RoutedAsDeclared`: its half about freshness is `TableFresh`; that the match picks the rule
  the Ingresses declare is about folds over lists of any length, an induction over data.
- `ShimMirrorsReference`, `CompletionIsCandidate`: the lists of candidates of the two languages are
  made by folds and filters over search lists of any length.
- `NoDowngrade` compares with a ladder of concrete releases, which is its point: the
  order of releases is a recursive comparison. `NoInstallBelow` proves that what was compared
  still holds when the installer ends.
- `MeshWatch` has only liveness properties.

## 6. Not modelled

- Text and bytes: the output of `ifconfig`, `route` and `system_profiler` (`linkenum`), the
  bytes of routing and DNS messages, JSON frames, `resolv.conf`, the flat registry, DNS synthesis, the SYN
  refusal's packet (`mesh/refuse.go`), keys; the generated TLD table.
- I/O without state: `netbind`, `tcpseg`, the proxy's and the mesh's adapters to netd, the
  egress dialer, the copying of bytes, peer credentials, archive extraction and `codesign`
  (one step each, which may fail, in `NetdUpdate`).
- The ingress HTTP handler, its listeners and certificate store: `net/http` and `crypto/tls`.
- The Thunderbolt prober: its verdicts are real-time thresholds over counts of echoes.
- The throttles of warnings, and logging.
- `hack/`: tooling.
- Composition: the pod network over the executor's RPC, and the watcher over the workers, are
  checked on each side of the interface (a delivery in order; a call that succeeds or
  fails with any effect), not as one state space.
