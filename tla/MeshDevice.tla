----------------------------- MODULE MeshDevice -----------------------------
(***************************************************************************)
(* The WireGuard device of the mesh (pkg/mesh/device_wireguard.go), the    *)
(* plan it applies (plan.go) and the kernel routes it owns (routes.go).    *)
(*                                                                         *)
(* An Apply holds the device's lock, but not the kernel's or WireGuard's:  *)
(* a peer roams, a route is lost or taken by another interface between any *)
(* two of its three steps (the peer write, the route requests, the         *)
(* read-back). A node has one podCIDR and its own keys, so no two peers of *)
(* a plan share a key or a CIDR; the order in which the informer store     *)
(* lists the peers is arbitrary, and is part of the update's text.         *)
(***************************************************************************)
EXTENDS Naturals

CONSTANTS
  Nodes, Keys, Cidrs, Endpoints,
  SpecsOf,       \* the MeshPeer specs each node may have
  Self,          \* this node's own podCIDR
  PerNode,       \* the CIDRs that are an IPv4 /24
  NoSpec, NoCidr, NoEndpoint, NoText

Specs == [key : Keys, cidr : Cidrs, endpoint : Endpoints,
          underlay : Endpoints \cup {NoEndpoint}, valid : BOOLEAN]

NoPeer == [endpoint |-> NoEndpoint, cidr |-> NoCidr]
Lines == [key : Keys, cidr : Cidrs, endpoint : Endpoints \cup {NoEndpoint}]
Texts == [full : BOOLEAN, remove : SUBSET Keys, lines : SUBSET Lines,
          order : UNION {[S -> S] : S \in SUBSET Keys}]

ASSUME MeshAssumption ==
  /\ SpecsOf \in [Nodes -> SUBSET Specs]
  /\ Self \in PerNode /\ PerNode \subseteq Cidrs
  /\ NoSpec \notin Specs /\ NoCidr \notin Cidrs /\ NoEndpoint \notin Endpoints
  /\ NoText \notin Texts
  /\ \A m, n \in Nodes : m # n => \A s \in SpecsOf[m], t \in SpecsOf[n] :
       s.key # t.key /\ s.cidr # t.cidr

VARIABLES
  peers,     \* the MeshPeers of the informer store
  up,        \* d.dev # nil: the utun and its wireguard exist
  egress,    \* the mesh-egress address is aliased on lo0
  wg,        \* wireguard's peer table: the endpoint and allowed CIDR of each key
  kernel,    \* the interface the kernel's route for each CIDR is bound to
  applied,   \* d.applied: the endpoint last programmed for each key
  lastUAPI,  \* d.lastUAPI
  routes,    \* d.routes: the routes verified in the kernel's table
  op,        \* the Apply under way: its next step, what it wants and found stale
  heard,     \* history: the keys that roamed since their endpoint was last written
  blind      \* history: the routes asked for by an Apply whose read-back failed, and not
             \* verified by one since

devVars == <<up, egress, wg, applied, lastUAPI, heard>>
routeVars == <<kernel, routes>>
vars == <<peers, devVars, routeVars, op, blind>>

Idle == [step |-> "idle", want |-> {}, stale |-> {}]

TypeOK ==
  /\ peers \in [Nodes -> Specs \cup {NoSpec}]
  /\ up \in BOOLEAN /\ egress \in BOOLEAN /\ blind \in SUBSET (PerNode \ {Self})
  /\ wg \in [Keys -> [endpoint : Endpoints, cidr : Cidrs \cup {NoCidr}] \cup {NoPeer}]
  /\ kernel \in [Cidrs -> {"none", "utun", "other"}]
  /\ applied \in [Keys -> Endpoints \cup {NoEndpoint}]
  /\ lastUAPI \in Texts \cup {NoText}
  /\ routes \in SUBSET (PerNode \ {Self})
  /\ op \in [step : {"idle", "routes", "list"}, want : SUBSET (PerNode \ {Self}),
             stale : SUBSET (PerNode \ {Self})]
  /\ heard \in SUBSET Keys

-----------------------------------------------------------------------------
(* The plan (plan.go). *)

SelectEndpoint(s) == IF s.underlay # NoEndpoint THEN s.underlay ELSE s.endpoint

\* BuildPlan: the peers that are programmed; the node's own MeshPeer is not.
Included == {n \in Nodes : peers[n] # NoSpec /\ peers[n].valid /\ peers[n].cidr # Self}

\* RouteSet over the included peers.
RouteSet == {peers[n].cidr : n \in Included} \cap PerNode

PlanKeys == {peers[n].key : n \in Included}
EndpointFor(k) == SelectEndpoint(peers[CHOOSE n \in Included : peers[n].key = k])
CidrFor(k) == peers[CHOOSE n \in Included : peers[n].key = k].cidr

\* The orders in which a store may list the plan's peers, as permutations.
Orders == {o \in [PlanKeys -> PlanKeys] : \A j, k \in PlanKeys : o[j] = o[k] => j = k}

Configured == {k \in Keys : applied[k] # NoEndpoint}

\* Mutant of UAPIUpdate: the endpoint of every peer is written each time.
UAPIUpdateRestamps(order) ==
  [full |-> Configured = {}, remove |-> Configured \ PlanKeys, order |-> order,
   lines |-> {[key |-> k, cidr |-> CidrFor(k), endpoint |-> EndpointFor(k)] : k \in PlanKeys}]

\* UAPIUpdate: a full replacement when nothing was applied, else the difference; an
\* endpoint is written only where it differs from the one this device last wrote.
UAPIUpdate(order) ==
  [full |-> Configured = {}, remove |-> Configured \ PlanKeys, order |-> order,
   lines |-> {[key |-> k, cidr |-> CidrFor(k),
               endpoint |-> IF applied[k] = EndpointFor(k) THEN NoEndpoint ELSE EndpointFor(k)]
              : k \in PlanKeys}]

\* The memory UAPIUpdate returns.
NextApplied == [k \in Keys |-> IF k \in PlanKeys THEN EndpointFor(k) ELSE NoEndpoint]

-----------------------------------------------------------------------------
(* WireGuard's side of IpcSet: an allowed CIDR belongs to one peer, the last to *)
(* claim it; a peer without an endpoint line keeps the endpoint it has.         *)

Keeps(table, text, k) ==
  IF text.full \/ k \in text.remove THEN NoPeer
  ELSE IF table[k] # NoPeer /\ \E l \in text.lines : l.cidr = table[k].cidr /\ l.key # k
       THEN [table[k] EXCEPT !.cidr = NoCidr]
       ELSE table[k]

Program(table, text) ==
  [k \in Keys |->
     IF \E l \in text.lines : l.key = k
     THEN LET l == CHOOSE l \in text.lines : l.key = k
              old == Keeps(table, text, k)
          IN  [endpoint |-> IF l.endpoint # NoEndpoint THEN l.endpoint ELSE old.endpoint,
               cidr |-> l.cidr]
     ELSE Keeps(table, text, k)]

OnUtun == {c \in Cidrs : kernel[c] = "utun"}

-----------------------------------------------------------------------------
(* Up, Apply and Down (device_wireguard.go). *)

\* The device is new: it has no peers, and its applier no memory.
UpOK ==
  /\ ~up /\ op = Idle
  /\ up' = TRUE /\ egress' = TRUE
  /\ wg' = [k \in Keys |-> NoPeer]
  /\ applied' = [k \in Keys |-> NoEndpoint] /\ lastUAPI' = NoText
  /\ heard' = {} /\ blind' = {}
  /\ UNCHANGED <<peers, routeVars, op>>

\* A failed Up closes the device; its lo0 alias may have been added already.
UpFails ==
  /\ ~up /\ op = Idle
  /\ egress' = TRUE
  /\ UNCHANGED <<peers, up, wg, applied, lastUAPI, heard, routeVars, op, blind>>

\* The peer write of an Apply; an update equal to the last one is not written.
Peers(text) ==
  /\ IF text = lastUAPI
     THEN UNCHANGED <<wg, lastUAPI, heard>>
     ELSE /\ wg' = Program(wg, text)
          /\ lastUAPI' = text
          /\ heard' = {k \in heard : \E l \in text.lines : l.key = k /\ l.endpoint = NoEndpoint}
  /\ applied' = NextApplied
  /\ op' = [step |-> "routes", want |-> RouteSet, stale |-> {}]
  /\ UNCHANGED <<peers, up, egress, routeVars, blind>>

ApplyPeers == up /\ op = Idle /\ \E order \in Orders : Peers(UAPIUpdate(order))

\* IpcSet fails: the device holds some of the update, and the memory is dropped.
ApplyPeersFails ==
  /\ up /\ op = Idle
  /\ \E order \in Orders :
       LET text == UAPIUpdate(order)
       IN  /\ text # lastUAPI
           /\ \E r \in SUBSET text.remove, ls \in SUBSET text.lines :
                wg' = Program(wg, [text EXCEPT !.remove = r, !.lines = ls])
  /\ applied' = [k \in Keys |-> NoEndpoint] /\ lastUAPI' = NoText
  /\ heard' = {}
  /\ UNCHANGED <<peers, up, egress, routeVars, op, blind>>

\* The route requests, of which those for D and A are honoured.
Requests(D, A) ==
  /\ kernel' = [c \in Cidrs |->
                  CASE c \in D /\ kernel[c] = "utun" -> "none"
                    [] c \in A /\ kernel[c] = "none" -> "utun"
                    [] OTHER -> kernel[c]]
  /\ op' = [op EXCEPT !.step = "list", !.stale = routes \ op.want]
  /\ UNCHANGED <<peers, devVars, routes, blind>>

\* Only the routes the device does not own are asked for.
ApplyRoutes ==
  /\ op.step = "routes"
  /\ \E D \in SUBSET (routes \ op.want), A \in SUBSET (op.want \ routes) : Requests(D, A)

\* Mutant of ReadBack: what was asked for is taken as installed.
ReadBackTrusts ==
  /\ op.step = "list"
  /\ routes' = op.want \cup (op.stale \cap OnUtun)
  /\ op' = Idle /\ blind' = blind \ op.want
  /\ UNCHANGED <<peers, devVars, kernel>>

\* Mutant of ReadBack: a route that could not be deleted is forgotten.
ReadBackForgets ==
  /\ op.step = "list"
  /\ routes' = op.want \cap OnUtun
  /\ op' = Idle /\ blind' = blind \ op.want
  /\ UNCHANGED <<peers, devVars, kernel>>

\* The table is the verdict: a wanted route that is absent fails the Apply, a stale one
\* that lingers stays owned.
ReadBack ==
  /\ op.step = "list"
  /\ routes' = (op.want \cup op.stale) \cap OnUtun
  /\ op' = Idle /\ blind' = blind \ op.want
  /\ UNCHANGED <<peers, devVars, kernel>>

\* The table cannot be read: the Apply fails with the routes it remembered before.
ReadBackFails ==
  /\ op.step = "list"
  /\ op' = Idle /\ blind' = blind \cup (op.want \ routes)
  /\ UNCHANGED <<peers, devVars, routeVars>>

\* The kernel drops the routes of an interface that is destroyed.
Destroyed == [c \in Cidrs |-> IF kernel[c] = "utun" THEN "none" ELSE kernel[c]]

Gone ==
  /\ up' = FALSE
  /\ wg' = [k \in Keys |-> NoPeer]
  /\ applied' = [k \in Keys |-> NoEndpoint] /\ lastUAPI' = NoText
  /\ kernel' = Destroyed /\ routes' = {} /\ op' = Idle
  /\ heard' = {} /\ blind' = {}

\* The lo0 alias is removed on a best effort.
Down == up /\ op = Idle /\ Gone /\ egress' \in {FALSE, egress} /\ UNCHANGED peers

-----------------------------------------------------------------------------
(* What happens around the device. *)

\* The process dies; the lo0 alias stays.
Crash == up /\ Gone /\ UNCHANGED <<peers, egress>>

ChangePeer(n) ==
  /\ \E s \in SpecsOf[n] \cup {NoSpec} : s # peers[n] /\ peers' = [peers EXCEPT ![n] = s]
  /\ UNCHANGED <<devVars, routeVars, op, blind>>

\* WireGuard moves a peer's endpoint to where its last packet came from.
Roam(k) ==
  /\ wg[k] # NoPeer
  /\ \E e \in Endpoints : e # wg[k].endpoint /\ wg' = [wg EXCEPT ![k].endpoint = e]
  /\ heard' = heard \cup {k}
  /\ UNCHANGED <<peers, up, egress, applied, lastUAPI, routeVars, op, blind>>

\* A route is flushed, or the prefix is taken or given back by another interface.
RouteMoves(c) ==
  /\ \/ kernel[c] = "utun" /\ kernel' = [kernel EXCEPT ![c] = "none"]
     \/ kernel[c] = "none" /\ kernel' = [kernel EXCEPT ![c] = "other"]
     \/ kernel[c] = "other" /\ kernel' = [kernel EXCEPT ![c] = "none"]
  /\ UNCHANGED <<peers, devVars, routes, op, blind>>

Init ==
  /\ peers = [n \in Nodes |-> NoSpec]
  /\ up = FALSE /\ egress = FALSE
  /\ wg = [k \in Keys |-> NoPeer]
  /\ kernel = [c \in Cidrs |-> "none"]
  /\ applied = [k \in Keys |-> NoEndpoint] /\ lastUAPI = NoText
  /\ routes = {} /\ op = Idle
  /\ heard = {} /\ blind = {}

Device == \/ UpOK \/ UpFails \/ ApplyPeers \/ ApplyPeersFails \/ ApplyRoutes
          \/ ReadBack \/ ReadBackFails \/ Down
Around == \/ Crash
          \/ \E n \in Nodes : ChangePeer(n)
          \/ \E k \in Keys : Roam(k)
          \/ \E c \in PerNode \ {Self} : RouteMoves(c)
Next == Device \/ Around
Spec == Init /\ [][Next]_vars

-----------------------------------------------------------------------------
(* Properties. *)

\* An Apply that is skipped because its text is the one last written (Apply's
\* comparison with lastUAPI) would have changed nothing in WireGuard, whatever roamed,
\* failed or was removed in between.
SkipIsNoOp ==
  up /\ op = Idle => \A order \in Orders :
    UAPIUpdate(order) = lastUAPI => Program(wg, lastUAPI) = wg

\* What the applier remembers is what the device holds: the peers of the last update,
\* each with its CIDR. The incremental updates start from it, and say nothing of a peer
\* it does not know.
MemoryIsDevice ==
  lastUAPI # NoText =>
    /\ Configured = {k \in Keys : wg[k] # NoPeer}
    /\ Configured = {l.key : l \in lastUAPI.lines}
    /\ \A l \in lastUAPI.lines : wg[l.key].cidr = l.cidr

\* A peer that was not heard from since is at the endpoint last programmed: an
\* operator's move of a MeshPeer reaches a peer that is already configured.
EndpointInForce ==
  \A k \in Configured \ heard : wg[k].endpoint = applied[k]

\* A successful or skipped peer write leaves a roamed peer where WireGuard found it,
\* unless the MeshPeer's endpoint was moved (the endpoint-roaming contract).
RoamedStays ==
  [][op.step = "idle" /\ op'.step = "routes" =>
       \A k \in heard \cap Configured : applied'[k] = applied[k] => wg'[k].endpoint = wg[k].endpoint]_vars

\* A route of this device that is in the kernel's table is known to it, and so will be
\* deleted once it is not wanted; the exceptions are the routes that an Apply asked for
\* and then could not read back, until an Apply that wants them reads the table.
RoutesOwned ==
  op = Idle => OnUtun \subseteq routes \cup blind

\* WireGuard and the routes are as the plan has them; a peer that roamed is where it was
\* last heard.
InSync ==
  /\ up /\ RouteSet \subseteq OnUtun
  /\ \A k \in Keys \ PlanKeys : wg[k] = NoPeer
  /\ \A k \in PlanKeys : /\ wg[k].cidr = CidrFor(k)
                         /\ wg[k].endpoint = EndpointFor(k) \/ k \in heard

\* Once the MeshPeers and the kernel are left alone and WireGuard takes its updates, the
\* resyncs bring the device to the plan and keep it there, however many route requests
\* and read-backs fail: a route that vanished is asked for again although the device
\* thought it owned it.
Converges ==
  /\ <>[][~Around /\ ~Down /\ ~ApplyPeersFails]_vars
  /\ <>[](\A c \in Cidrs : kernel[c] # "other")
  => <>[]InSync
=============================================================================
