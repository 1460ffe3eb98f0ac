--------------------------- MODULE WatcherProofs ----------------------------
(***************************************************************************)
(* The safety of the components that follow a state changed elsewhere: the *)
(* mesh device, the NodePorts, the link events and the NetworkPolicy       *)
(* verdicts.                                                               *)
(*                                                                         *)
(* The mesh device, for any number of nodes, keys and endpoints: what its  *)
(* applier remembers is what WireGuard holds, a skipped update would have  *)
(* changed nothing, a roamed peer is left where it is, and the routes in   *)
(* the kernel are known to the device. The memory (applied, lastUAPI) is   *)
(* dropped whenever an update fails, so Memory relates it to the device at *)
(* every moment, not only after a successful Apply; the routes are         *)
(* followed through the three steps of an Apply (RoutesKnown).             *)
(*                                                                         *)
(* The NodePorts, for any number of ports, interfaces and specs:           *)
(* NodePortsBound is kept by a failure only because what the holder of the *)
(* lock has bound is not yet any group's (Underway): closing it takes      *)
(* nothing from an open port.                                              *)
(*                                                                         *)
(* The link events, for channels of any capacity: whatever Debounce shows  *)
(* last came from one of two sources, and each is traced to what it last   *)
(* knew of the interface (PollTrue, SocketTrue, RouteTrue); ShownTrue says *)
(* which.                                                                  *)
(*                                                                         *)
(* The verdicts, for any objects and addresses: while no notification is   *)
(* due, what a pass has listed is what the stores hold (PassCurrent), and  *)
(* what a table that was resolved from the stores says is what             *)
(* NetworkPolicy says of them (Verdict).                                   *)
(***************************************************************************)
EXTENDS MeshDevice, NodePortSet, LinkWatch, PolicyWatch, TLAPS

-----------------------------------------------------------------------------
(* The mesh device. *)

\* Without a text nothing is remembered; with one, its lines are the configured peers,
\* each with its CIDR in WireGuard, and an endpoint it wrote is the one remembered.
Memory ==
  /\ lastUAPI = NoText => Configured = {}
  /\ lastUAPI # NoText =>
       /\ \A k \in Keys : wg[k] # NoPeer <=> k \in Configured
       /\ \A k \in Keys : k \in Configured <=> \E l \in lastUAPI.lines : l.key = k
       /\ \A l \in lastUAPI.lines :
            /\ wg[l.key].cidr = l.cidr
            /\ l.endpoint # NoEndpoint => applied[l.key] = l.endpoint

\* The routes on the utun are owned, or about to be found by the read-back.
RoutesKnown ==
  /\ op.step = "idle" => op = Idle
  /\ ~up => op = Idle /\ OnUtun = {}
  /\ op.step # "list" => OnUtun \subseteq routes \cup blind
  /\ op.step = "list" => OnUtun \subseteq op.want \cup op.stale \cup blind /\ op.stale = routes \ op.want

IInv == TypeOK /\ Memory /\ EndpointInForce /\ RoutesKnown

-----------------------------------------------------------------------------
(* The plan. *)

\* A key of the plan is the key of one included MeshPeer.
LEMMA PlanPeer ==
  ASSUME TypeOK, NEW k \in PlanKeys
  PROVE  /\ (CHOOSE n \in Included : peers[n].key = k) \in Included
         /\ peers[CHOOSE n \in Included : peers[n].key = k].key = k
BY Zenon DEF PlanKeys

\* What the plan says of a key.
LEMMA PlanTyped ==
  ASSUME TypeOK, NEW k \in PlanKeys
  PROVE  k \in Keys /\ EndpointFor(k) \in Endpoints /\ CidrFor(k) \in Cidrs
<1>. DEFINE n == CHOOSE n \in Included : peers[n].key = k
<1>1. n \in Included /\ peers[n].key = k
  BY PlanPeer, Zenon
<1>2. n \in Nodes /\ peers[n] \in Specs
  BY <1>1, Zenon DEF Included, TypeOK
<1>3. SelectEndpoint(peers[n]) \in Endpoints
  BY <1>2, Zenon DEF Specs, SelectEndpoint
<1>. QED  BY <1>1, <1>2, <1>3, Zenon DEF EndpointFor, CidrFor, Specs

-----------------------------------------------------------------------------
(* The update. *)

\* The line of a planned key.
LineFor(k) ==
  [key |-> k, cidr |-> CidrFor(k),
   endpoint |-> IF applied[k] = EndpointFor(k) THEN NoEndpoint ELSE EndpointFor(k)]

\* The fields of an update, and its lines one by one.
LEMMA TextFields ==
  ASSUME TypeOK, NEW order \in Orders
  PROVE  LET text == UAPIUpdate(order)
         IN  /\ text.full \in BOOLEAN /\ (text.full <=> Configured = {})
             /\ text.remove = Configured \ PlanKeys
             /\ \A l \in text.lines : l.key \in PlanKeys /\ l = LineFor(l.key)
             /\ \A k \in PlanKeys : LineFor(k) \in text.lines /\ LineFor(k).key = k
<1>. DEFINE text == UAPIUpdate(order)
<1>1. text = [full |-> Configured = {}, remove |-> Configured \ PlanKeys, order |-> order,
              lines |-> {LineFor(k) : k \in PlanKeys}]
  BY Zenon DEF UAPIUpdate, LineFor
<1>2. \A k \in PlanKeys : LineFor(k).key = k
  BY Zenon DEF LineFor
<1>3. text.full = (Configured = {}) /\ text.remove = Configured \ PlanKeys
  BY <1>1
<1>4. text.lines = {LineFor(k) : k \in PlanKeys}
  BY <1>1
<1>. HIDE DEF text
<1>5. /\ \A l \in text.lines : l.key \in PlanKeys /\ l = LineFor(l.key)
      /\ \A k \in PlanKeys : LineFor(k) \in text.lines
  BY <1>2, <1>4, Zenon
<1>. QED  BY <1>2, <1>3, <1>5, Zenon DEF text

\* An update is a text, so never the empty one of a new device.
LEMMA TextTyped ==
  ASSUME TypeOK, NEW order \in Orders
  PROVE  UAPIUpdate(order) \in Texts /\ UAPIUpdate(order) # NoText
<1>1. PlanKeys \in SUBSET Keys
  BY PlanTyped, Zenon
<1>2. order \in [PlanKeys -> PlanKeys]
  BY Zenon DEF Orders
<1>3. order \in UNION {[S -> S] : S \in SUBSET Keys}
  BY <1>1, <1>2, Zenon
<1>4. \A k \in PlanKeys : LineFor(k) \in Lines
  BY PlanTyped, Zenon DEF LineFor, Lines
<1>5. {LineFor(k) : k \in PlanKeys} \in SUBSET Lines
  BY <1>4, Zenon
<1>6. Configured \ PlanKeys \in SUBSET Keys
  BY Zenon DEF Configured
<1>7. UAPIUpdate(order) =
        [full |-> Configured = {}, remove |-> Configured \ PlanKeys, order |-> order,
         lines |-> {LineFor(k) : k \in PlanKeys}]
  BY Zenon DEF UAPIUpdate, LineFor
<1>8. UAPIUpdate(order) \in Texts
  BY <1>3, <1>5, <1>6, <1>7 DEF Texts
<1>. QED  BY <1>8, MeshAssumption, Zenon

\* A key whose endpoint the update leaves out is configured, and held by WireGuard.
LEMMA LeftOut ==
  ASSUME TypeOK, Memory, NEW k \in PlanKeys, applied[k] = EndpointFor(k)
  PROVE  k \in Configured /\ wg[k] # NoPeer /\ wg[k].endpoint \in Endpoints
<1>1. k \in Keys /\ applied[k] # NoEndpoint
  BY PlanTyped, MeshAssumption, Zenon
<1>2. k \in Configured
  BY <1>1, Zenon DEF Configured
<1>3. wg[k] # NoPeer
  BY <1>1, <1>2, Zenon DEF Memory
<1>4. wg[k] \in [endpoint : Endpoints, cidr : Cidrs \cup {NoCidr}]
  BY <1>1, <1>3, Zenon DEF TypeOK
<1>. QED  BY <1>2, <1>3, <1>4, Zenon

\* What WireGuard keeps of a peer before an update's lines.
LEMMA KeepsTyped ==
  ASSUME TypeOK, NEW text, NEW k \in Keys
  PROVE  /\ Keeps(wg, text, k) \in [endpoint : Endpoints, cidr : Cidrs \cup {NoCidr}] \cup {NoPeer}
         /\ ~text.full /\ k \notin text.remove =>
              Keeps(wg, text, k).endpoint = wg[k].endpoint
         /\ ~text.full /\ wg[k] = NoPeer => Keeps(wg, text, k) = NoPeer
<1>1. wg[k] # NoPeer => wg[k] \in [endpoint : Endpoints, cidr : Cidrs \cup {NoCidr}]
  BY Zenon DEF TypeOK
<1>2. wg[k] # NoPeer => /\ [wg[k] EXCEPT !.cidr = NoCidr]
                             \in [endpoint : Endpoints, cidr : Cidrs \cup {NoCidr}]
                        /\ [wg[k] EXCEPT !.cidr = NoCidr].endpoint = wg[k].endpoint
  BY <1>1, Zenon
<1>. QED  BY <1>1, <1>2, Zenon DEF Keeps

\* WireGuard's table has its type after an update, also after one cut short.
LEMMA ProgramTyped ==
  ASSUME TypeOK, Memory, NEW order \in Orders, NEW text,
         text.full = UAPIUpdate(order).full,
         text.remove \in SUBSET UAPIUpdate(order).remove,
         text.lines \in SUBSET UAPIUpdate(order).lines
  PROVE  Program(wg, text)
           \in [Keys -> [endpoint : Endpoints, cidr : Cidrs \cup {NoCidr}] \cup {NoPeer}]
<1>. DEFINE Peer == [endpoint : Endpoints, cidr : Cidrs \cup {NoCidr}]
<1>. SUFFICES ASSUME NEW k \in Keys
              PROVE  Program(wg, text)[k] \in Peer \cup {NoPeer}
  BY Zenon DEF Program
<1>1. CASE ~\E l \in text.lines : l.key = k
  <2>1. Program(wg, text)[k] = Keeps(wg, text, k)
    BY <1>1, Zenon DEF Program
  <2>. QED  BY <2>1, KeepsTyped, Zenon
<1>2. CASE \E l \in text.lines : l.key = k
  <2>. DEFINE l == CHOOSE l \in text.lines : l.key = k
              old == Keeps(wg, text, k)
  <2>1. l \in UAPIUpdate(order).lines /\ l.key = k
    BY <1>2, Zenon
  <2>2. k \in PlanKeys /\ l = LineFor(k)
    BY <2>1, TextFields
  <2>3. l.cidr \in Cidrs /\ l.endpoint \in Endpoints \cup {NoEndpoint}
    <3>. HIDE DEF l
    <3>. QED  BY <2>2, PlanTyped, Zenon DEF LineFor
  <2>4. l.endpoint = NoEndpoint => old.endpoint \in Endpoints
    <3>. SUFFICES ASSUME l.endpoint = NoEndpoint PROVE old.endpoint \in Endpoints
      BY Zenon
    <3>. HIDE DEF l
    <3>1. applied[k] = EndpointFor(k)
      BY <2>2, PlanTyped, MeshAssumption DEF LineFor
    <3>2. k \in Configured /\ wg[k].endpoint \in Endpoints
      BY <2>2, <3>1, LeftOut, Zenon
    <3>3. ~text.full /\ k \notin text.remove
      BY <2>2, <3>2, TextFields, Zenon
    <3>. QED  BY <3>2, <3>3, KeepsTyped, Zenon
  <2>5. Program(wg, text)[k] =
          [endpoint |-> IF l.endpoint # NoEndpoint THEN l.endpoint ELSE old.endpoint,
           cidr |-> l.cidr]
    BY <1>2, Zenon DEF Program
  <2>6. (IF l.endpoint # NoEndpoint THEN l.endpoint ELSE old.endpoint) \in Endpoints
    BY <2>3, <2>4, Zenon
  <2>. HIDE DEF l, old
  <2>. QED  BY <2>3, <2>5, <2>6
<1>. QED  BY <1>1, <1>2, Zenon

\* What WireGuard holds after a complete update: the planned peers and no other, each
\* with its CIDR, at the planned endpoint or where it was when none was written.
LEMMA Programmed ==
  ASSUME TypeOK, Memory, NEW order \in Orders, NEW k \in Keys
  PROVE  LET new == Program(wg, UAPIUpdate(order))[k]
         IN  /\ k \notin PlanKeys => new = NoPeer
             /\ k \in PlanKeys =>
                  new = [endpoint |-> IF applied[k] = EndpointFor(k) THEN wg[k].endpoint
                                      ELSE EndpointFor(k),
                         cidr |-> CidrFor(k)]
<1>. DEFINE text == UAPIUpdate(order)
            new == Program(wg, text)[k]
<1>1. CASE k \notin PlanKeys
  <2>1. ~\E l \in text.lines : l.key = k
    BY <1>1, TextFields
  <2>2. new = Keeps(wg, text, k)
    BY <2>1, Zenon DEF Program
  <2>3. CASE text.full \/ k \in text.remove
    <3>. HIDE DEF text
    <3>1. Keeps(wg, text, k) = NoPeer
      BY <2>3, Zenon DEF Keeps
    <3>. QED  BY <1>1, <2>2, <3>1, Zenon DEF text
  <2>4. CASE ~text.full /\ k \notin text.remove
    <3>1. Configured # {} /\ k \notin Configured
      BY <1>1, <2>4, TextFields, Zenon
    <3>2. lastUAPI # NoText
      BY <3>1, Zenon DEF Memory
    <3>3. wg[k] = NoPeer
      BY <3>1, <3>2, Zenon DEF Memory
    <3>. HIDE DEF text
    <3>4. Keeps(wg, text, k) = NoPeer
      BY <2>4, <3>3, Zenon DEF Keeps
    <3>. QED  BY <1>1, <2>2, <3>4 DEF text
  <2>. QED  BY <1>1, <2>3, <2>4, Zenon
<1>2. CASE k \in PlanKeys
  <2>. DEFINE l == CHOOSE l \in text.lines : l.key = k
              old == Keeps(wg, text, k)
  <2>1. \E x \in text.lines : x.key = k
    BY <1>2, TextFields, Zenon
  <2>2. l = LineFor(k)
    BY <2>1, TextFields, Zenon
  <2>3. new = [endpoint |-> IF l.endpoint # NoEndpoint THEN l.endpoint ELSE old.endpoint,
               cidr |-> l.cidr]
    BY <2>1, Zenon DEF Program
  <2>. HIDE DEF l
  <2>4. l.cidr = CidrFor(k)
    BY <2>2, Zenon DEF LineFor
  <2>5. CASE applied[k] = EndpointFor(k)
    <3>1. l.endpoint = NoEndpoint
      BY <2>2, <2>5, Zenon DEF LineFor
    <3>2. k \in Configured
      BY <1>2, <2>5, LeftOut, Zenon
    <3>3. ~text.full /\ k \notin text.remove
      BY <1>2, <3>2, TextFields, Zenon
    <3>4. old.endpoint = wg[k].endpoint
      BY <3>3, KeepsTyped, Zenon
    <3>. HIDE DEF l, old, text, new
    <3>5. new = [endpoint |-> wg[k].endpoint, cidr |-> CidrFor(k)]
      BY <2>3, <2>4, <3>1, <3>4, Zenon
    <3>. QED  BY <1>2, <2>5, <3>5, Zenon DEF new, text
  <2>6. CASE applied[k] # EndpointFor(k)
    <3>1. l.endpoint = EndpointFor(k) /\ l.endpoint # NoEndpoint
      BY <1>2, <2>2, <2>6, PlanTyped, MeshAssumption, Zenon DEF LineFor
    <3>. HIDE DEF l, old, text, new
    <3>2. new = [endpoint |-> EndpointFor(k), cidr |-> CidrFor(k)]
      BY <2>3, <2>4, <3>1, Zenon
    <3>. QED  BY <1>2, <2>6, <3>2, Zenon DEF new, text
  <2>. QED  BY <2>5, <2>6, Zenon
<1>. QED  BY <1>1, <1>2, Zenon

-----------------------------------------------------------------------------
(* The peer write. *)

\* The plan's keys are the configured ones once it is applied.
LEMMA NextConfigured ==
  ASSUME TypeOK, applied' = NextApplied
  PROVE  /\ applied' \in [Keys -> Endpoints \cup {NoEndpoint}]
         /\ Configured' = PlanKeys
         /\ \A k \in PlanKeys : applied'[k] = EndpointFor(k)
<1>1. \A k \in PlanKeys : k \in Keys /\ EndpointFor(k) \in Endpoints /\ EndpointFor(k) # NoEndpoint
  BY PlanTyped, MeshAssumption, Zenon
<1>2. applied' \in [Keys -> Endpoints \cup {NoEndpoint}]
  BY <1>1, Zenon DEF NextApplied
<1>3. \A k \in Keys : applied'[k] = IF k \in PlanKeys THEN EndpointFor(k) ELSE NoEndpoint
  BY Zenon DEF NextApplied
<1>4. \A k \in PlanKeys : applied'[k] = EndpointFor(k)
  BY <1>1, <1>3, Zenon
<1>5. Configured' = {k \in Keys : applied'[k] # NoEndpoint}
  BY Zenon DEF Configured
<1>6. {k \in Keys : applied'[k] # NoEndpoint} = PlanKeys
  BY <1>1, <1>3, Zenon
<1>. QED  BY <1>2, <1>4, <1>5, <1>6, Zenon

\* An update equal to the last one asks for what is remembered already.
LEMMA SameUpdate ==
  ASSUME TypeOK, Memory, NEW order \in Orders, UAPIUpdate(order) = lastUAPI
  PROVE  /\ Configured = PlanKeys
         /\ \A k \in PlanKeys : applied[k] = EndpointFor(k) /\ wg[k].cidr = CidrFor(k)
         /\ NextApplied = applied
<1>1. lastUAPI # NoText
  BY TextTyped, Zenon
<1>2. /\ \A l \in lastUAPI.lines : l.key \in PlanKeys /\ l = LineFor(l.key)
      /\ \A k \in PlanKeys : LineFor(k) \in lastUAPI.lines /\ LineFor(k).key = k
  BY TextFields, Zenon
<1>3. \A k \in Keys : k \in Configured <=> k \in PlanKeys
  BY <1>1, <1>2 DEF Memory
<1>4. Configured = PlanKeys
  BY <1>3, PlanTyped, Zenon DEF Configured
<1>5. ASSUME NEW k \in PlanKeys
      PROVE  applied[k] = EndpointFor(k) /\ wg[k].cidr = CidrFor(k)
  <2>1. /\ wg[k].cidr = LineFor(k).cidr
        /\ LineFor(k).endpoint # NoEndpoint => applied[k] = LineFor(k).endpoint
    BY <1>1, <1>2, Zenon DEF Memory
  <2>2. EndpointFor(k) # NoEndpoint
    BY PlanTyped, MeshAssumption, Zenon
  <2>. QED  BY <2>1, <2>2, Zenon DEF LineFor
<1>6. applied \in [Keys -> Endpoints \cup {NoEndpoint}]
  BY Zenon DEF TypeOK
<1>7. \A k \in Keys : k \notin PlanKeys => applied[k] = NoEndpoint
  BY <1>4, Zenon DEF Configured
<1>8. NextApplied = applied
  BY <1>5, <1>6, <1>7, Zenon DEF NextApplied
<1>. QED  BY <1>4, <1>5, <1>8, Zenon

\* The routes wanted are routes of other nodes.
LEMMA RoutesTyped ==
  ASSUME TypeOK
  PROVE  RouteSet \in SUBSET (PerNode \ {Self})
BY Zenon DEF RouteSet, Included

\* The memory of the device after an update is written: WireGuard holds the plan.
LEMMA WriteRemembers ==
  ASSUME TypeOK, Memory, EndpointInForce, NEW order \in Orders,
         wg' = Program(wg, UAPIUpdate(order)), lastUAPI' = UAPIUpdate(order),
         heard' = {k \in heard : \E l \in UAPIUpdate(order).lines :
                                   l.key = k /\ l.endpoint = NoEndpoint},
         applied' = NextApplied
  PROVE  Memory' /\ EndpointInForce'
<1>. DEFINE text == UAPIUpdate(order)
<1>1. /\ Configured' = PlanKeys
      /\ \A k \in PlanKeys : applied'[k] = EndpointFor(k)
  BY NextConfigured, Zenon
<1>2. \A k \in Keys :
        /\ k \notin PlanKeys => wg'[k] = NoPeer
        /\ k \in PlanKeys =>
             wg'[k] = [endpoint |-> IF applied[k] = EndpointFor(k) THEN wg[k].endpoint
                                    ELSE EndpointFor(k),
                       cidr |-> CidrFor(k)]
  BY Programmed, Zenon
<1>3. ASSUME NEW k \in PlanKeys
      PROVE  /\ k \in Keys /\ wg'[k] # NoPeer /\ wg'[k].cidr = CidrFor(k)
             /\ applied[k] # EndpointFor(k) => wg'[k].endpoint = EndpointFor(k)
             /\ applied[k] = EndpointFor(k) => wg'[k].endpoint = wg[k].endpoint
  <2>1. k \in Keys /\ EndpointFor(k) \in Endpoints
    BY PlanTyped, Zenon
  <2>2. applied[k] = EndpointFor(k) => wg[k].endpoint \in Endpoints
    BY LeftOut, Zenon
  <2>3. CASE applied[k] = EndpointFor(k)
    <3>1. wg'[k] = [endpoint |-> wg[k].endpoint, cidr |-> CidrFor(k)]
      BY <1>2, <2>1, <2>3, Zenon
    <3>. QED  BY <2>1, <2>2, <2>3, <3>1, MeshAssumption DEF NoPeer
  <2>4. CASE applied[k] # EndpointFor(k)
    <3>1. wg'[k] = [endpoint |-> EndpointFor(k), cidr |-> CidrFor(k)]
      BY <1>2, <2>1, <2>4, Zenon
    <3>. QED  BY <2>1, <2>4, <3>1, MeshAssumption DEF NoPeer
  <2>. QED  BY <2>3, <2>4, Zenon
<1>4. /\ \A l \in text.lines : l.key \in PlanKeys /\ l = LineFor(l.key)
      /\ \A k \in PlanKeys : LineFor(k) \in text.lines /\ LineFor(k).key = k
  BY TextFields, Zenon
<1>5. lastUAPI' = text /\ text # NoText
  BY TextTyped, Zenon
<1>. HIDE DEF text
<1>6. \A k \in Keys : wg'[k] # NoPeer <=> k \in PlanKeys
  BY <1>2, <1>3, Zenon
<1>7. \A k \in Keys : k \in PlanKeys <=> \E l \in text.lines : l.key = k
  BY <1>4, Zenon
<1>8. ASSUME NEW l \in text.lines
      PROVE  /\ wg'[l.key].cidr = l.cidr
             /\ l.endpoint # NoEndpoint => applied'[l.key] = l.endpoint
  <2>1. l.key \in PlanKeys /\ l = LineFor(l.key)
    BY <1>4, Zenon
  <2>2. l.cidr = CidrFor(l.key) /\ (l.endpoint # NoEndpoint => l.endpoint = EndpointFor(l.key))
    BY <2>1 DEF LineFor
  <2>. QED  BY <1>1, <1>3, <2>1, <2>2, Zenon
<1>9. Memory'
  BY <1>1, <1>5, <1>6, <1>7, <1>8, Zenon DEF Memory
<1>10. ASSUME NEW k \in Configured', k \notin heard'
       PROVE  wg'[k].endpoint = applied'[k]
  <2>1. k \in PlanKeys
    BY <1>1, Zenon
  <2>2. CASE applied[k] # EndpointFor(k)
    BY <1>1, <1>3, <2>1, <2>2, Zenon
  <2>3. CASE applied[k] = EndpointFor(k)
    <3>1. LineFor(k) \in text.lines /\ LineFor(k).key = k /\ LineFor(k).endpoint = NoEndpoint
      BY <1>4, <2>1, <2>3, Zenon DEF LineFor
    <3>2. k \notin heard
      BY <1>10, <3>1, Zenon DEF text
    <3>3. k \in Configured
      BY <2>1, <2>3, LeftOut, Zenon
    <3>4. wg[k].endpoint = applied[k]
      BY <3>2, <3>3, Zenon DEF EndpointInForce
    <3>. QED  BY <1>1, <1>3, <2>1, <2>3, <3>4, Zenon
  <2>. QED  BY <2>2, <2>3, Zenon
<1>11. EndpointInForce'
  BY <1>10, Zenon DEF EndpointInForce
<1>. QED  BY <1>9, <1>11, Zenon

-----------------------------------------------------------------------------
(* The steps. *)

\* The peer write of an Apply keeps the invariant.
LEMMA ApplyPeersStep ==
  ASSUME IInv, ApplyPeers
  PROVE  IInv'
<1>. PICK order \in Orders : up /\ op = Idle /\ Peers(UAPIUpdate(order))
  BY Zenon DEF ApplyPeers
<1>. DEFINE text == UAPIUpdate(order)
<1>1. /\ applied' = NextApplied
      /\ op' = [step |-> "routes", want |-> RouteSet, stale |-> {}]
      /\ UNCHANGED <<peers, up, egress, kernel, routes, blind>>
  BY Zenon DEF Peers, routeVars
<1>2. applied' \in [Keys -> Endpoints \cup {NoEndpoint}]
  BY <1>1, NextConfigured, Zenon DEF IInv
<1>3. op' \in [step : {"idle", "routes", "list"}, want : SUBSET (PerNode \ {Self}),
               stale : SUBSET (PerNode \ {Self})]
  BY <1>1, RoutesTyped, Zenon DEF IInv
<1>4. RoutesKnown'
  <2>1. op.step = "idle"
    BY Zenon DEF Idle
  <2>2. OnUtun \subseteq routes \cup blind
    BY <2>1, Zenon DEF IInv, RoutesKnown
  <2>3. OnUtun' = OnUtun
    BY <1>1, Zenon DEF OnUtun
  <2>4. op'.step = "routes"
    BY <1>1, Zenon
  <2>. QED  BY <1>1, <2>2, <2>3, <2>4, Zenon DEF RoutesKnown
<1>5. CASE text = lastUAPI
  <2>1. UNCHANGED <<wg, lastUAPI, heard>>
    BY <1>5, Zenon DEF Peers
  <2>2. applied' = applied
    BY <1>1, <1>5, SameUpdate, Zenon DEF IInv
  <2>3. TypeOK'
    BY <1>1, <1>2, <1>3, <2>1, Zenon DEF IInv, TypeOK
  <2>4. Memory' /\ EndpointInForce'
    BY <2>1, <2>2, Zenon DEF IInv, Memory, EndpointInForce, Configured
  <2>. QED  BY <1>4, <2>3, <2>4, Zenon DEF IInv
<1>6. CASE text # lastUAPI
  <2>1. /\ wg' = Program(wg, text)
        /\ lastUAPI' = text
        /\ heard' = {k \in heard : \E l \in text.lines : l.key = k /\ l.endpoint = NoEndpoint}
    BY <1>6, Zenon DEF Peers
  <2>2. wg' \in [Keys -> [endpoint : Endpoints, cidr : Cidrs \cup {NoCidr}] \cup {NoPeer}]
    BY <2>1, ProgramTyped, Zenon DEF IInv
  <2>3. lastUAPI' \in Texts
    BY <2>1, TextTyped, Zenon DEF IInv
  <2>4. heard' \in SUBSET Keys
    BY <2>1, Zenon DEF IInv, TypeOK
  <2>5. TypeOK'
    BY <1>1, <1>2, <1>3, <2>2, <2>3, <2>4, Zenon DEF IInv, TypeOK
  <2>6. Memory' /\ EndpointInForce'
    BY <1>1, <2>1, WriteRemembers, Zenon DEF IInv
  <2>. QED  BY <1>4, <2>5, <2>6 DEF IInv
<1>. QED  BY <1>5, <1>6, Zenon

\* A step that leaves the device, its memory and WireGuard's side of it alone.
LEMMA DeviceKept ==
  ASSUME IInv, UNCHANGED <<wg, applied, lastUAPI, heard>>
  PROVE  Memory' /\ EndpointInForce'
BY Zenon DEF IInv, Memory, EndpointInForce, Configured

\* An empty memory promises nothing.
LEMMA Forgotten ==
  ASSUME applied' = [k \in Keys |-> NoEndpoint], lastUAPI' = NoText
  PROVE  Memory' /\ EndpointInForce'
BY Zenon DEF Memory, EndpointInForce, Configured

\* The steps of Up and of a failed peer write.
LEMMA FreshSteps ==
  ASSUME IInv, UpOK \/ UpFails \/ ApplyPeersFails
  PROVE  IInv'
<1>1. CASE UpOK
  <2>1. TypeOK'
    BY <1>1, Zenon DEF IInv, TypeOK, UpOK, routeVars
  <2>2. RoutesKnown'
    BY <1>1, Zenon DEF IInv, RoutesKnown, UpOK, OnUtun, routeVars, Idle
  <2>. QED  BY <1>1, <2>1, <2>2, Forgotten, Zenon DEF UpOK, IInv
<1>2. CASE UpFails
  <2>1. TypeOK'
    BY <1>2, Zenon DEF IInv, TypeOK, UpFails, routeVars
  <2>2. RoutesKnown'
    BY <1>2, Zenon DEF IInv, RoutesKnown, UpFails, OnUtun, routeVars
  <2>. QED  BY <1>2, <2>1, <2>2, DeviceKept, Zenon DEF UpFails, IInv
<1>3. CASE ApplyPeersFails
  <2>1. /\ up /\ op = Idle
        /\ applied' = [k \in Keys |-> NoEndpoint] /\ lastUAPI' = NoText /\ heard' = {}
        /\ UNCHANGED <<peers, up, egress, kernel, routes, op, blind>>
    BY <1>3, Zenon DEF ApplyPeersFails, routeVars
  <2>2. PICK order \in Orders :
          \E r \in SUBSET UAPIUpdate(order).remove, ls \in SUBSET UAPIUpdate(order).lines :
            wg' = Program(wg, [UAPIUpdate(order) EXCEPT !.remove = r, !.lines = ls])
    BY <1>3, Zenon DEF ApplyPeersFails
  <2>3. PICK r \in SUBSET UAPIUpdate(order).remove, ls \in SUBSET UAPIUpdate(order).lines :
          wg' = Program(wg, [UAPIUpdate(order) EXCEPT !.remove = r, !.lines = ls])
    BY <2>2, Zenon
  <2>. DEFINE part == [UAPIUpdate(order) EXCEPT !.remove = r, !.lines = ls]
  <2>4. UAPIUpdate(order) \in Texts
    BY TextTyped, Zenon DEF IInv
  <2>5. /\ part.full = UAPIUpdate(order).full
        /\ part.remove \in SUBSET UAPIUpdate(order).remove
        /\ part.lines \in SUBSET UAPIUpdate(order).lines
    BY <2>4, Zenon DEF Texts
  <2>6. wg' \in [Keys -> [endpoint : Endpoints, cidr : Cidrs \cup {NoCidr}] \cup {NoPeer}]
    <3>. HIDE DEF part
    <3>. QED  BY <2>3, <2>5, ProgramTyped, Zenon DEF IInv, part
  <2>7. TypeOK'
    BY <2>1, <2>6, Zenon DEF IInv, TypeOK
  <2>8. RoutesKnown'
    BY <2>1, Zenon DEF IInv, RoutesKnown, OnUtun
  <2>. QED  BY <2>1, <2>7, <2>8, Forgotten, Zenon DEF IInv
<1>. QED  BY <1>1, <1>2, <1>3, Zenon

\* The route requests and the read-back.
LEMMA RouteSteps ==
  ASSUME IInv, ApplyRoutes \/ ReadBack \/ ReadBackFails
  PROVE  IInv'
<1>1. CASE ApplyRoutes
  <2>1. PICK D \in SUBSET (routes \ op.want), A \in SUBSET (op.want \ routes) : Requests(D, A)
    BY <1>1, Zenon DEF ApplyRoutes
  <2>2. /\ op.step = "routes"
        /\ UNCHANGED <<peers, up, egress, wg, applied, lastUAPI, heard, routes, blind>>
    BY <1>1, <2>1, Zenon DEF ApplyRoutes, Requests, devVars
  <2>3. /\ op' \in [step : {"idle", "routes", "list"}, want : SUBSET (PerNode \ {Self}),
                    stale : SUBSET (PerNode \ {Self})]
        /\ op'.step = "list" /\ op'.want = op.want /\ op'.stale = routes \ op.want
    BY <2>1, Zenon DEF IInv, TypeOK, Requests
  <2>4. \A c \in Cidrs : kernel'[c] \in {"none", "utun", "other"}
                         /\ (kernel'[c] = "utun" => kernel[c] = "utun" \/ c \in A)
    BY <2>1, Zenon DEF IInv, TypeOK, Requests
  <2>5. kernel' \in [Cidrs -> {"none", "utun", "other"}]
    BY <2>1, <2>4, Zenon DEF Requests
  <2>6. OnUtun' \subseteq OnUtun \cup A
    BY <2>4, Zenon DEF OnUtun
  <2>7. OnUtun \subseteq routes \cup blind
    BY <2>2, Zenon DEF IInv, RoutesKnown
  <2>8. up
    BY <2>2 DEF IInv, RoutesKnown, Idle
  <2>9. RoutesKnown'
    BY <2>2, <2>3, <2>6, <2>7, <2>8, Zenon DEF RoutesKnown
  <2>10. TypeOK'
    BY <2>2, <2>3, <2>5, Zenon DEF IInv, TypeOK
  <2>. QED  BY <2>2, <2>9, <2>10, DeviceKept, Zenon DEF IInv
<1>2. CASE ReadBack
  <2>1. /\ op.step = "list" /\ op' = Idle /\ blind' = blind \ op.want
        /\ routes' = (op.want \cup op.stale) \cap OnUtun
        /\ UNCHANGED <<peers, up, egress, wg, applied, lastUAPI, heard, kernel>>
    BY <1>2, Zenon DEF ReadBack, devVars
  <2>2. TypeOK'
    BY <2>1, Zenon DEF IInv, TypeOK, Idle
  <2>3. ~up => OnUtun = {}
    BY Zenon DEF IInv, RoutesKnown
  <2>4. OnUtun \subseteq op.want \cup op.stale \cup blind
    BY <2>1, Zenon DEF IInv, RoutesKnown
  <2>5. OnUtun' = OnUtun
    BY <2>1, Zenon DEF OnUtun
  <2>6. RoutesKnown'
    BY <2>1, <2>3, <2>4, <2>5, Zenon DEF RoutesKnown, Idle
  <2>. QED  BY <2>1, <2>2, <2>6, DeviceKept, Zenon DEF IInv
<1>3. CASE ReadBackFails
  <2>1. /\ op' = Idle /\ op.step = "list" /\ blind' = blind \cup (op.want \ routes)
        /\ UNCHANGED <<peers, up, egress, wg, applied, lastUAPI, heard, kernel, routes>>
    BY <1>3, Zenon DEF ReadBackFails, devVars, routeVars
  <2>2. TypeOK'
    BY <2>1, Zenon DEF IInv, TypeOK, Idle
  <2>3. RoutesKnown'
    <3>1. OnUtun \subseteq op.want \cup op.stale \cup blind /\ op.stale = routes \ op.want
          /\ (~up => OnUtun = {})
      BY <2>1, Zenon DEF IInv, RoutesKnown
    <3>2. OnUtun' = OnUtun
      BY <2>1, Zenon DEF OnUtun
    <3>3. OnUtun \subseteq routes \cup blind'
      BY <2>1, <3>1, Zenon
    <3>. QED  BY <2>1, <3>1, <3>2, <3>3, Zenon DEF RoutesKnown, Idle
  <2>. QED  BY <2>1, <2>2, <2>3, DeviceKept, Zenon DEF IInv
<1>. QED  BY <1>1, <1>2, <1>3

\* The device goes, with its routes: Down, or a crash.
LEMMA GoneStep ==
  ASSUME IInv, Gone, UNCHANGED peers, egress' \in BOOLEAN
  PROVE  IInv'
<1>1. \A c \in Cidrs : kernel'[c] \in {"none", "other"}
  BY Zenon DEF IInv, TypeOK, Gone, Destroyed
<1>2. kernel' \in [Cidrs -> {"none", "utun", "other"}]
  BY <1>1, Zenon DEF Gone, Destroyed
<1>3. TypeOK'
  BY <1>2, Zenon DEF IInv, TypeOK, Gone, Idle
<1>4. OnUtun' = {}
  BY <1>1, Zenon DEF OnUtun
<1>5. RoutesKnown'
  BY <1>4, Zenon DEF RoutesKnown, Gone, Idle
<1>. QED  BY <1>3, <1>5, Forgotten, Zenon DEF Gone, IInv

\* What happens around the device.
LEMMA AroundSteps ==
  ASSUME IInv, Down \/ Around
  PROVE  IInv'
<1>1. CASE Down
  BY <1>1, GoneStep, Zenon DEF Down, IInv, TypeOK
<1>2. CASE Crash
  BY <1>2, GoneStep, Zenon DEF Crash, IInv, TypeOK
<1>3. ASSUME NEW n \in Nodes, ChangePeer(n)
      PROVE  IInv'
  <2>1. UNCHANGED <<up, egress, wg, applied, lastUAPI, heard, kernel, routes, op, blind>>
    BY <1>3, Zenon DEF ChangePeer, devVars, routeVars
  <2>2. PICK s \in SpecsOf[n] \cup {NoSpec} : peers' = [peers EXCEPT ![n] = s]
    BY <1>3, Zenon DEF ChangePeer
  <2>3. peers' \in [Nodes -> Specs \cup {NoSpec}]
    BY <2>2, MeshAssumption, Zenon DEF IInv, TypeOK
  <2>4. TypeOK'
    BY <2>1, <2>3, Zenon DEF IInv, TypeOK
  <2>5. RoutesKnown'
    BY <2>1, Zenon DEF IInv, RoutesKnown, OnUtun
  <2>. QED  BY <2>1, <2>4, <2>5, DeviceKept, Zenon DEF IInv
<1>4. ASSUME NEW k \in Keys, Roam(k)
      PROVE  IInv'
  <2>. DEFINE Peer == [endpoint : Endpoints, cidr : Cidrs \cup {NoCidr}]
  <2>1. /\ wg[k] # NoPeer /\ heard' = heard \cup {k}
        /\ UNCHANGED <<peers, up, egress, applied, lastUAPI, kernel, routes, op, blind>>
    BY <1>4, Zenon DEF Roam, routeVars
  <2>2. PICK e \in Endpoints : wg' = [wg EXCEPT ![k].endpoint = e]
    BY <1>4, Zenon DEF Roam
  <2>3. wg[k] \in Peer
    BY <2>1, Zenon DEF IInv, TypeOK
  <2>4. [wg[k] EXCEPT !.endpoint = e] \in Peer /\ [wg[k] EXCEPT !.endpoint = e].cidr = wg[k].cidr
    BY <2>3, Zenon
  <2>5. wg \in [Keys -> Peer \cup {NoPeer}]
    BY Zenon DEF IInv, TypeOK
  <2>6. wg' = [wg EXCEPT ![k] = [wg[k] EXCEPT !.endpoint = e]]
    BY <2>2, Zenon
  <2>7. wg'[k] \in Peer /\ wg'[k].cidr = wg[k].cidr /\ \A j \in Keys \ {k} : wg'[j] = wg[j]
    BY <2>4, <2>5, <2>6, Zenon
  <2>8. wg' \in [Keys -> Peer \cup {NoPeer}]
    BY <2>4, <2>5, <2>6, Zenon
  <2>9. wg'[k] # NoPeer
    BY <2>7, MeshAssumption DEF NoPeer
  <2>10. TypeOK'
    BY <2>1, <2>8, Zenon DEF IInv, TypeOK
  <2>11. Memory'
    <3>1. Configured' = Configured
      BY <2>1, Zenon DEF Configured
    <3>2. \A j \in Keys : (wg'[j] # NoPeer <=> wg[j] # NoPeer) /\ wg'[j].cidr = wg[j].cidr
      BY <2>1, <2>7, <2>9, Zenon
    <3>3. lastUAPI # NoText => \A l \in lastUAPI.lines : l.key \in Keys
      BY Zenon DEF IInv, TypeOK, Texts, Lines
    <3>. QED  BY <2>1, <3>1, <3>2, <3>3, Zenon DEF IInv, Memory
  <2>12. EndpointInForce'
    BY <2>1, <2>7, Zenon DEF IInv, EndpointInForce, Configured
  <2>13. RoutesKnown'
    BY <2>1, Zenon DEF IInv, RoutesKnown, OnUtun
  <2>. QED  BY <2>10, <2>11, <2>12, <2>13, Zenon DEF IInv
<1>5. ASSUME NEW c \in PerNode \ {Self}, RouteMoves(c)
      PROVE  IInv'
  <2>1. UNCHANGED <<peers, up, egress, wg, applied, lastUAPI, heard, routes, op, blind>>
    BY <1>5, Zenon DEF RouteMoves, devVars
  <2>2. \E v \in {"none", "other"} : kernel' = [kernel EXCEPT ![c] = v]
    BY <1>5, Zenon DEF RouteMoves
  <2>3. kernel' \in [Cidrs -> {"none", "utun", "other"}] /\ OnUtun' \subseteq OnUtun
    BY <2>2, MeshAssumption DEF IInv, TypeOK, OnUtun
  <2>4. TypeOK'
    BY <2>1, <2>3, Zenon DEF IInv, TypeOK
  <2>5. RoutesKnown'
    BY <2>1, <2>3, Zenon DEF IInv, RoutesKnown
  <2>. QED  BY <2>1, <2>4, <2>5, DeviceKept, Zenon DEF IInv
<1>. QED  BY <1>1, <1>2, <1>3, <1>4, <1>5, Zenon DEF Around

-----------------------------------------------------------------------------
(* The theorems. *)

LEMMA Initial == Init => IInv
<1>. SUFFICES ASSUME Init PROVE IInv
  BY Zenon
<1>1. TypeOK
  BY Zenon DEF Init, TypeOK, Idle
<1>2. Memory /\ EndpointInForce
  BY Zenon DEF Init, Memory, EndpointInForce, Configured
<1>3. OnUtun = {}
  BY Zenon DEF Init, OnUtun
<1>4. RoutesKnown
  BY <1>3, Zenon DEF Init, RoutesKnown, Idle
<1>. QED  BY <1>1, <1>2, <1>4, Zenon DEF IInv

LEMMA Preserved == IInv /\ [Next]_vars => IInv'
<1>. SUFFICES ASSUME IInv, [Next]_vars PROVE IInv'
  BY Zenon
<1>1. CASE Device
  BY <1>1, ApplyPeersStep, FreshSteps, RouteSteps, AroundSteps, Zenon DEF Device
<1>2. CASE Around
  BY <1>2, AroundSteps, Zenon
<1>3. CASE UNCHANGED vars
  <2>1. UNCHANGED <<peers, up, egress, wg, applied, lastUAPI, heard, kernel, routes, op, blind>>
    BY <1>3, Zenon DEF vars, devVars, routeVars
  <2>2. TypeOK'
    BY <2>1, Zenon DEF IInv, TypeOK
  <2>3. RoutesKnown'
    BY <2>1, Zenon DEF IInv, RoutesKnown, OnUtun
  <2>. QED  BY <2>1, <2>2, <2>3, DeviceKept, Zenon DEF IInv
<1>. QED  BY <1>1, <1>2, <1>3, Zenon DEF Next

LEMMA Invariance == Spec => []IInv
BY Initial, Preserved, PTL DEF Spec

\* What the applier remembers of WireGuard is what WireGuard holds, after any updates
\* that succeeded, were skipped, or failed half-way (Apply, UAPIUpdate).
THEOREM MemoryHolds == Spec => []MemoryIsDevice
<1>1. ASSUME IInv PROVE MemoryIsDevice
  <2>. SUFFICES ASSUME lastUAPI # NoText
                PROVE  /\ Configured = {k \in Keys : wg[k] # NoPeer}
                       /\ Configured = {l.key : l \in lastUAPI.lines}
                       /\ \A l \in lastUAPI.lines : wg[l.key].cidr = l.cidr
    BY Zenon DEF MemoryIsDevice
  <2>1. Configured \subseteq Keys /\ \A l \in lastUAPI.lines : l.key \in Keys
    BY <1>1, Zenon DEF Configured, IInv, TypeOK, Texts, Lines
  <2>2. /\ \A k \in Keys : wg[k] # NoPeer <=> k \in Configured
        /\ \A k \in Keys : k \in Configured <=> \E l \in lastUAPI.lines : l.key = k
        /\ \A l \in lastUAPI.lines : wg[l.key].cidr = l.cidr
    BY <1>1, Zenon DEF IInv, Memory
  <2>. QED  BY <2>1, <2>2
<1>. QED  BY <1>1, Invariance, PTL

\* A peer that has not roamed is at the endpoint last programmed for it (UAPIUpdate
\* leaves out the endpoints that did not change).
THEOREM EndpointsInForce == Spec => []EndpointInForce
BY Invariance, PTL DEF IInv

\* An update that Apply skips, because it is the text written last, would have left
\* WireGuard as it is.
THEOREM SkipsAreNoOps == Spec => []SkipIsNoOp
<1>1. ASSUME IInv PROVE SkipIsNoOp
  <2>. SUFFICES ASSUME NEW order \in Orders, UAPIUpdate(order) = lastUAPI
                PROVE  Program(wg, lastUAPI) = wg
    BY Zenon DEF SkipIsNoOp
  <2>. USE <1>1 DEF IInv
  <2>1. /\ Configured = PlanKeys
        /\ \A k \in PlanKeys : applied[k] = EndpointFor(k) /\ wg[k].cidr = CidrFor(k)
    BY SameUpdate, Zenon
  <2>2. ASSUME NEW k \in Keys PROVE Program(wg, lastUAPI)[k] = wg[k]
    <3>1. CASE k \in PlanKeys
      <4>1. Program(wg, lastUAPI)[k] = [endpoint |-> wg[k].endpoint, cidr |-> wg[k].cidr]
        BY <2>1, <3>1, Programmed, Zenon
      <4>2. wg[k] \in [endpoint : Endpoints, cidr : Cidrs \cup {NoCidr}]
        BY <2>1, <3>1, LeftOut, Zenon DEF TypeOK
      <4>. QED  BY <4>1, <4>2, Zenon
    <3>2. CASE k \notin PlanKeys
      <4>1. Program(wg, lastUAPI)[k] = NoPeer
        BY <3>2, Programmed, Zenon
      <4>2. lastUAPI # NoText
        BY TextTyped, Zenon
      <4>3. wg[k] = NoPeer
        BY <2>1, <3>2, <4>2, Zenon DEF Memory
      <4>. QED  BY <4>1, <4>3, Zenon
    <3>. QED  BY <3>1, <3>2, Zenon
  <2>3. Program(wg, lastUAPI) \in [Keys -> [endpoint : Endpoints, cidr : Cidrs \cup {NoCidr}] \cup {NoPeer}]
    BY ProgramTyped, Zenon
  <2>4. wg \in [Keys -> [endpoint : Endpoints, cidr : Cidrs \cup {NoCidr}] \cup {NoPeer}]
    BY Zenon DEF TypeOK
  <2>. QED  BY <2>2, <2>3, <2>4
<1>. QED  BY <1>1, Invariance, PTL

\* A peer write leaves a roamed peer where WireGuard found it, unless its MeshPeer moved
\* (the endpoint-roaming contract of UAPIUpdate).
THEOREM RoamingKept == Spec => RoamedStays
<1>. DEFINE Stays ==
       op.step = "idle" /\ op'.step = "routes" =>
         \A k \in heard \cap Configured :
           applied'[k] = applied[k] => wg'[k].endpoint = wg[k].endpoint
<1>1. ASSUME IInv, [Next]_vars PROVE [Stays]_vars
  <2>. SUFFICES ASSUME op.step = "idle", op'.step = "routes",
                       NEW k \in heard \cap Configured, applied'[k] = applied[k]
                PROVE  wg'[k].endpoint = wg[k].endpoint
    BY Zenon
  <2>1. op' # op /\ op' # Idle /\ ~(op'.step = "list") /\ ~(op.step = "routes") /\ ~(op.step = "list")
    BY DEF Idle
  <2>2. ApplyPeers
    <3>1. ~ApplyRoutes
      BY <2>1, Zenon DEF ApplyRoutes
    <3>. QED  BY <1>1, <2>1, <3>1, Zenon DEF Next, Device, Around, UpOK, UpFails, ApplyPeersFails,
                 ReadBack, ReadBackFails, Down, Crash, Gone, ChangePeer, Roam, RouteMoves, vars
  <2>3. PICK order \in Orders : Peers(UAPIUpdate(order))
    BY <2>2, Zenon DEF ApplyPeers
  <2>4. CASE UAPIUpdate(order) = lastUAPI
    BY <2>3, <2>4, Zenon DEF Peers
  <2>5. CASE UAPIUpdate(order) # lastUAPI
    <3>1. wg' = Program(wg, UAPIUpdate(order)) /\ applied' = NextApplied
      BY <2>3, <2>5, Zenon DEF Peers
    <3>2. k \in Keys /\ applied'[k] # NoEndpoint
      BY Zenon DEF Configured
    <3>3. k \in PlanKeys /\ applied[k] = EndpointFor(k)
      BY <3>1, <3>2, Zenon DEF NextApplied
    <3>4. wg'[k] = [endpoint |-> wg[k].endpoint, cidr |-> CidrFor(k)]
      BY <1>1, <3>1, <3>2, <3>3, Programmed, Zenon DEF IInv
    <3>. QED  BY <3>4
  <2>. QED  BY <2>4, <2>5, Zenon
<1>2. RoamedStays <=> [][Stays]_vars
  BY PTL DEF RoamedStays
<1>. QED  BY <1>1, <1>2, Invariance, PTL DEF Spec

\* The routes of this device in the kernel are owned by it between Applies, whatever was
\* requested, refused, flushed or taken meanwhile, apart from those whose own read-back
\* failed and that no Apply has verified since.
THEOREM RoutesAreOwned == Spec => []RoutesOwned
<1>1. ASSUME IInv PROVE RoutesOwned
  BY <1>1 DEF IInv, RoutesKnown, RoutesOwned, Idle
<1>. QED  BY <1>1, Invariance, PTL

-----------------------------------------------------------------------------
(* The NodePorts. *)

\* What is bound for the groups.
NpHeld == UNION {{p} \X groups[p] : p \in Opened}

NpTypeOK ==
  /\ npAddrs \in SUBSET ListenAddrs /\ npWant \in SUBSET ListenAddrs
  /\ groups \in [NodePorts -> (SUBSET ListenAddrs) \cup {NoGroup}]
  /\ todo \in SUBSET (NodePorts \X ListenAddrs) /\ added \in SUBSET (NodePorts \X ListenAddrs)
  /\ npLock \in NodePorts \cup {"swap", Nobody}

\* What the holder of the lock binds: the whole set for a port without a group, or for
\* the open ports what the prepared set adds.
Underway ==
  /\ npLock = Nobody => todo = {} /\ added = {}
  /\ npLock \in NodePorts =>
       groups[npLock] = NoGroup /\ todo \cup added = {npLock} \X BindAddrs(npAddrs)
  /\ npLock = "swap" =>
       \A p \in NodePorts, a \in ListenAddrs :
         <<p, a>> \in todo \cup added <=> p \in Opened /\ a \in BindAddrs(npWant) \ groups[p]

NpInv == NpTypeOK /\ Underway /\ NodePortsBound

NpSpec == NpInit /\ [][NpNext]_npVars

-----------------------------------------------------------------------------
LEMMA Addresses ==
  /\ \A S \in SUBSET ListenAddrs : BindAddrs(S) \in SUBSET ListenAddrs
  /\ \A spec : ResolveNodePortAddresses(spec) \in SUBSET ListenAddrs
BY Zenon DEF BindAddrs, ResolveNodePortAddresses, ListenAddrs

LEMMA HeldPairs ==
  ASSUME NpTypeOK
  PROVE  /\ NpHeld \in SUBSET (NodePorts \X ListenAddrs)
         /\ \A p \in NodePorts, a \in ListenAddrs : <<p, a>> \in NpHeld <=> p \in Opened /\ a \in groups[p]
<1>1. \A p \in Opened : p \in NodePorts /\ groups[p] \in SUBSET ListenAddrs
  BY Zenon DEF NpTypeOK, Opened
<1>2. \A p \in Opened : {p} \X groups[p] \in SUBSET (NodePorts \X ListenAddrs)
  BY <1>1, Zenon
<1>3. NpHeld \in SUBSET (NodePorts \X ListenAddrs)
  BY <1>2, Zenon DEF NpHeld
<1>4. ASSUME NEW p \in NodePorts, NEW a \in ListenAddrs, <<p, a>> \in NpHeld
      PROVE  p \in Opened /\ a \in groups[p]
  BY <1>4 DEF NpHeld
<1>5. ASSUME NEW p \in Opened, NEW a \in groups[p]
      PROVE  <<p, a>> \in NpHeld
  <2>1. <<p, a>> \in {p} \X groups[p]
    BY Zenon
  <2>. QED  BY <2>1, Zenon DEF NpHeld
<1>. QED  BY <1>3, <1>4, <1>5, Zenon

LEMMA HeldPairsNext ==
  NpTypeOK' => /\ NpHeld' \in SUBSET (NodePorts \X ListenAddrs)
             /\ \A p \in NodePorts, a \in ListenAddrs :
                  <<p, a>> \in NpHeld' <=> p \in Opened' /\ a \in groups'[p]
<1>. DEFINE Pairs == /\ NpHeld \in SUBSET (NodePorts \X ListenAddrs)
                     /\ \A p \in NodePorts, a \in ListenAddrs :
                          <<p, a>> \in NpHeld <=> p \in Opened /\ a \in groups[p]
<1>1. NpTypeOK => Pairs
  BY HeldPairs, Zenon
<1>. HIDE DEF Pairs
<1>2. NpTypeOK' => Pairs'
  BY <1>1, PTL
<1>. QED  BY <1>2, Zenon DEF Pairs

\* Two sets of listeners are equal when they have the same pairs.
LEMMA SamePairs ==
  ASSUME NEW S \in SUBSET (NodePorts \X ListenAddrs), NEW T \in SUBSET (NodePorts \X ListenAddrs),
         \A p \in NodePorts, a \in ListenAddrs : <<p, a>> \in S <=> <<p, a>> \in T
  PROVE  S = T
OBVIOUS

\* What is under way is nobody's yet.
LEMMA NotHeld ==
  ASSUME NpInv
  PROVE  added \cap NpHeld = {}
<1>. SUFFICES ASSUME NEW p \in NodePorts, NEW a \in ListenAddrs, <<p, a>> \in added, <<p, a>> \in NpHeld
              PROVE  FALSE
  BY DEF NpInv, NpTypeOK
<1>1. p \in Opened /\ a \in groups[p]
  BY HeldPairs, Zenon DEF NpInv
<1>2. npLock # Nobody
  BY Zenon DEF NpInv, Underway
<1>3. CASE npLock \in NodePorts
  <2>1. groups[npLock] = NoGroup /\ <<p, a>> \in {npLock} \X BindAddrs(npAddrs)
    BY <1>3, Zenon DEF NpInv, Underway
  <2>2. p = npLock
    BY <2>1, Zenon
  <2>. QED  BY <1>1, <2>1, <2>2, Zenon DEF Opened
<1>4. CASE npLock = "swap"
  BY <1>1, <1>4, Zenon DEF NpInv, Underway
<1>. QED  BY <1>2, <1>3, <1>4, Zenon DEF NpInv, NpTypeOK

\* NodePortsBound, with what is held by name.
LEMMA BoundByName == NodePortsBound <=> /\ \A p \in Opened : groups[p] = BindAddrs(npAddrs)
                                  /\ lns = added \cup NpHeld
BY Zenon DEF NodePortsBound, NpHeld

-----------------------------------------------------------------------------
LEMMA NpInitial == NpInit => NpInv
<1>. SUFFICES ASSUME NpInit PROVE NpInv
  OBVIOUS
<1>1. NpTypeOK
  BY Addresses, Zenon DEF NpInit, NpTypeOK
<1>2. Opened = {}
  BY Zenon DEF NpInit, Opened
<1>3. NpHeld = {}
  BY <1>2, Zenon DEF NpHeld
<1>4. NodePortsBound
  BY <1>2, <1>3, BoundByName, Zenon DEF NpInit
<1>5. Underway
  BY NodePortAssumption, Zenon DEF NpInit, Underway
<1>. QED  BY <1>1, <1>4, <1>5, Zenon DEF NpInv

\* A bind moves one listener from what is to be bound to what was.
LEMMA BindSteps ==
  ASSUME NpInv, NEW x \in todo, BindOne(x) \/ BindOneFails(x)
  PROVE  NpInv'
<1>1. npAddrs' = npAddrs /\ groups' = groups /\ Opened' = Opened /\ NpHeld' = NpHeld
  BY Zenon DEF BindOne, BindOneFails, Opened, NpHeld
<1>2. CASE BindOne(x)
  <2>1. /\ todo' = todo \ {x} /\ added' = added \cup {x} /\ lns' = lns \cup {x}
        /\ npLock' = npLock /\ npWant' = npWant
    BY <1>2, Zenon DEF BindOne
  <2>2. NpTypeOK'
    BY <1>1, <2>1, Zenon DEF NpInv, NpTypeOK
  <2>3. todo' \cup added' = todo \cup added
    BY <2>1, Zenon
  <2>4. npLock # Nobody
    BY Zenon DEF NpInv, Underway
  <2>5. Underway'
    BY <1>1, <2>1, <2>3, <2>4, Zenon DEF NpInv, Underway
  <2>6. lns = added \cup NpHeld /\ \A p \in Opened : groups[p] = BindAddrs(npAddrs)
    BY BoundByName, Zenon DEF NpInv
  <2>7. (lns = added \cup NpHeld)' /\ (\A p \in Opened : groups[p] = BindAddrs(npAddrs))'
    BY <1>1, <2>1, <2>6, Zenon
  <2>8. NodePortsBound'
    BY <2>7, Zenon DEF NodePortsBound, NpHeld
  <2>. QED  BY <2>2, <2>5, <2>8, Zenon DEF NpInv
<1>3. CASE BindOneFails(x)
  <2>1. lns' = lns \ added /\ npLock' = Nobody /\ todo' = {} /\ added' = {} /\ npWant' = {}
    BY <1>3, Zenon DEF BindOneFails, Unlocked
  <2>2. NpTypeOK'
    BY <1>1, <2>1, Zenon DEF NpInv, NpTypeOK
  <2>3. Underway'
    BY <2>1, NodePortAssumption, Zenon DEF Underway
  <2>4. lns = added \cup NpHeld /\ \A p \in Opened : groups[p] = BindAddrs(npAddrs)
    BY BoundByName DEF NpInv
  <2>5. (lns = added \cup NpHeld)' /\ (\A p \in Opened : groups[p] = BindAddrs(npAddrs))'
    BY <1>1, <2>1, <2>4, NotHeld, Zenon
  <2>6. NodePortsBound'
    BY <2>5 DEF NodePortsBound, NpHeld
  <2>. QED  BY <2>2, <2>3, <2>6 DEF NpInv
<1>. QED  BY <1>2, <1>3, Zenon

\* A worker's group.
LEMMA GroupSteps ==
  ASSUME NpInv, NEW p \in NodePorts, OpenGroup(p) \/ GroupOpened(p) \/ CloseGroup(p)
  PROVE  NpInv'
<1>0. lns = added \cup NpHeld /\ \A q \in Opened : groups[q] = BindAddrs(npAddrs)
  BY BoundByName, Zenon DEF NpInv
<1>1. CASE OpenGroup(p)
  <2>1. /\ npLock = Nobody /\ groups[p] = NoGroup /\ npLock' = p
        /\ todo' = {p} \X BindAddrs(npAddrs)
        /\ UNCHANGED <<npAddrs, groups, lns, added, npWant>>
    BY <1>1, Zenon DEF OpenGroup
  <2>2. BindAddrs(npAddrs) \in SUBSET ListenAddrs
    BY Addresses, Zenon DEF NpInv, NpTypeOK
  <2>3. NpTypeOK'
    BY <2>1, <2>2, Zenon DEF NpInv, NpTypeOK
  <2>4. added = {}
    BY <2>1, Zenon DEF NpInv, Underway
  <2>5. Underway'
    BY <2>1, <2>4, NodePortAssumption, Zenon DEF Underway
  <2>6. Opened' = Opened /\ NpHeld' = NpHeld
    BY <2>1, Zenon DEF Opened, NpHeld
  <2>7. NodePortsBound'
    BY <2>1, <1>0, <2>6, Zenon DEF NodePortsBound, NpHeld
  <2>. QED  BY <2>3, <2>5, <2>7, Zenon DEF NpInv
<1>2. CASE GroupOpened(p)
  <2>1. /\ npLock = p /\ todo = {} /\ groups' = [groups EXCEPT ![p] = {x[2] : x \in added}]
        /\ npLock' = Nobody /\ todo' = {} /\ added' = {} /\ npWant' = {}
        /\ UNCHANGED <<npAddrs, lns>>
    BY <1>2, Zenon DEF GroupOpened, Unlocked
  <2>2. groups[p] = NoGroup /\ added = {p} \X BindAddrs(npAddrs)
    BY <2>1, Zenon DEF NpInv, Underway
  <2>3. BindAddrs(npAddrs) \in SUBSET ListenAddrs
    BY Addresses DEF NpInv, NpTypeOK
  <2>4. {x[2] : x \in added} = BindAddrs(npAddrs)
    <3>1. \A x \in added : x[2] \in BindAddrs(npAddrs)
      BY <2>2, Zenon
    <3>2. ASSUME NEW a \in BindAddrs(npAddrs) PROVE a \in {x[2] : x \in added}
      <4>1. <<p, a>> \in added /\ <<p, a>>[2] = a
        BY <2>2, Zenon
      <4>. QED  BY <4>1, Zenon
    <3>. QED  BY <3>1, <3>2, Zenon
  <2>5. groups' = [groups EXCEPT ![p] = BindAddrs(npAddrs)]
    BY <2>1, <2>4, Zenon
  <2>6. NpTypeOK'
    BY <2>1, <2>3, <2>5, Zenon DEF NpInv, NpTypeOK
  <2>7. Underway'
    BY <2>1, NodePortAssumption, Zenon DEF Underway
  <2>8. groups'[p] = BindAddrs(npAddrs) /\ \A q \in NodePorts \ {p} : groups'[q] = groups[q]
    BY <2>5, Zenon DEF NpInv, NpTypeOK
  <2>9. Opened' = Opened \cup {p}
    BY <2>3, <2>8, NodePortAssumption, Zenon DEF Opened
  <2>10. (\A q \in Opened : groups[q] = BindAddrs(npAddrs))'
    BY <1>0, <2>1, <2>8, <2>9, Zenon DEF Opened
  <2>11. lns = NpHeld'
    <3>1. lns \in SUBSET (NodePorts \X ListenAddrs) /\ NpHeld' \in SUBSET (NodePorts \X ListenAddrs)
      BY <1>0, <2>6, HeldPairs, HeldPairsNext, Zenon DEF NpInv, NpTypeOK
    <3>2. ASSUME NEW q \in NodePorts, NEW a \in ListenAddrs
          PROVE  <<q, a>> \in lns <=> <<q, a>> \in NpHeld'
      <4>1. <<q, a>> \in NpHeld' <=> q \in Opened' /\ a \in groups'[q]
        BY <2>6, HeldPairsNext, Zenon
      <4>2. <<q, a>> \in NpHeld <=> q \in Opened /\ a \in groups[q]
        BY HeldPairs, Zenon DEF NpInv
      <4>3. <<q, a>> \in added <=> q = p /\ a \in BindAddrs(npAddrs)
        BY <2>2, Zenon
      <4>4. p \notin Opened
        BY <2>2, Zenon DEF Opened
      <4>. QED  BY <1>0, <2>8, <2>9, <4>1, <4>2, <4>3, <4>4, Zenon
    <3>. QED  BY <3>1, <3>2, SamePairs, Zenon
  <2>12. NodePortsBound'
    BY <2>1, <2>10, <2>11, Zenon DEF NodePortsBound, NpHeld
  <2>. QED  BY <2>6, <2>7, <2>12 DEF NpInv
<1>3. CASE CloseGroup(p)
  <2>1. /\ npLock = Nobody /\ groups[p] # NoGroup /\ lns' = lns \ ({p} \X groups[p])
        /\ groups' = [groups EXCEPT ![p] = NoGroup]
        /\ UNCHANGED <<npAddrs, npLock, todo, added, npWant>>
    BY <1>3, Zenon DEF CloseGroup
  <2>2. NpTypeOK'
    BY <2>1, Zenon DEF NpInv, NpTypeOK
  <2>3. Underway'
    BY <2>1, NodePortAssumption, Zenon DEF NpInv, Underway
  <2>4. groups'[p] = NoGroup /\ \A q \in NodePorts \ {p} : groups'[q] = groups[q]
    BY <2>1, Zenon DEF NpInv, NpTypeOK
  <2>5. Opened' = Opened \ {p}
    BY <2>4, Zenon DEF Opened
  <2>6. (\A q \in Opened : groups[q] = BindAddrs(npAddrs))'
    BY <1>0, <2>1, <2>4, <2>5, Zenon DEF Opened
  <2>7. added = {} /\ added' = {}
    BY <2>1, Zenon DEF NpInv, Underway
  <2>8. lns' = NpHeld'
    <3>1. lns' \in SUBSET (NodePorts \X ListenAddrs) /\ NpHeld' \in SUBSET (NodePorts \X ListenAddrs)
      BY <1>0, <2>1, <2>2, <2>7, HeldPairs, HeldPairsNext, Zenon DEF NpInv
    <3>2. ASSUME NEW q \in NodePorts, NEW a \in ListenAddrs
          PROVE  <<q, a>> \in lns' <=> <<q, a>> \in NpHeld'
      <4>1. <<q, a>> \in NpHeld' <=> q \in Opened' /\ a \in groups'[q]
        BY <2>2, HeldPairsNext
      <4>2. <<q, a>> \in NpHeld <=> q \in Opened /\ a \in groups[q]
        BY HeldPairs DEF NpInv
      <4>3. <<q, a>> \in {p} \X groups[p] <=> q = p /\ a \in groups[p]
        BY Zenon
      <4>. QED  BY <1>0, <2>1, <2>4, <2>5, <2>7, <4>1, <4>2, <4>3, Zenon
    <3>. QED  BY <3>1, <3>2, SamePairs, Zenon
  <2>9. NodePortsBound'
    BY <2>6, <2>7, <2>8, Zenon DEF NodePortsBound, NpHeld
  <2>. QED  BY <2>2, <2>3, <2>9 DEF NpInv
<1>. QED  BY <1>1, <1>2, <1>3, Zenon

\* The swap: prepared, committed or aborted.
LEMMA SwapSteps ==
  ASSUME NpInv, PrepareNodePortAddresses \/ Commit \/ Abort
  PROVE  NpInv'
<1>0. lns = added \cup NpHeld /\ \A q \in Opened : groups[q] = BindAddrs(npAddrs)
  BY BoundByName, Zenon DEF NpInv
<1>1. CASE PrepareNodePortAddresses
  <2>1. /\ npLock = Nobody /\ npLock' = "swap"
        /\ todo' = UNION {{p} \X (BindAddrs(npWant') \ groups[p]) : p \in Opened}
        /\ UNCHANGED <<npAddrs, groups, lns, added>>
    BY <1>1, Zenon DEF PrepareNodePortAddresses
  <2>2. npWant' \in SUBSET ListenAddrs
    BY <1>1, Addresses, Zenon DEF PrepareNodePortAddresses
  <2>3. BindAddrs(npWant') \in SUBSET ListenAddrs
    BY <2>2, Addresses, Zenon
  <2>4. \A p \in Opened : {p} \X (BindAddrs(npWant') \ groups[p]) \in SUBSET (NodePorts \X ListenAddrs)
    BY <2>3, Zenon DEF Opened
  <2>5. todo' \in SUBSET (NodePorts \X ListenAddrs)
    BY <2>1, <2>4, Zenon
  <2>6. NpTypeOK'
    BY <2>1, <2>2, <2>5, Zenon DEF NpInv, NpTypeOK
  <2>7. added = {}
    BY <2>1, Zenon DEF NpInv, Underway
  <2>8. Opened' = Opened /\ NpHeld' = NpHeld
    BY <2>1, Zenon DEF Opened, NpHeld
  <2>9. ASSUME NEW p \in NodePorts, NEW a \in ListenAddrs
        PROVE  <<p, a>> \in todo' <=> p \in Opened /\ a \in BindAddrs(npWant') \ groups[p]
    BY <2>1
  <2>10. Underway'
    BY <2>1, <2>7, <2>8, <2>9, NodePortAssumption, Zenon DEF Underway
  <2>11. NodePortsBound'
    BY <1>0, <2>1, <2>8, Zenon DEF NodePortsBound, NpHeld
  <2>. QED  BY <2>6, <2>10, <2>11, Zenon DEF NpInv
<1>2. CASE Commit
  <2>. DEFINE W == BindAddrs(npWant)
              Left == UNION {{p} \X (groups[p] \ (groups[p] \cap W)) : p \in Opened}
  <2>1. /\ npLock = "swap" /\ todo = {} /\ lns' = lns \ Left
        /\ groups' = [p \in NodePorts |->
                        IF p \in Opened THEN (groups[p] \cap W) \cup {a \in W : <<p, a>> \in added}
                        ELSE NoGroup]
        /\ npAddrs' = npWant /\ npLock' = Nobody /\ todo' = {} /\ added' = {} /\ npWant' = {}
    BY <1>2, Zenon DEF Commit, Unlocked
  <2>2. W \in SUBSET ListenAddrs
    BY Addresses, Zenon DEF NpInv, NpTypeOK
  <2>3. \A p \in NodePorts, a \in ListenAddrs :
          <<p, a>> \in added <=> p \in Opened /\ a \in W \ groups[p]
    BY <2>1, Zenon DEF NpInv, Underway
  <2>4. ASSUME NEW p \in Opened PROVE groups'[p] = W
    <3>1. p \in NodePorts /\ groups'[p] = (groups[p] \cap W) \cup {a \in W : <<p, a>> \in added}
      BY <2>1, Zenon DEF Opened
    <3>. HIDE DEF W
    <3>. QED  BY <2>2, <2>3, <3>1, Zenon
  <2>5. \A p \in NodePorts \ Opened : groups'[p] = NoGroup
    BY <2>1, Zenon
  <2>. HIDE DEF W
  <2>6. Opened' = Opened
    BY <2>2, <2>4, <2>5, NodePortAssumption, Zenon DEF Opened
  <2>7. groups' \in [NodePorts -> (SUBSET ListenAddrs) \cup {NoGroup}]
    BY <2>1, <2>2, <2>4, <2>5, Zenon
  <2>8. NpTypeOK'
    BY <2>1, <2>7, Zenon DEF NpInv, NpTypeOK
  <2>9. Underway'
    BY <2>1, NodePortAssumption, Zenon DEF Underway
  <2>10. (\A q \in Opened : groups[q] = BindAddrs(npAddrs))'
    BY <2>1, <2>4, <2>6, Zenon DEF W
  <2>11. lns' = NpHeld'
    <3>1. lns' \in SUBSET (NodePorts \X ListenAddrs) /\ NpHeld' \in SUBSET (NodePorts \X ListenAddrs)
      BY <1>0, <2>1, <2>8, HeldPairs, HeldPairsNext, Zenon DEF NpInv, NpTypeOK
    <3>2. ASSUME NEW q \in NodePorts, NEW a \in ListenAddrs
          PROVE  <<q, a>> \in lns' <=> <<q, a>> \in NpHeld'
      <4>1. <<q, a>> \in NpHeld' <=> q \in Opened' /\ a \in groups'[q]
        BY <2>8, HeldPairsNext, Zenon
      <4>2. <<q, a>> \in NpHeld <=> q \in Opened /\ a \in groups[q]
        BY HeldPairs, Zenon DEF NpInv
      <4>3. <<q, a>> \in Left <=> q \in Opened /\ a \in groups[q] \ W
        OBVIOUS
      <4>. QED  BY <1>0, <2>1, <2>3, <2>4, <2>6, <4>1, <4>2, <4>3, Zenon
    <3>. QED  BY <3>1, <3>2, SamePairs, Zenon
  <2>12. NodePortsBound'
    BY <2>1, <2>10, <2>11, Zenon DEF NodePortsBound, NpHeld
  <2>. QED  BY <2>8, <2>9, <2>12 DEF NpInv
<1>3. CASE Abort
  <2>1. /\ lns' = lns \ added /\ npLock' = Nobody /\ todo' = {} /\ added' = {} /\ npWant' = {}
        /\ UNCHANGED <<npAddrs, groups>>
    BY <1>3, Zenon DEF Abort, Unlocked
  <2>2. NpTypeOK'
    BY <2>1, Zenon DEF NpInv, NpTypeOK
  <2>3. Underway'
    BY <2>1, NodePortAssumption, Zenon DEF Underway
  <2>4. Opened' = Opened /\ NpHeld' = NpHeld
    BY <2>1, Zenon DEF Opened, NpHeld
  <2>5. NodePortsBound'
    BY <1>0, <2>1, <2>4, NotHeld, Zenon DEF NodePortsBound, NpHeld
  <2>. QED  BY <2>2, <2>3, <2>5 DEF NpInv
<1>. QED  BY <1>1, <1>2, <1>3, Zenon

LEMMA NpPreserved == NpInv /\ [NpNext]_npVars => NpInv'
<1>. SUFFICES ASSUME NpInv, [NpNext]_npVars PROVE NpInv'
  BY SMTT(20)
<1>1. CASE UNCHANGED npVars
  <2>1. UNCHANGED <<npAddrs, groups, lns, npLock, todo, added, npWant>> /\ Opened' = Opened
    BY <1>1, Zenon DEF npVars, Opened
  <2>. QED  BY <2>1 DEF NpInv, NpTypeOK, Underway, NodePortsBound
<1>. QED  BY <1>1, BindSteps, GroupSteps, SwapSteps, Zenon DEF NpNext

\* Whatever opens, closes and swaps fail half-way, an open NodePort listens on exactly the
\* set in force, and no listener is left that no group or bind under way accounts for
\* (bindAll, PrepareNodePortAddresses, Commit, Abort).
THEOREM ListenersAccounted == NpSpec => []NodePortsBound
<1>1. NpInv => NodePortsBound
  BY Zenon DEF NpInv
<1>. QED  BY <1>1, NpInitial, NpPreserved, PTL DEF NpSpec

-----------------------------------------------------------------------------
(* The link events. *)

Messages == {"ifinfo up", "ifinfo down", "addr"}
Latest(s) == s[Len(s)]

LinkTypeOK ==
  /\ flags \in States /\ carrier \in BOOLEAN /\ reported \in BOOLEAN
  /\ socket \in Seq(Messages) /\ reader \in {"open", "ended", "none"} /\ named \in BOOLEAN
  /\ last \in States \cup {NoState} /\ sending \in States \cup {NoState}
  /\ pollOut \in Seq(States) /\ routeOut \in Seq(States) /\ merged \in Seq(States)
  /\ timer \in BOOLEAN /\ pending \in States \cup {NoState} /\ (timer => pending # NoState)
  /\ delivered \in States \cup {NoState}

\* The last event of those Debounce has, or has still to take.
Shown == IF merged # <<>> THEN Latest(merged) ELSE IF timer THEN pending ELSE delivered

\* The poller remembers what it sent last.
PollTrue == pollOut # <<>> => last = Latest(pollOut)
\* What it remembers of an interface that was there has been sent.
Heard == last \in {"up", "down"} => pollOut # <<>> \/ Shown # NoState
\* Only an open reader has messages to read, and the last one tells the flags.
SocketTrue ==
  /\ reader # "open" => socket = <<>>
  /\ reader = "none" => routeOut = <<>>
  /\ socket # <<>> => /\ Latest(socket) = "ifinfo up" => flags = "up"
                      /\ Latest(socket) = "ifinfo down" => flags # "up"
\* An event the reader made: gone when it found no name, and once it has read everything, the flags.
RouteTrue(v) ==
  /\ reader # "none" /\ (v = "gone" <=> ~named)
  /\ reader = "open" /\ socket = <<>> => v = flags
\* Debounce ends with the word of one of the sources, the last one of that source once it has sent all.
ShownTrue ==
  \/ Shown = NoState
  \/ pollOut = <<>> => Shown = last
  \/ routeOut = <<>> => RouteTrue(Shown)

LinkInv ==
  /\ LinkTypeOK /\ PollTrue /\ Heard /\ SocketTrue
  /\ routeOut # <<>> => RouteTrue(Latest(routeOut))
  /\ ShownTrue

LinkSpec == LinkInit /\ [][LinkNext]_linkVars

\* The last element of a channel that grows, or is read.
LEMMA Appended ==
  ASSUME NEW S, NEW s \in Seq(S), NEW x \in S
  PROVE  Append(s, x) \in Seq(S) /\ Append(s, x) # <<>> /\ Latest(Append(s, x)) = x
BY DEF Latest

LEMMA Taken ==
  ASSUME NEW S, NEW s \in Seq(S), s # <<>>
  PROVE  /\ Head(s) \in S /\ Tail(s) \in Seq(S)
         /\ Tail(s) = <<>> => Head(s) = Latest(s)
         /\ Tail(s) # <<>> => Latest(Tail(s)) = Latest(s)
<1>1. Len(s) \in Nat \ {0}
  OBVIOUS
<1>2. /\ Head(s) = s[1] /\ Head(s) \in S /\ Tail(s) \in Seq(S) /\ Len(Tail(s)) = Len(s) - 1
      /\ \A i \in 1..(Len(s) - 1) : Tail(s)[i] = s[i + 1]
  OBVIOUS
<1>3. Tail(s) = <<>> => Len(s) = 1
  <2>1. Len(<<>>) = 0
    BY Zenon
  <2>2. Tail(s) = <<>> => Len(Tail(s)) = 0
    BY <2>1, Zenon
  <2> QED
    BY <1>1, <1>2, <2>2
<1>4. Tail(s) # <<>> => Len(s) - 1 \in 1..(Len(s) - 1)
  BY <1>1, <1>2
<1> QED
  BY <1>1, <1>2, <1>3, <1>4 DEF Latest

LEMMA LinkInitial == LinkInit => LinkInv
<1> SUFFICES ASSUME LinkInit PROVE LinkInv
  BY Zenon
<1>1. \A S : <<>> \in Seq(S)
  OBVIOUS
<1>2. LinkTypeOK
  BY <1>1, Zenon DEF LinkInit, LinkTypeOK
<1>3. Shown = NoState
  BY Zenon DEF LinkInit, Shown
<1>4. last \notin {"up", "down"}
  BY LinkAssumption, Zenon DEF LinkInit, States
<1> QED
  BY <1>2, <1>3, <1>4, Zenon DEF LinkInit, LinkInv, PollTrue, Heard, SocketTrue, ShownTrue

\* What a step of the interface leaves alone.
LEMMA InterfaceStep ==
  ASSUME LinkInv, \/ \E f \in States : SetFlags(f)
                  \/ \E plugged \in BOOLEAN : Cable(plugged)
                  \/ Address
  PROVE  LinkInv'
<1>1. /\ UNCHANGED <<reader, named, routeOut, pollOut, last, sending, merged, pending, timer, delivered>>
      /\ flags' \in States /\ carrier' \in BOOLEAN /\ reported' = reported
  BY Zenon
     DEF LinkInv, LinkTypeOK, SetFlags, Cable, Address, Elsewhere, pollVars, debounceVars,
         States
<1>2. /\ flags' = flags \/ reader # "open" \/ socket' # <<>>
      /\ (socket' = socket /\ flags' = flags) \/ SocketTrue'
      /\ socket' \in Seq(Messages)
      /\ socket' = <<>> => socket = <<>>
  <2>1. ASSUME NEW f \in States, SetFlags(f) PROVE <1>2!:
    <3>1. PICK m \in Messages : /\ m = IF f = "up" THEN "ifinfo up" ELSE "ifinfo down"
                                /\ socket' = IF reader = "open" THEN Append(socket, m) ELSE socket
      BY <2>1, Zenon DEF SetFlags, Broadcast, Messages
    <3>2. Append(socket, m) \in Seq(Messages) /\ Append(socket, m) # <<>> /\ Latest(Append(socket, m)) = m
      BY Appended, ZenonT(40) DEF LinkInv, LinkTypeOK
    <3> QED
      BY <1>1, <2>1, <3>1, <3>2, Zenon DEF SetFlags, LinkInv, LinkTypeOK, SocketTrue
  <2>2. ASSUME NEW plugged \in BOOLEAN, Cable(plugged) PROVE <1>2!:
    BY <2>2, Zenon DEF Cable, LinkInv, LinkTypeOK
  <2>3. ASSUME Address PROVE <1>2!:
    <3>1. socket' = (IF reader = "open" THEN Append(socket, "addr") ELSE socket) /\ flags' = flags
      BY <2>3, Zenon DEF Address, Broadcast
    <3>2. /\ Append(socket, "addr") \in Seq(Messages) /\ Append(socket, "addr") # <<>>
          /\ Latest(Append(socket, "addr")) = "addr"
      <4>1. "addr" \in Messages
        BY Zenon DEF Messages
      <4> QED
        BY <4>1, Appended, ZenonT(40) DEF LinkInv, LinkTypeOK
    <3> QED
      BY <1>1, <3>1, <3>2, Zenon DEF LinkInv, LinkTypeOK, SocketTrue
  <2> QED BY <2>1, <2>2, <2>3, Zenon
<1>3. SocketTrue'
  BY <1>1, <1>2, Zenon DEF LinkInv, SocketTrue
<1>4. \A v : RouteTrue(v) => RouteTrue(v)'
  BY <1>1, <1>2, Zenon DEF RouteTrue
<1>5. LinkTypeOK'
  BY <1>1, <1>2, Zenon DEF LinkInv, LinkTypeOK
<1>6. Shown' = Shown /\ PollTrue' /\ Heard'
  BY <1>1, Zenon DEF LinkInv, Shown, PollTrue, Heard
<1>7. ShownTrue' /\ (routeOut # <<>> => RouteTrue(Latest(routeOut)))'
  BY <1>1, <1>4, <1>6, Zenon DEF LinkInv, ShownTrue
<1> QED
  BY <1>3, <1>5, <1>6, <1>7, Zenon DEF LinkInv

\* The poller leaves the interface, the reader and what Debounce will show alone.
LEMMA PollSteps ==
  ASSUME LinkInv, Poll \/ PollSend
  PROVE  LinkInv'
<1>1. /\ UNCHANGED <<flags, carrier, reported, socket, reader, named, routeOut, merged, pending, timer, delivered>>
  BY Zenon DEF Poll, PollSend, ifaceVars, readerVars, debounceVars
<1>2. Shown' = Shown /\ SocketTrue' /\ (routeOut # <<>> => RouteTrue(Latest(routeOut)))'
  BY <1>1, Zenon DEF LinkInv, Shown, SocketTrue, RouteTrue
<1>3. CASE Poll
  <2>1. pollOut' = pollOut
    BY <1>3, Zenon DEF Poll
  <2>2. /\ last' = last \/ (last = NoState /\ last' = "gone")
        /\ sending' \in States \cup {NoState}
    <3>1. \A b \in BOOLEAN : PollState(b) \in States
      BY Zenon DEF PollState, LinkInv, LinkTypeOK, States
    <3> QED
      BY <1>3, <3>1, Zenon DEF Poll, PollPass, Diff, LinkInv, LinkTypeOK
  <2>3. last' \in States \cup {NoState} /\ (last = NoState => last' \notin {"up", "down"})
    BY <2>2, LinkAssumption, Zenon DEF LinkInv, LinkTypeOK, States
  <2>4. LinkTypeOK'
    BY <1>1, <2>1, <2>2, <2>3, Zenon DEF LinkInv, LinkTypeOK
  <2>5. last = NoState => pollOut = <<>>
    <3>1. pollOut # <<>> => Latest(pollOut) \in States
      BY DEF LinkInv, LinkTypeOK, Latest
    <3> QED
      BY <3>1, LinkAssumption, Zenon DEF LinkInv, PollTrue
  <2>6. PollTrue' /\ Heard'
    BY <1>2, <2>1, <2>2, <2>3, <2>5, Zenon DEF LinkInv, PollTrue, Heard
  <2>7. ShownTrue'
    BY <1>1, <1>2, <2>1, <2>2, Zenon DEF LinkInv, ShownTrue, RouteTrue
  <2> QED
    BY <1>2, <2>4, <2>6, <2>7, Zenon DEF LinkInv
<1>4. CASE PollSend
  <2>1. sending \in States /\ last' = sending /\ sending' = NoState /\ pollOut' = Append(pollOut, sending)
    BY <1>4, Zenon DEF PollSend, LinkInv, LinkTypeOK
  <2>2. pollOut' \in Seq(States) /\ pollOut' # <<>> /\ Latest(pollOut') = sending
    BY <2>1, Appended, ZenonT(40) DEF LinkInv, LinkTypeOK
  <2>3. LinkTypeOK'
    BY <1>1, <2>1, <2>2, Zenon DEF LinkInv, LinkTypeOK
  <2> QED
    BY <1>2, <2>1, <2>2, <2>3, Zenon DEF LinkInv, PollTrue, Heard, ShownTrue
<1> QED
  BY <1>3, <1>4, Zenon

\* The reader turns the oldest message into at most one event, which is true of the interface
\* when it was the last message.
LEMMA ReaderSteps ==
  ASSUME LinkInv, ReadRoute \/ ReaderEnds
  PROVE  LinkInv'
<1>1. UNCHANGED <<flags, carrier, reported, pollOut, last, sending, merged, pending, timer, delivered>>
  BY Zenon DEF ReadRoute, ReaderEnds, ifaceVars, pollVars, debounceVars
<1>2. Shown' = Shown /\ PollTrue' /\ Heard'
  BY <1>1, Zenon DEF LinkInv, Shown, PollTrue, Heard
<1>3. CASE ReaderEnds
  <2>1. reader = "open" /\ reader' = "ended" /\ socket' = <<>> /\ named' = named /\ routeOut' = routeOut
    BY <1>3, Zenon DEF ReaderEnds
  <2>2. LinkTypeOK'
    <3>1. <<>> \in Seq(Messages)
      OBVIOUS
    <3> QED
      BY <1>1, <2>1, <3>1, Zenon DEF LinkInv, LinkTypeOK
  <2>3. \A v : RouteTrue(v) => RouteTrue(v)'
    BY <2>1, Zenon DEF RouteTrue
  <2> QED
    BY <1>1, <1>2, <2>1, <2>2, <2>3, Zenon DEF LinkInv, SocketTrue, ShownTrue
<1>4. CASE ReadRoute
  <2> DEFINE m == Head(socket)
  <2>1. /\ reader = "open" /\ socket # <<>> /\ reader' = reader /\ socket' = Tail(socket)
        /\ routeOut' = routeOut \o RouteEvents(m) /\ named' = (flags # "gone")
    BY <1>4, Zenon DEF ReadRoute
  <2>2. /\ m \in Messages /\ socket' \in Seq(Messages)
        /\ socket' = <<>> => m = Latest(socket)
        /\ socket' # <<>> => Latest(socket') = Latest(socket)
    BY <2>1, Taken, Zenon DEF LinkInv, LinkTypeOK
  <2> HIDE DEF m
  <2>3. SocketTrue'
    BY <1>1, <2>1, <2>2, Zenon DEF LinkInv, SocketTrue
  <2>4. CASE RouteEvents(m) = <<>>
    <3>1. flags = "gone" /\ ~named
      BY <2>2, <2>4, Zenon DEF RouteEvents, Messages
    <3>2. routeOut' = routeOut
      BY <2>1, <2>4 DEF LinkInv, LinkTypeOK
    <3>3. \A v : RouteTrue(v) => RouteTrue(v)'
      BY <1>1, <2>1, <3>1, Zenon DEF RouteTrue
    <3>4. LinkTypeOK'
      BY <1>1, <2>1, <2>2, <3>1, <3>2, Zenon DEF LinkInv, LinkTypeOK
    <3> QED
      BY <1>1, <1>2, <2>3, <3>2, <3>3, <3>4, Zenon DEF LinkInv, ShownTrue
  <2>5. ASSUME NEW e, RouteEvents(m) = <<e>>, e \in States, e = "gone" <=> flags = "gone", socket' = <<>> => e = flags
        PROVE  LinkInv'
    <3>1. routeOut' = Append(routeOut, e)
      BY <2>1, <2>5 DEF LinkInv, LinkTypeOK
    <3>2. routeOut' \in Seq(States) /\ routeOut' # <<>> /\ Latest(routeOut') = e
      BY <2>5, <3>1, Appended DEF LinkInv, LinkTypeOK
    <3>3. LinkTypeOK'
      BY <1>1, <2>1, <2>2, <3>2, Zenon DEF LinkInv, LinkTypeOK
    <3>4. RouteTrue(e)'
      BY <1>1, <2>1, <2>5, Zenon DEF RouteTrue
    <3>5. (routeOut # <<>> => RouteTrue(Latest(routeOut)))' /\ ShownTrue'
      BY <3>2, <3>4, Zenon DEF ShownTrue
    <3> QED
      BY <1>2, <2>3, <3>3, <3>5, Zenon DEF LinkInv
  <2>6. RouteEvents(m) = <<>> \/ \E e \in States :
          RouteEvents(m) = <<e>> /\ (e = "gone" <=> flags = "gone") /\ (socket' = <<>> => e = flags)
    BY <2>1, <2>2, Zenon DEF RouteEvents, LinkInv, LinkTypeOK, SocketTrue, States, Messages
  <2> QED
    BY <2>4, <2>5, <2>6, Zenon
<1> QED
  BY <1>3, <1>4

\* Merge moves a source's oldest event behind everything Debounce has still to take.
LEMMA MergeSteps ==
  ASSUME LinkInv, MergePoll \/ MergeRoute
  PROVE  LinkInv'
<1>1. UNCHANGED <<flags, carrier, reported, socket, reader, named, last, sending, pending, timer, delivered>>
  BY Zenon DEF MergePoll, MergeRoute, ifaceVars, readerVars, pollVars, debounceVars
<1>2. CASE MergePoll
  <2>1. pollOut # <<>> /\ merged' = Append(merged, Head(pollOut)) /\ pollOut' = Tail(pollOut) /\ routeOut' = routeOut
    BY <1>2, Zenon DEF MergePoll, readerVars
  <2>2. /\ Head(pollOut) \in States /\ pollOut' \in Seq(States)
        /\ pollOut' = <<>> => Head(pollOut) = Latest(pollOut)
        /\ pollOut' # <<>> => Latest(pollOut') = Latest(pollOut)
    BY <2>1, Taken, Zenon DEF LinkInv, LinkTypeOK
  <2>3. merged' \in Seq(States) /\ merged' # <<>> /\ Latest(merged') = Head(pollOut)
    <3>1. \A x \in States : Append(merged, x) \in Seq(States) /\ Append(merged, x) # <<>> /\ Latest(Append(merged, x)) = x
      BY Appended, Zenon DEF LinkInv, LinkTypeOK
    <3> QED
      BY <2>1, <2>2, <3>1, Zenon
  <2>4. Shown' = Head(pollOut) /\ Shown' # NoState
    BY <2>2, <2>3, LinkAssumption, Zenon DEF Shown
  <2>5. LinkTypeOK'
    BY <1>1, <2>1, <2>2, <2>3, Zenon DEF LinkInv, LinkTypeOK
  <2>6. PollTrue' /\ Heard' /\ SocketTrue' /\ (routeOut # <<>> => RouteTrue(Latest(routeOut)))'
    BY <1>1, <2>1, <2>2, <2>4, Zenon DEF LinkInv, PollTrue, Heard, SocketTrue, RouteTrue
  <2>7. ShownTrue'
    BY <1>1, <2>1, <2>2, <2>4, Zenon DEF LinkInv, PollTrue, ShownTrue
  <2> QED
    BY <2>5, <2>6, <2>7, Zenon DEF LinkInv
<1>3. CASE MergeRoute
  <2>1. routeOut # <<>> /\ merged' = Append(merged, Head(routeOut)) /\ routeOut' = Tail(routeOut) /\ pollOut' = pollOut
    BY <1>3, Zenon DEF MergeRoute, pollVars
  <2>2. /\ Head(routeOut) \in States /\ routeOut' \in Seq(States)
        /\ routeOut' = <<>> => Head(routeOut) = Latest(routeOut)
        /\ routeOut' # <<>> => Latest(routeOut') = Latest(routeOut)
    BY <2>1, Taken, Zenon DEF LinkInv, LinkTypeOK
  <2>3. merged' \in Seq(States) /\ merged' # <<>> /\ Latest(merged') = Head(routeOut)
    <3>1. \A x \in States : Append(merged, x) \in Seq(States) /\ Append(merged, x) # <<>> /\ Latest(Append(merged, x)) = x
      BY Appended, Zenon DEF LinkInv, LinkTypeOK
    <3> QED
      BY <2>1, <2>2, <3>1, Zenon
  <2>4. Shown' = Head(routeOut) /\ Shown' # NoState
    BY <2>2, <2>3, LinkAssumption, Zenon DEF Shown
  <2>5. LinkTypeOK'
    BY <1>1, <2>1, <2>2, <2>3, ZenonT(40) DEF LinkInv, LinkTypeOK
  <2>6. \A v : RouteTrue(v) => RouteTrue(v)'
    BY <1>1, Zenon DEF RouteTrue
  <2>7. PollTrue' /\ Heard' /\ SocketTrue' /\ (routeOut # <<>> => RouteTrue(Latest(routeOut)))'
    BY <1>1, <2>1, <2>2, <2>4, <2>6, Zenon DEF LinkInv, PollTrue, Heard, SocketTrue
  <2>8. ShownTrue'
    BY <2>1, <2>2, <2>4, <2>6, Zenon DEF LinkInv, ShownTrue
  <2> QED
    BY <2>5, <2>7, <2>8, Zenon DEF LinkInv
<1> QED
  BY <1>2, <1>3

\* Neither step of Debounce changes which event is the last.
LEMMA DebounceSteps ==
  ASSUME LinkInv, DebounceEvent \/ DebounceDelivers
  PROVE  LinkInv'
<1>1. UNCHANGED <<flags, carrier, reported, socket, reader, named, routeOut, last, sending, pollOut>>
  BY Zenon DEF DebounceEvent, DebounceDelivers, ifaceVars, readerVars, pollVars
<1>2. Shown' = Shown /\ LinkTypeOK'
  <2>1. CASE DebounceEvent
    <3>1. merged # <<>> /\ merged' = Tail(merged) /\ pending' = Head(merged) /\ timer' = TRUE /\ delivered' = delivered
      BY <2>1, Zenon DEF DebounceEvent
    <3>2. /\ Head(merged) \in States /\ merged' \in Seq(States)
          /\ merged' = <<>> => Head(merged) = Latest(merged)
          /\ merged' # <<>> => Latest(merged') = Latest(merged)
      BY <3>1, Taken, Zenon DEF LinkInv, LinkTypeOK
    <3>3. Shown' = Shown
      BY <3>1, <3>2, Zenon DEF Shown
    <3> QED
      BY <1>1, <3>1, <3>2, <3>3, LinkAssumption, Zenon DEF LinkInv, LinkTypeOK
  <2>2. CASE DebounceDelivers
    BY <1>1, <2>2, Zenon DEF DebounceDelivers, LinkInv, LinkTypeOK, Shown
  <2> QED
    BY <2>1, <2>2, Zenon
<1>3. PollTrue' /\ Heard' /\ SocketTrue' /\ (routeOut # <<>> => RouteTrue(Latest(routeOut)))'
  BY <1>1, <1>2, Zenon DEF LinkInv, PollTrue, Heard, SocketTrue, RouteTrue
<1>4. ShownTrue'
  BY <1>1, <1>2, Zenon DEF LinkInv, ShownTrue, RouteTrue
<1> QED
  BY <1>2, <1>3, <1>4, Zenon DEF LinkInv

LEMMA LinkPreserved == LinkInv /\ [LinkNext]_linkVars => LinkInv'
<1> SUFFICES ASSUME LinkInv, [LinkNext]_linkVars PROVE LinkInv'
  BY Zenon
<1>1. CASE UNCHANGED linkVars
  <2>1. /\ UNCHANGED <<flags, carrier, reported, socket, reader, named, routeOut, last, sending, pollOut>>
        /\ UNCHANGED <<merged, pending, timer, delivered>>
    BY <1>1, Zenon DEF linkVars, ifaceVars, readerVars, pollVars, debounceVars
  <2>2. Shown' = Shown /\ LinkTypeOK'
    BY <2>1, ZenonT(40) DEF LinkInv, LinkTypeOK, Shown
  <2>3. PollTrue' /\ Heard' /\ SocketTrue' /\ (routeOut # <<>> => RouteTrue(Latest(routeOut)))'
    BY <2>1, <2>2, Zenon DEF LinkInv, PollTrue, Heard, SocketTrue, RouteTrue
  <2>4. ShownTrue'
    BY <2>1, <2>2, Zenon DEF LinkInv, ShownTrue, RouteTrue
  <2> QED
    BY <2>2, <2>3, <2>4, Zenon DEF LinkInv
<1> QED
  BY <1>1, InterfaceStep, PollSteps, ReaderSteps, MergeSteps, DebounceSteps, Zenon DEF LinkNext

(* Once nothing is on its way, the consumer of the link events (pkg/linkwatch: Merge and *)
(* Debounce over the poller and the routing socket) was last told the interface's state, *)
(* but for the exceptions LinkSettles names.                                             *)
THEOREM LinkSettled == LinkSpec => []LinkSettles
<1>1. LinkInv => LinkSettles
  <2> SUFFICES ASSUME LinkInv, Quiet, reader # "ended"
               PROVE  \/ delivered = LinkState
                      \/ delivered = "up" /\ flags = "up" /\ reader = "open"
                      \/ delivered = NoState /\ flags = "gone"
    BY Zenon DEF LinkSettles
  <2>1. Shown = delivered
    BY Zenon DEF Quiet, Shown
  <2>2. LinkState \in States /\ (LinkState = "gone" => flags = "gone") /\ (LinkState # flags => flags = "up")
    BY Zenon DEF LinkState, LinkInv, LinkTypeOK, States
  <2>3. CASE Shown = NoState
    <3>1. last \notin {"up", "down"}
      BY <2>3, Zenon DEF LinkInv, Heard, Quiet
    <3> QED
      BY <2>1, <2>2, <2>3, <3>1, Zenon DEF Quiet, States
  <2>4. CASE Shown = last
    BY <2>1, <2>4, Zenon DEF Quiet
  <2>5. CASE RouteTrue(Shown)
    <3>1. delivered = flags /\ reader = "open"
      BY <2>1, <2>5, Zenon DEF RouteTrue, Quiet, LinkInv, LinkTypeOK
    <3> QED
      BY <2>2, <3>1, Zenon
  <2> QED
    BY <2>3, <2>4, <2>5, Zenon DEF LinkInv, ShownTrue, Quiet
<1> QED
  BY <1>1, LinkInitial, LinkPreserved, PTL DEF LinkSpec

-----------------------------------------------------------------------------
(* The NetworkPolicy verdicts. *)

PolicySpec == PolicyInit /\ [][PolicyNext]_policyVars

Selecting(pods, pols, a) == {pol \in pols : \E p \in SelectedPods(pol, pods) : p.ip = a}

\* The table of a resolution, by the policies that select a backend.
LEMMA SelectedBackends ==
  ASSUME NEW pods, NEW nss, NEW pols, NEW a \in Addrs, NEW t, t = Resolve(pods, nss, pols)
  PROVE  /\ a \in DOMAIN t.selected <=> Selecting(pods, pols, a) # {}
         /\ a \in DOMAIN t.selected =>
              \A r : r \in t.selected[a] <=>
                \E pol \in Selecting(pods, pols, a) : \E rule \in pol.rules : r = ResolveRule(pol, rule, pods, nss)
<1> DEFINE sel == [b \in {c \in Addrs : Selecting(pods, pols, c) # {}} |->
        UNION {{ResolveRule(pol, rule, pods, nss) : rule \in pol.rules} : pol \in Selecting(pods, pols, b)}]
<1>1. t.selected = sel
  BY Zenon DEF Resolve, Selecting
<1>2. DOMAIN sel = {c \in Addrs : Selecting(pods, pols, c) # {}}
  BY Zenon
<1>3. a \in DOMAIN sel =>
        sel[a] = UNION {{ResolveRule(pol, rule, pods, nss) : rule \in pol.rules} : pol \in Selecting(pods, pols, a)}
  BY Zenon
<1> HIDE DEF sel
<1>4. ASSUME a \in DOMAIN sel, NEW r
      PROVE  r \in sel[a] <=>
               \E pol \in Selecting(pods, pols, a) : \E rule \in pol.rules : r = ResolveRule(pol, rule, pods, nss)
  BY <1>3, <1>4
<1> QED
  BY <1>1, <1>2, <1>4, Zenon

\* A resolved rule, by what it admits.
LEMMA RuleFields ==
  ASSUME NEW pol, NEW rule, NEW pods, NEW nss, NEW r, r = ResolveRule(pol, rule, pods, nss)
  PROVE  /\ r.anySource <=> rule.from = {} \/ \E peer \in rule.from : WidePeer(peer)
         /\ r.anyPort <=> rule.ports = {} \/ NamedPort.name \in rule.ports
         /\ ~r.anySource => r.sources = UNION {PeerSources(pol, peer, pods, nss) : peer \in rule.from}
         /\ ~r.anyPort => r.ports = rule.ports
BY Zenon DEF ResolveRule

\* What a resolved rule admits, and what NetworkPolicy says of the rule it came from.
Admits(r, src, port) == (r.anySource \/ src \in r.sources) /\ (r.anyPort \/ port \in r.ports)
Lets(pol, rule, pods, nss, src, port) ==
  /\ rule.from = {} \/ \E peer \in rule.from : PeerAdmits(pol, peer, src, pods, nss)
  /\ rule.ports = {} \/ port \in rule.ports \/ (NamedPort.name \in rule.ports /\ port = NamedPort.port)

\* A rule never admits less than the clauses it came from.
LEMMA RuleWidens ==
  ASSUME NEW pol, NEW rule, NEW pods, NEW nss, NEW src, NEW port,
         NEW r, r = ResolveRule(pol, rule, pods, nss),
         Lets(pol, rule, pods, nss, src, port)
  PROVE  Admits(r, src, port)
<1>1. r.anySource \/ src \in r.sources
  <2>1. CASE rule.from = {}
    BY <2>1, RuleFields, Zenon
  <2>2. ASSUME NEW peer \in rule.from, PeerAdmits(pol, peer, src, pods, nss), ~r.anySource PROVE src \in r.sources
    <3>1. ~WidePeer(peer) /\ r.sources = UNION {PeerSources(pol, q, pods, nss) : q \in rule.from}
      BY <2>2, RuleFields, ZenonT(40)
    <3> QED
      BY <2>2, <3>1, Zenon DEF PeerAdmits, WidePeer
  <2> QED
    BY <2>1, <2>2, Zenon DEF Lets
<1>2. r.anyPort \/ port \in r.ports
  <2>1. /\ r.anyPort <=> rule.ports = {} \/ NamedPort.name \in rule.ports
        /\ ~r.anyPort => r.ports = rule.ports
    BY RuleFields, ZenonT(40)
  <2> QED
    BY <2>1, Zenon DEF Lets
<1> QED
  BY <1>1, <1>2, Zenon DEF Admits

\* Nor more, where no clause of it is widened.
LEMMA RuleExact ==
  ASSUME NEW pol, NEW rule, NEW pods, NEW nss, NEW src, NEW port,
         NEW r, r = ResolveRule(pol, rule, pods, nss),
         NamedPort.name \notin rule.ports, \A peer \in rule.from : ~WidePeer(peer),
         Admits(r, src, port)
  PROVE  Lets(pol, rule, pods, nss, src, port)
<1>1. rule.from # {} => ~r.anySource /\ r.sources = UNION {PeerSources(pol, peer, pods, nss) : peer \in rule.from}
  <2>1. rule.from # {} => ~r.anySource
    BY RuleFields, ZenonT(40)
  <2>2. ~r.anySource => r.sources = UNION {PeerSources(pol, peer, pods, nss) : peer \in rule.from}
    BY RuleFields
  <2> QED
    BY <2>1, <2>2, Zenon
<1>2. rule.ports # {} => ~r.anyPort /\ r.ports = rule.ports
  BY RuleFields, ZenonT(40)
<1>3. rule.from = {} \/ \E peer \in rule.from : src \in PeerSources(pol, peer, pods, nss)
  BY <1>1, Zenon DEF Admits
<1>4. rule.ports = {} \/ port \in rule.ports
  BY <1>2, Zenon DEF Admits
<1>5. \A peer \in rule.from : src \in PeerSources(pol, peer, pods, nss) => PeerAdmits(pol, peer, src, pods, nss)
  BY Zenon DEF PeerAdmits, WidePeer
<1> QED
  BY <1>3, <1>4, <1>5, Zenon DEF Lets

LEMMA UpstreamRules ==
  ASSUME NEW pods, NEW nss, NEW pols, NEW src, NEW backend, NEW port
  PROVE  Upstream(pods, nss, pols, src, backend, port) <=>
           \/ Selecting(pods, pols, backend) = {}
           \/ \E pol \in Selecting(pods, pols, backend) : \E rule \in pol.rules : Lets(pol, rule, pods, nss, src, port)
BY Zenon DEF Upstream, Selecting, Lets

\* The verdict of a table that was resolved from these objects.
LEMMA Verdict ==
  ASSUME NEW pods, NEW nss, NEW pols, NEW src \in Addrs, NEW backend \in Addrs, NEW port
  PROVE  LET t == Resolve(pods, nss, pols)
             allowed == Allow(t, src, backend, port)
             upstream == Upstream(pods, nss, pols, src, backend, port)
         IN /\ upstream => allowed
            /\ ~upstream /\ Expressible(pols) => ~allowed \/ src \in AlwaysAllow \/ src \notin t.known
<1> SUFFICES ASSUME NEW t, t = Resolve(pods, nss, pols)
             PROVE  LET allowed == Allow(t, src, backend, port)
                        upstream == Upstream(pods, nss, pols, src, backend, port)
                    IN /\ upstream => allowed
                       /\ ~upstream /\ Expressible(pols) => ~allowed \/ src \in AlwaysAllow \/ src \notin t.known
  BY Zenon
<1>1. ASSUME Upstream(pods, nss, pols, src, backend, port) PROVE Allow(t, src, backend, port)
  <2>1. CASE Selecting(pods, pols, backend) = {}
    BY <2>1, SelectedBackends, Zenon DEF Allow
  <2>2. CASE Selecting(pods, pols, backend) # {}
    <3>0. PICK pol \in Selecting(pods, pols, backend) :
            \E rule \in pol.rules : Lets(pol, rule, pods, nss, src, port)
      BY <1>1, <2>2, UpstreamRules, Zenon
    <3>1. PICK rule \in pol.rules : Lets(pol, rule, pods, nss, src, port)
      BY <3>0, Zenon
    <3>2. ResolveRule(pol, rule, pods, nss) \in t.selected[backend]
      BY <2>2, SelectedBackends, Zenon
    <3> QED
      BY <3>1, <3>2, RuleWidens, Zenon DEF Allow, Admits
  <2> QED
    BY <2>1, <2>2, Zenon
<1>2. ASSUME Expressible(pols), Allow(t, src, backend, port), src \notin AlwaysAllow, src \in t.known
      PROVE  Upstream(pods, nss, pols, src, backend, port)
  <2>1. CASE backend \notin DOMAIN t.selected
    BY <2>1, SelectedBackends, UpstreamRules, Zenon
  <2>2. CASE backend \in DOMAIN t.selected
    <3>1. PICK r \in t.selected[backend] : Admits(r, src, port)
      BY <1>2, <2>2, Zenon DEF Allow, Admits
    <3>5. PICK pol \in Selecting(pods, pols, backend) :
            \E rule \in pol.rules : r = ResolveRule(pol, rule, pods, nss)
      BY <2>2, SelectedBackends
    <3>2. PICK rule \in pol.rules : r = ResolveRule(pol, rule, pods, nss)
      BY <3>5, Zenon
    <3>3. Lets(pol, rule, pods, nss, src, port)
      BY <1>2, <3>1, <3>2, RuleExact, Zenon DEF Expressible, Selecting
    <3> QED
      BY <3>3, UpstreamRules, Zenon
  <2> QED
    BY <2>1, <2>2, Zenon
<1> QED
  BY <1>1, <1>2, Zenon

\* Every notification has been handled, and the kick it left has been taken.
Settling == unsent = {} /\ ~kicked

\* While no notification is due, what the pass under way has listed is what the stores hold.
PassCurrent ==
  Settling =>
    /\ recomp.pc \in {"nss", "policies"} => recomp.pods = store["pods"]
    /\ recomp.pc = "policies" => recomp.nss = store["namespaces"]
    /\ recomp.pc = "select" => table = Resolve(store["pods"], store["namespaces"], store["networkpolicies"])

PolicyInv == PassCurrent /\ recomp = [pc |-> recomp.pc, pods |-> recomp.pods, nss |-> recomp.nss]

LEMMA PolicyInitial == PolicyInit => PolicyInv
BY DEF PolicyInit, PolicyInv, PassCurrent, Waits

\* A store changes only with a notification due, and a kick is taken only to list the stores again.
LEMMA PolicyPreserved == PolicyInv /\ [PolicyNext]_policyVars => PolicyInv'
<1> SUFFICES ASSUME PolicyInv, [PolicyNext]_policyVars PROVE PolicyInv'
  BY Zenon
<1> USE DEF PolicyInv, PassCurrent, Settling, infVars, errVars
<1>1. CASE RunSynced
  BY <1>1, Zenon DEF RunSynced
<1>2. CASE ListPods
  BY <1>2, Zenon DEF ListPods
<1>3. CASE ListNamespaces
  BY <1>3, Zenon DEF ListNamespaces
<1>4. CASE ListPolicies
  BY <1>4, Zenon DEF ListPolicies, Waits
<1>5. CASE Debounce
  BY <1>5, Zenon DEF Debounce
<1>6. CASE Absorb
  BY <1>6, Zenon DEF Absorb
<1>7. CASE WindowOver
  BY <1>7, Zenon DEF WindowOver
<1>8. ASSUME NEW k \in Resources, StoreChanges(k) PROVE PolicyInv'
  BY <1>8, Zenon DEF StoreChanges
<1>9. ASSUME NEW k \in Resources, HasSynced(k) PROVE PolicyInv'
  BY <1>9, Zenon DEF HasSynced
<1>10. ASSUME NEW k \in Resources, Poke(k) PROVE PolicyInv'
  BY <1>10, Zenon DEF Poke
<1>11. ASSUME NEW k \in Resources, WatchFails(k) \/ CheckRecovered(k) PROVE PolicyInv'
  BY <1>11, Zenon DEF WatchFails, CheckRecovered
<1>12. CASE UNCHANGED policyVars
  BY <1>12, Zenon DEF policyVars
<1> QED
  BY <1>1, <1>2, <1>3, <1>4, <1>5, <1>6, <1>7, <1>8, <1>9, <1>10, <1>11, <1>12, Zenon
  DEF PolicyNext, RunPolicy
(* However the informers' events fell, a verdict given while none is unhandled agrees with *)
(* NetworkPolicy for the objects as they are: PolicyTable.Allow never denies what it       *)
(* allows, and allows nothing else to a pod's address when every clause can be expressed   *)
(* (pkg/proxy/policywatch.go recompute, pkg/proxy/policy.go Allow).                        *)
THEOREM VerdictsAgree == PolicySpec => []VerdictsFaithful
<1>1. PolicyInv => VerdictsFaithful
  <2> SUFFICES ASSUME PolicyInv, recomp.pc = "select", ~kicked, unsent = {},
                      NEW src \in Addrs, NEW backend \in Addrs, NEW port \in PolicyPorts
               PROVE  LET allowed == Allow(table, src, backend, port)
                          upstream == Upstream(store["pods"], store["namespaces"], store["networkpolicies"],
                                               src, backend, port)
                      IN /\ upstream => allowed
                         /\ ~upstream /\ Expressible(store["networkpolicies"])
                              => ~allowed \/ src \in AlwaysAllow \/ src \notin table.known
    BY Zenon DEF VerdictsFaithful
  <2>1. table = Resolve(store["pods"], store["namespaces"], store["networkpolicies"])
    BY Zenon DEF PolicyInv, PassCurrent, Settling
  <2> QED
    BY <2>1, Verdict, Zenon
<1> QED
  BY <1>1, PolicyInitial, PolicyPreserved, PTL DEF PolicySpec

=============================================================================
