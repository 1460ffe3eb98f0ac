----------------------------- MODULE PolicyWatch -----------------------------
(***************************************************************************)
(* The NetworkPolicy subset: the watcher that resolves policies, pods and  *)
(* namespaces into the table (pkg/proxy/policywatch.go), and the verdict   *)
(* on a connection (pkg/proxy/policy.go).                                  *)
(*                                                                         *)
(* Three informers fill three stores independently; a notification follows *)
(* the change of its store and pokes the one goroutine that recomputes,    *)
(* which lists the stores one after the other. The watch errors of an      *)
(* informer are reported by a state of its own.                            *)
(*                                                                         *)
(* A label selector is one label, "all", or "bad" when it does not parse.  *)
(***************************************************************************)
EXTENDS Naturals, FiniteSets, FiniteSetsExt

CONSTANTS
  Resources,     \* "networkpolicies", "pods", "namespaces"
  Versions,      \* of each, the contents its store may have
  Addrs,         \* every source and backend address
  AlwaysAllow,   \* of these, loopback and the seeded addresses
  VMNet,         \* of these, the ones in the node's vmnet segment
  BlockAddrs,    \* what an ipBlock peer covers
  NamedPort,     \* the port a named port stands for
  PolicyPorts,   \* the backend ports
  NoIP,          \* a pod without an address
  MayFail,       \* the informers whose list or watch may be refused
  MaxStoreChanges, MaxWatchErrors   \* bound the changes of all stores, and the errors

VARIABLES
  store,     \* the store of each informer
  storeRV,   \* LastSyncResourceVersion of each: how many lists or events succeeded
  unsent,    \* the informers with a notification not yet handled
  kicked,    \* PolicyWatcher.kick
  synced,    \* the informers whose first list is in the store
  recomp,    \* the Run goroutine, and what it has listed
  table,     \* PolicyTable.selected and known
  watchErr,  \* watchErrState of each informer
  watchErrors

policyVars == <<store, storeRV, unsent, kicked, synced, recomp, table, watchErr, watchErrors>>
infVars == <<store, storeRV, unsent, synced>>
errVars == <<watchErr, watchErrors>>

AllSynced == synced = Resources
Calm == [failing |-> FALSE, syncedAtFail |-> FALSE, rvAtFail |-> 0]
Waits == [pc |-> "sync", pods |-> {}, nss |-> {}]
EmptyTable == [selected |-> <<>>, known |-> {}]

PolicyInit ==
  /\ store = [k \in Resources |-> {}]
  /\ storeRV = [k \in Resources |-> 0]
  /\ unsent = {}
  /\ kicked = FALSE
  /\ synced = {}
  /\ recomp = Waits
  /\ table = EmptyTable
  /\ watchErr = [k \in Resources |-> Calm]
  /\ watchErrors = 0

-----------------------------------------------------------------------------
(* What a set of objects resolves to. *)

SelectorMatches(sel, labels) == sel = "all" \/ sel \in labels

(* podIPsOf *)
Addressed(pods) == {p \in pods : p.ip # NoIP}

(* peerNamespaces: without a selector, the policy's own. *)
PeerNamespaces(pol, peer, nss) ==
  IF peer.nsSel = "none" THEN {pol.ns}
  ELSE {n.name : n \in {x \in nss : SelectorMatches(peer.nsSel, x.labels)}}

PeerSources(pol, peer, pods, nss) ==
  {p.ip : p \in {x \in Addressed(pods) : x.ns \in PeerNamespaces(pol, peer, nss)
                                         /\ SelectorMatches(peer.podSel, x.labels)}}

(* A peer the subset cannot express widens its rule to any source. *)
WidePeer(peer) == peer.block \/ peer.nsSel = "bad" \/ peer.podSel = "bad"

(* Mutant: a peer that cannot be expressed is dropped. *)
ResolveRuleNarrow(pol, rule, pods, nss) ==
  [anySource |-> rule.from = {},
   sources |-> UNION {PeerSources(pol, peer, pods, nss) : peer \in {x \in rule.from : ~WidePeer(x)}},
   anyPort |-> rule.ports = {} \/ NamedPort.name \in rule.ports,
   ports |-> rule.ports \ {NamedPort.name}]

(* resolveRule *)
ResolveRule(pol, rule, pods, nss) ==
  LET wide == rule.from = {} \/ \E peer \in rule.from : WidePeer(peer)
      anyPort == rule.ports = {} \/ NamedPort.name \in rule.ports
  IN [anySource |-> wide,
      sources |-> IF wide THEN {} ELSE UNION {PeerSources(pol, peer, pods, nss) : peer \in rule.from},
      anyPort |-> anyPort,
      ports |-> IF anyPort THEN {} ELSE rule.ports]

(* A policy that is for egress only, or whose selector does not parse, selects nothing. *)
SelectedPods(pol, pods) ==
  IF ~pol.ingress \/ pol.sel = "bad" THEN {}
  ELSE {p \in Addressed(pods) : p.ns = pol.ns /\ SelectorMatches(pol.sel, p.labels)}

(* recompute: of every backend address a policy selects, the rules of the ones that do. *)
Resolve(pods, nss, pols) ==
  LET selecting(a) == {pol \in pols : \E p \in SelectedPods(pol, pods) : p.ip = a}
  IN [selected |-> [a \in {b \in Addrs : selecting(b) # {}} |->
        UNION {{ResolveRule(pol, rule, pods, nss) : rule \in pol.rules} : pol \in selecting(a)}],
      known |-> {p.ip : p \in Addressed(pods)}]

(* PolicyTable.Allow *)
Allow(t, src, backend, port) ==
  \/ src \in AlwaysAllow
  \/ backend \notin DOMAIN t.selected
  \/ \E r \in t.selected[backend] : (r.anySource \/ src \in r.sources) /\ (r.anyPort \/ port \in r.ports)
  \/ src \notin t.known /\ src \notin VMNet

-----------------------------------------------------------------------------
(* The informers. *)

(* A list or a watch event succeeds and changes the store; its handler is due. *)
StoreChanges(k) ==
  /\ MapThenSumSet(LAMBDA x : storeRV[x], Resources) < MaxStoreChanges
  /\ \E v \in Versions[k] : v # store[k] /\ store' = [store EXCEPT ![k] = v]
  /\ storeRV' = [storeRV EXCEPT ![k] = @ + 1]
  /\ unsent' = unsent \cup {k}
  /\ UNCHANGED <<kicked, synced, recomp, table, errVars>>

(* The whole of the first list has been handed to the store. *)
HasSynced(k) ==
  /\ k \notin synced /\ storeRV[k] > 0
  /\ synced' = synced \cup {k}
  /\ UNCHANGED <<store, storeRV, unsent, kicked, recomp, table, errVars>>

(* Mutant: the handler of one informer does not poke. *)
PokeForgotten(k) ==
  /\ k \in unsent
  /\ unsent' = unsent \ {k}
  /\ kicked' = (kicked \/ k # "namespaces")
  /\ UNCHANGED <<store, storeRV, synced, recomp, table, errVars>>

(* poke, of any handler: it never blocks. *)
Poke(k) ==
  /\ k \in unsent
  /\ unsent' = unsent \ {k}
  /\ kicked' = TRUE
  /\ UNCHANGED <<store, storeRV, synced, recomp, table, errVars>>

-----------------------------------------------------------------------------
(* The Run goroutine. *)

Recovered(k) ==
  watchErr[k].failing /\ k \in synced
  /\ ~(watchErr[k].syncedAtFail /\ storeRV[k] = watchErr[k].rvAtFail)

(* The caches are synced: the recovery of every informer is checked, and the *)
(* first table is computed.                                                  *)
RunSynced ==
  /\ recomp.pc = "sync" /\ AllSynced
  /\ recomp' = [recomp EXCEPT !.pc = "pods"]
  /\ watchErr' = [k \in Resources |-> IF Recovered(k) THEN Calm ELSE watchErr[k]]
  /\ UNCHANGED <<infVars, kicked, table, watchErrors>>

ListPods ==
  /\ recomp.pc = "pods"
  /\ recomp' = [recomp EXCEPT !.pc = "nss", !.pods = store["pods"]]
  /\ UNCHANGED <<infVars, kicked, table, errVars>>

ListNamespaces ==
  /\ recomp.pc = "nss"
  /\ recomp' = [recomp EXCEPT !.pc = "policies", !.nss = store["namespaces"]]
  /\ UNCHANGED <<infVars, kicked, table, errVars>>

ListPolicies ==
  /\ recomp.pc = "policies"
  /\ table' = Resolve(recomp.pods, recomp.nss, store["networkpolicies"])
  /\ recomp' = [Waits EXCEPT !.pc = "select"]
  /\ UNCHANGED <<infVars, kicked, errVars>>

(* A poke starts the window; more of them are absorbed until it is over. *)
Debounce ==
  /\ recomp.pc = "select" /\ kicked
  /\ kicked' = FALSE
  /\ recomp' = [recomp EXCEPT !.pc = "window"]
  /\ UNCHANGED <<infVars, table, errVars>>

Absorb ==
  /\ recomp.pc = "window" /\ kicked
  /\ kicked' = FALSE
  /\ UNCHANGED <<infVars, recomp, table, errVars>>

WindowOver ==
  /\ recomp.pc = "window"
  /\ recomp' = [recomp EXCEPT !.pc = "pods"]
  /\ UNCHANGED <<infVars, kicked, table, errVars>>

-----------------------------------------------------------------------------
(* The reports of watch errors. *)

(* handle: the first error of an episode takes note of the informer. *)
WatchFails(k) ==
  /\ k \in MayFail /\ watchErrors < MaxWatchErrors
  /\ watchErrors' = watchErrors + 1
  /\ watchErr' = [watchErr EXCEPT ![k] =
       IF @.failing THEN @
       ELSE [failing |-> TRUE, syncedAtFail |-> k \in synced, rvAtFail |-> storeRV[k]]]
  /\ UNCHANGED <<infVars, kicked, recomp, table>>

(* checkRecovered, on the poll. *)
CheckRecovered(k) ==
  /\ Recovered(k)
  /\ watchErr' = [watchErr EXCEPT ![k] = Calm]
  /\ UNCHANGED <<infVars, kicked, recomp, table, watchErrors>>

-----------------------------------------------------------------------------
RunPolicy == RunSynced \/ ListPods \/ ListNamespaces \/ ListPolicies \/ Debounce \/ Absorb \/ WindowOver

PolicyNext ==
  \/ RunPolicy
  \/ \E k \in Resources :
       StoreChanges(k) \/ HasSynced(k) \/ Poke(k) \/ WatchFails(k) \/ CheckRecovered(k)

(* The Run goroutine and the handlers go on, and the window ends. No informer *)
(* has to sync.                                                               *)
PolicyFairness ==
  /\ WF_policyVars(RunPolicy) /\ WF_policyVars(WindowOver)
  /\ WF_policyVars(\E k \in Resources : Poke(k))

-----------------------------------------------------------------------------
(* What NetworkPolicy says of a connection, straight from the objects: any    *)
(* source is allowed to a pod no policy selects for ingress; otherwise a rule *)
(* of a selecting policy must admit the source and the port.                  *)
PeerAdmits(pol, peer, src, pods, nss) ==
  \/ peer.block /\ src \in BlockAddrs
  \/ ~peer.block /\ peer.nsSel # "bad" /\ peer.podSel # "bad" /\ src \in PeerSources(pol, peer, pods, nss)

Upstream(pods, nss, pols, src, backend, port) ==
  LET selecting == {pol \in pols : \E p \in SelectedPods(pol, pods) : p.ip = backend}
  IN \/ selecting = {}
     \/ \E pol \in selecting : \E rule \in pol.rules :
          /\ rule.from = {} \/ \E peer \in rule.from : PeerAdmits(pol, peer, src, pods, nss)
          /\ rule.ports = {} \/ port \in rule.ports \/ (NamedPort.name \in rule.ports /\ port = NamedPort.port)

Expressible(pols) ==
  \A pol \in pols : \A rule \in pol.rules :
    NamedPort.name \notin rule.ports /\ \A peer \in rule.from : ~WidePeer(peer)

(* A verdict is never stricter than NetworkPolicy is for the objects as     *)
(* they are; and for a source that is a pod's it is exact when every clause *)
(* can be expressed (policy.go: an inexpressible clause "may only widen     *)
(* allows, never manufacture a deny"). Checked when no change is under way. *)
VerdictsFaithful ==
  recomp.pc = "select" /\ ~kicked /\ unsent = {} =>
    \A src \in Addrs, backend \in Addrs, port \in PolicyPorts :
      LET allowed == Allow(table, src, backend, port)
          upstream == Upstream(store["pods"], store["namespaces"], store["networkpolicies"], src, backend, port)
      IN /\ upstream => allowed
         /\ ~upstream /\ Expressible(store["networkpolicies"])
              => ~allowed \/ src \in AlwaysAllow \/ src \notin table.known

(* The table is in the end what the stores resolve to, whichever changes *)
(* were absorbed by a window, a full kick or a pass under way.           *)
PolicyConverges ==
  <>AllSynced => <>[](table = Resolve(store["pods"], store["namespaces"], store["networkpolicies"]))

=============================================================================
