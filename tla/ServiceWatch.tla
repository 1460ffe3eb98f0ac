---------------------------- MODULE ServiceWatch ----------------------------
(***************************************************************************)
(* The Service watcher (pkg/proxy/watch.go) and its anti-entropy pass      *)
(* (pkg/proxy/antientropy.go).                                             *)
(*                                                                         *)
(* An informer applies each watch event to its store and then queues it    *)
(* for its handler goroutine, so a handler runs behind the store. Three    *)
(* goroutines deliver to the proxy: the Service handler, the EndpointSlice *)
(* handler, and Run's own, which applies the store and runs the passes.    *)
(* A delivery takes its Service's stripe, snapshots the slices, and sends; *)
(* the store may move between the last two.                                *)
(*                                                                         *)
(* The API is a log of changes, whose length is the resourceVersion. The   *)
(* proxy is the backend set last delivered for each port; its workers      *)
(* apply deliveries in order (module ProxyWorker).                         *)
(***************************************************************************)
EXTENDS Naturals, Sequences, FiniteSets

CONSTANTS
  Services,      \* the Service keys "namespace/name"
  Ports,         \* the port names of a Service
  Backends,      \* the endpoints that may be Ready
  Specs,         \* the specifications of a Service: the ports it is served on (none if it is
                 \* headless) and whether it asks for externalTrafficPolicy Local on a NodePort
  Static,        \* WithStaticBackends: the fixed backends of some Services
  Stripe,        \* serviceStripe: the lock of each Service
  Initial,       \* the specifications the API starts with
  Changing,      \* the Services whose objects change
  NoObj, NoSet,
  MaxChanges, MaxFaults  \* bound the API's changes and its failures

(* A list of a set, in one of the orders it can have. *)
Orders(X) == {q \in [1 .. Cardinality(X) -> X] : \A i, j \in DOMAIN q : q[i] = q[j] => i = j}
Listing(X) == CHOOSE q \in Orders(X) : TRUE

(* There are finitely many Services: any of them can be listed. *)
ASSUME WatchAssumption ==
  /\ \A X \in SUBSET Services : Cardinality(X) \in Nat /\ Orders(X) # {}
  /\ Specs \subseteq [ports : SUBSET Ports, etp : BOOLEAN]
  /\ DOMAIN Static \subseteq Services
  /\ Services \subseteq DOMAIN Stripe
  /\ Initial \in [Services -> [ports : SUBSET Ports, etp : BOOLEAN]]
  /\ Changing \subseteq Services
  /\ MaxChanges \in Nat /\ MaxFaults \in Nat

VARIABLES
  api,       \* the API's objects: of each Service its svc and its slice
  log,       \* its changes, in order
  cur,       \* Watcher.inf: the current informer set
  next,      \* the set relist is syncing, if any
  job,       \* what each goroutine is delivering
  pass,      \* the progress of Run's goroutine
  table,     \* the backend set the proxy was last given for each port
  synced,    \* Watcher.synced
  etpWarned, divWarned, repaired,      \* eTPLocalWarned, divWarned and repairedFromLive
  relisted, backoff,   \* episodeRelisted, and whether nextRelist is still ahead
  withheld,  \* breakerWarned
  faults     \* the failures so far

apiVars == <<api, log>>
informerVars == <<cur, next>>
passVars == <<pass, synced, divWarned, repaired, relisted, backoff, withheld>>
vars == <<apiVars, informerVars, job, table, etpWarned, passVars, faults>>

Goroutines == {"service", "slice", "run"}
Idle == [pc |-> "idle"]
Kinds == {"svc", "slice"}

(* serviceToVIP: is the Service one the proxy serves? *)
Served(svc) == svc # NoObj /\ svc.ports # {}

(* backendsForPort and APIBackendSets: the backends of each port of a Service. *)
(* A port it does not serve has none.                                          *)
EpsOf(k, slice) == IF k \in DOMAIN Static THEN Static[k] ELSE slice.eps
BackendSets(k, view) ==
  [p \in Ports |-> IF Served(view.svc[k]) /\ p \in view.svc[k].ports
                   THEN EpsOf(k, view.slice[k]) ELSE {}]

(* No EndpointSlice: it has no backends, and is newer than nothing. *)
NoSlice == [eps |-> {}, rv |-> 0]

(* newInformerSet, started and synced: its stores hold what the API held when  *)
(* it listed, and an Add of every object is queued for its handlers. A Service *)
(* with static backends has no slice.                                          *)
Fresh ==
  [svc |-> api.svc, slice |-> api.slice, at |-> [kind \in Kinds |-> Len(log)],
   queue |-> [svc |-> LET existing == Listing({k \in Services : api.svc[k] # NoObj})
                      IN [i \in DOMAIN existing |->
                            [key |-> existing[i], obj |-> api.svc[existing[i]], gone |-> FALSE]],
              slice |-> Listing({k \in Services \ DOMAIN Static : api.slice[k] # NoSlice})]]

Init ==
  /\ api = [svc |-> [k \in Services |-> [ports |-> Initial[k].ports, etp |-> Initial[k].etp, rv |-> 0]],
            slice |-> [k \in Services |-> [eps |-> Backends, rv |-> 0]]]
  /\ log = <<>>
  /\ cur = Fresh
  /\ next = NoSet
  /\ job = [g \in Goroutines |-> Idle]
  /\ pass = [pc |-> "apply", todo |-> {[key |-> k, obj |-> api.svc[k]] : k \in Services}]
  /\ table = [k \in Services |-> [p \in Ports |-> NoObj]]
  /\ synced = FALSE
  /\ etpWarned = {} /\ divWarned = {} /\ repaired = {}
  /\ relisted = FALSE /\ backoff = FALSE /\ withheld = FALSE
  /\ faults \in 0..MaxFaults

-----------------------------------------------------------------------------
(* The API server and the watch streams. *)

Change(kind, k, obj) ==
  /\ Len(log) < MaxChanges
  /\ log' = Append(log, [kind |-> kind, key |-> k, obj |-> obj])
  /\ api' = [api EXCEPT ![kind][k] = obj]
  /\ UNCHANGED <<informerVars, job, table, etpWarned, passVars, faults>>

(* A Service is created, changed or deleted. *)
ChangeService(k) ==
  \/ \E sp \in Specs : Change("svc", k, [ports |-> sp.ports, etp |-> sp.etp, rv |-> Len(log) + 1])
  \/ api.svc[k] # NoObj /\ Change("svc", k, NoObj)

(* Its endpoints become Ready or stop being so, or its slice is deleted. *)
ChangeSlice(k) ==
  \/ \E eps \in (SUBSET Backends) \ {api.slice[k].eps} :
       Change("slice", k, [eps |-> eps, rv |-> Len(log) + 1])
  \/ api.slice[k] # NoSlice /\ Change("slice", k, NoSlice)

(* The place in the log of the event set S reads next from its watch of kind, if any. *)
NextAt(S, kind) ==
  {i \in S.at[kind] + 1 .. Len(log) :
     log[i].kind = kind /\ \A j \in S.at[kind] + 1 .. i - 1 : log[j].kind # kind}

(* The informer applies an event to its store and queues it for its handler. A *)
(* delete of an object the store does not hold is not queued.                  *)
Applied(S, kind, e, i) ==
  LET stored == [S EXCEPT !.at[kind] = i, ![kind][e.key] = e.obj]
  IN CASE kind = "slice" /\ (e.obj # NoSlice \/ S.slice[e.key] # NoSlice) -> [stored EXCEPT !.queue.slice = Append(@, e.key)]
       [] kind = "svc" /\ e.obj # NoObj ->
            [stored EXCEPT !.queue.svc = Append(@, [key |-> e.key, obj |-> e.obj, gone |-> FALSE])]
       [] kind = "svc" /\ e.obj = NoObj /\ S.svc[e.key] # NoObj ->
            [stored EXCEPT !.queue.svc = Append(@, [key |-> e.key, obj |-> S.svc[e.key], gone |-> TRUE])]
       [] OTHER -> stored

Watch(kind) ==
  /\ \E i \in NextAt(cur, kind) : cur' = Applied(cur, kind, log[i], i)
  /\ UNCHANGED <<apiVars, next, job, table, etpWarned, passVars, faults>>

(* The set that is syncing follows the API too. *)
WatchNext(kind) ==
  /\ next # NoSet
  /\ \E i \in NextAt(next, kind) : next' = Applied(next, kind, log[i], i)
  /\ UNCHANGED <<apiVars, cur, job, table, etpWarned, passVars, faults>>

(* The store never receives a watch event. *)
LoseEvent(kind) ==
  /\ faults < MaxFaults
  /\ faults' = faults + 1
  /\ \E i \in NextAt(cur, kind) : cur' = [cur EXCEPT !.at[kind] = i]
  /\ UNCHANGED <<apiVars, next, job, table, etpWarned, passVars>>

-----------------------------------------------------------------------------
(* Deliveries. *)

StripeFree(k) == \A g \in Goroutines : job[g].pc = "held" => Stripe[job[g].key] # Stripe[k]

(* reconcileService takes the stripe, then slicesForService. Where the caller *)
(* read the Service long before, waiting for the stripe is not a step.        *)
Held(k, svc) == [pc |-> "held", key |-> k, obj |-> svc, slice |-> cur.slice[k]]
(* Mutant: without the stripe. *)
ReconcileServiceNoStripe(g, k, svc) ==
  IF Served(svc) THEN job' = [job EXCEPT ![g] = Held(k, svc)] ELSE UNCHANGED job

ReconcileService(g, k, svc) ==
  IF Served(svc) THEN StripeFree(k) /\ job' = [job EXCEPT ![g] = Held(k, svc)] ELSE UNCHANGED job

(* applyService: every served port is given its backends. A port that an older *)
(* specification had is left as it was.                                        *)
Given(k, svc, slice) ==
  [p \in Ports |-> IF svc # NoObj /\ p \in svc.ports THEN EpsOf(k, slice) ELSE table[k][p]]

Deliver(g) ==
  /\ job[g].pc = "held"
  /\ table' = [table EXCEPT ![job[g].key] = Given(job[g].key, job[g].obj, job[g].slice)]
  /\ job' = [job EXCEPT ![g] = Idle]
  /\ UNCHANGED <<apiVars, informerVars, etpWarned, passVars, faults>>

(* deleteServicePorts: the ports of the Service as it last was. *)
Without(k, svc) == [p \in Ports |-> IF svc # NoObj /\ p \in svc.ports THEN NoObj ELSE table[k][p]]

(* warnExternalLocal: a Service is warned about once while it asks for what the *)
(* proxy does not honour.                                                       *)
WarnExternalLocal(k, svc) ==
  etpWarned' = IF Served(svc) /\ svc.etp THEN etpWarned \cup {k} ELSE etpWarned \ {k}

OnService ==
  /\ job["service"] = Idle
  /\ cur.queue.svc # <<>>
  /\ ~Head(cur.queue.svc).gone
  /\ LET n == Head(cur.queue.svc)
     IN /\ WarnExternalLocal(n.key, n.obj)
        /\ ReconcileService("service", n.key, n.obj)
  /\ cur' = [cur EXCEPT !.queue.svc = Tail(@)]
  /\ UNCHANGED <<apiVars, next, table, passVars, faults>>

OnServiceDelete ==
  /\ job["service"] = Idle
  /\ cur.queue.svc # <<>>
  /\ Head(cur.queue.svc).gone
  /\ LET n == Head(cur.queue.svc)
     IN /\ Served(n.obj) => StripeFree(n.key)
        /\ etpWarned' = etpWarned \ {n.key}
        /\ table' = [table EXCEPT ![n.key] = Without(n.key, n.obj)]
  /\ cur' = [cur EXCEPT !.queue.svc = Tail(@)]
  /\ UNCHANGED <<apiVars, next, job, passVars, faults>>

(* onSlice reads the Service from the store before it takes the stripe. *)
OnSlice ==
  /\ job["slice"] = Idle
  /\ cur.queue.slice # <<>>
  /\ LET k == Head(cur.queue.slice)
     IN job' = [job EXCEPT !["slice"] = IF Served(cur.svc[k])
                                        THEN [pc |-> "want", key |-> k, obj |-> cur.svc[k]] ELSE Idle]
  /\ cur' = [cur EXCEPT !.queue.slice = Tail(@)]
  /\ UNCHANGED <<apiVars, next, table, etpWarned, passVars, faults>>

OnSliceReconcile ==
  /\ job["slice"].pc = "want"
  /\ ReconcileService("slice", job["slice"].key, job["slice"].obj)
  /\ UNCHANGED <<apiVars, informerVars, table, etpWarned, passVars, faults>>

-----------------------------------------------------------------------------
(* Run's goroutine. It reconciles the Services of pass.todo one after the other *)
(* in applyStore and in settleRepaired.                                         *)

Waiting == [pc |-> "wait"]

(* storeView's Services. *)
StoreView(S) == {[key |-> k, obj |-> S.svc[k]] : k \in {j \in Services : S.svc[j] # NoObj}}

ReconcileOne ==
  /\ pass.pc \in {"apply", "settle"}
  /\ job["run"] = Idle
  /\ \E t \in pass.todo :
       /\ pass' = [pass EXCEPT !.todo = @ \ {t}]
       /\ ReconcileService("run", t.key, t.obj)
  /\ UNCHANGED <<apiVars, informerVars, table, etpWarned, synced, divWarned, repaired, relisted,
                 backoff, withheld, faults>>

(* applyStore returns, at the start of Run or at the end of relist. *)
StoreApplied ==
  /\ pass.pc = "apply" /\ pass.todo = {} /\ job["run"] = Idle
  /\ synced' = TRUE
  /\ repaired' = {}
  /\ backoff' = relisted
  /\ pass' = Waiting
  /\ UNCHANGED <<apiVars, informerVars, job, table, etpWarned, divWarned, relisted, withheld, faults>>

(* listLive reads the Services and then the EndpointSlices. *)
ListServices ==
  /\ pass.pc \in {"wait", "confirm"}
  /\ pass' = [pc |-> "listing", confirm |-> pass.pc = "confirm", svc |-> api.svc, svcRV |-> Len(log)]
  /\ UNCHANGED <<apiVars, informerVars, job, table, etpWarned, synced, divWarned, repaired,
                 relisted, backoff, withheld, faults>>

ListSlices ==
  /\ pass.pc = "listing"
  /\ pass' = [pc |-> "compare", confirm |-> pass.confirm,
              live |-> [svc |-> pass.svc, svcRV |-> pass.svcRV,
                        slice |-> api.slice, sliceRV |-> Len(log)]]
  /\ UNCHANGED <<apiVars, informerVars, job, table, etpWarned, synced, divWarned, repaired,
                 relisted, backoff, withheld, faults>>

ListFails ==
  /\ pass.pc = "listing"
  /\ faults < MaxFaults
  /\ faults' = faults + 1
  /\ pass' = Waiting
  /\ UNCHANGED <<apiVars, informerVars, job, table, etpWarned, synced, divWarned, repaired,
                 relisted, backoff, withheld>>

(* Mutant: only the backends the store has and the list has not. *)
DivergencesExtra(live) ==
  {d \in Services \X Ports : ~(BackendSets(d[1], cur)[d[2]] \subseteq BackendSets(d[1], live)[d[2]])}

(* divergences and DiffBackendSets: the ports whose backends differ. *)
Divergences(live) ==
  {d \in Services \X Ports : BackendSets(d[1], live)[d[2]] # BackendSets(d[1], cur)[d[2]]}
Diverging(divs) == {d[1] : d \in divs}

(* breakerTripped. *)
WithReady == {k \in Services : \E p \in Ports : BackendSets(k, cur)[p] # {}}
Losing(live) ==
  {k \in WithReady : \E p \in Ports : ~(BackendSets(k, cur)[p] \subseteq BackendSets(k, live)[p])}
BreakerTripped(live) ==
  \/ (\A k \in Services : live.svc[k] = NoObj) /\ StoreView(cur) # {}
  \/ WithReady # {} /\ 2 * Cardinality(Losing(live)) > Cardinality(WithReady)

(* settleRepaired: the repaired Services that no longer diverge. *)
Settled(divs) == repaired \ Diverging(divs)

(* The comparison, and again after a second list when the first one differs; *)
(* then settleRepaired, whose reconciles follow.                             *)
Compare ==
  /\ pass.pc = "compare"
  /\ LET live == pass.live
         divs == Divergences(live)
     IN IF divs # {} /\ ~pass.confirm
        THEN pass' = [pc |-> "confirm"] /\ UNCHANGED repaired
        ELSE /\ repaired' = repaired \ Settled(divs)
             /\ pass' = [pc |-> "settle", live |-> live, divs |-> divs,
                         tripped |-> BreakerTripped(live),
                         todo |-> {t \in StoreView(cur) : t.key \in Settled(divs)}]
  /\ UNCHANGED <<apiVars, informerVars, job, table, etpWarned, synced, divWarned, relisted,
                 backoff, withheld, faults>>

EndKeyEpisodes(divs) == divWarned \cap divs
ReportDivergences(divs) == divWarned' = EndKeyEpisodes(divs) \cup divs
EndEpisode == relisted' = FALSE /\ withheld' = FALSE

(* The rest of the pass: endEpisode, the breaker or the repairs. *)
Decide ==
  /\ pass.pc = "settle" /\ pass.todo = {} /\ job["run"] = Idle
  /\ ReportDivergences(pass.divs)
  /\ CASE pass.divs = {} -> pass' = Waiting /\ EndEpisode
       [] pass.divs # {} /\ pass.tripped ->
            pass' = [pc |-> "relist"] /\ withheld' = TRUE /\ UNCHANGED relisted
       [] OTHER ->
            /\ pass' = [pc |-> "repair", live |-> pass.live, divs |-> pass.divs]
            /\ UNCHANGED <<relisted, withheld>>
  /\ UNCHANGED <<apiVars, informerVars, job, table, etpWarned, synced, repaired, backoff, faults>>

(* storeNewerThan. *)
StoreNewer(k, live) ==
  \/ cur.svc[k] # NoObj /\ cur.svc[k].rv > live.svcRV
  \/ cur.slice[k].rv > live.sliceRV

(* repairService, under its stripe. *)
RepairService ==
  /\ pass.pc = "repair"
  /\ \E k \in Diverging(pass.divs) :
       /\ StripeFree(k)
       /\ pass' = [pass EXCEPT !.divs = {d \in @ : d[1] # k}]
       /\ IF StoreNewer(k, pass.live) THEN UNCHANGED <<table, repaired>>
          ELSE /\ table' = [table EXCEPT ![k] =
                    [p \in Ports |->
                       IF <<k, p>> \in pass.divs
                          /\ ~(Served(pass.live.svc[k]) /\ p \in pass.live.svc[k].ports)
                       THEN NoObj
                       ELSE Given(k, pass.live.svc[k], pass.live.slice[k])[p]]]
               /\ repaired' = repaired \cup {k}
  /\ UNCHANGED <<apiVars, informerVars, job, etpWarned, synced, divWarned, relisted, backoff,
                 withheld, faults>>

RepairDone ==
  /\ pass.pc = "repair" /\ pass.divs = {}
  /\ pass' = [pc |-> "relist"]
  /\ UNCHANGED <<apiVars, informerVars, job, table, etpWarned, synced, divWarned, repaired,
                 relisted, backoff, withheld, faults>>

(* relist, up to its wait for the sync. *)
Relist ==
  /\ next' = Fresh
  /\ pass' = [pc |-> "sync", was |-> synced]
  /\ synced' = FALSE

MaybeRelist ==
  /\ pass.pc = "relist"
  /\ IF relisted \/ backoff
     THEN pass' = Waiting /\ UNCHANGED <<next, synced, relisted>>
     ELSE /\ relisted' = TRUE
          /\ Relist
  /\ UNCHANGED <<apiVars, cur, job, table, etpWarned, divWarned, repaired, backoff, withheld, faults>>

SyncFails ==
  /\ pass.pc = "sync"
  /\ faults < MaxFaults
  /\ faults' = faults + 1
  /\ next' = NoSet
  /\ synced' = pass.was
  /\ pass' = Waiting
  /\ UNCHANGED <<apiVars, cur, job, table, etpWarned, divWarned, repaired, relisted, backoff, withheld>>

(* The swap, under swapMu: no handler is between its gate and its delivery. The *)
(* handlers of the new set have ignored any number of its events by then.       *)
Swap ==
  /\ pass.pc = "sync"
  /\ job["service"] = Idle /\ job["slice"] = Idle
  /\ \E i \in 0 .. Len(next.queue.svc), j \in 0 .. Len(next.queue.slice) :
       cur' = [next EXCEPT !.queue = [svc |-> SubSeq(@.svc, i + 1, Len(@.svc)),
                                      slice |-> SubSeq(@.slice, j + 1, Len(@.slice))]]
  /\ next' = NoSet
  /\ pass' = [pc |-> "fresh", old |-> StoreView(cur)]
  /\ UNCHANGED <<apiVars, job, table, etpWarned, synced, divWarned, repaired, relisted, backoff,
                 withheld, faults>>

(* The Services the fresh store lacks. *)
Compared ==
  /\ pass.pc = "fresh"
  /\ pass' = [pc |-> "prune", todo |-> {t \in pass.old : cur.svc[t.key] = NoObj}]
  /\ UNCHANGED <<apiVars, informerVars, job, table, etpWarned, synced, divWarned, repaired,
                 relisted, backoff, withheld, faults>>

Prune ==
  /\ pass.pc = "prune"
  /\ \/ \E t \in pass.todo :
          /\ Served(t.obj) => StripeFree(t.key)
          /\ table' = [table EXCEPT ![t.key] = Without(t.key, t.obj)]
          /\ pass' = [pass EXCEPT !.todo = @ \ {t}]
     \/ /\ pass.todo = {}
        /\ pass' = [pc |-> "apply", todo |-> StoreView(cur)]
        /\ UNCHANGED table
  /\ UNCHANGED <<apiVars, informerVars, job, etpWarned, synced, divWarned, repaired, relisted,
                 backoff, withheld, faults>>

BackoffElapses ==
  /\ backoff
  /\ backoff' = FALSE
  /\ UNCHANGED <<apiVars, informerVars, job, table, etpWarned, pass, synced, divWarned, repaired,
                 relisted, withheld, faults>>

-----------------------------------------------------------------------------
ServiceHandler == OnService \/ OnServiceDelete \/ Deliver("service")
SliceHandler == OnSlice \/ OnSliceReconcile \/ Deliver("slice")
Run == ReconcileOne \/ Deliver("run") \/ StoreApplied \/ ListServices \/ ListSlices \/ Compare
       \/ Decide \/ RepairService \/ RepairDone \/ MaybeRelist \/ Swap \/ Compared \/ Prune
Streams == \E kind \in Kinds : Watch(kind) \/ WatchNext(kind)
Faults == ListFails \/ SyncFails \/ \E kind \in Kinds : LoseEvent(kind)
Changes == \E k \in Changing : ChangeService(k) \/ ChangeSlice(k)

Next == Changes \/ Streams \/ ServiceHandler \/ SliceHandler \/ Run \/ BackoffElapses \/ Faults

(* The three goroutines run, the watches deliver what they do not lose, and *)
(* time passes. Nothing obliges the API to change or to fail.               *)
Fairness ==
  /\ \A kind \in Kinds : WF_vars(Watch(kind))
  /\ WF_vars(ServiceHandler) /\ WF_vars(SliceHandler) /\ WF_vars(Run)
  /\ WF_vars(BackoffElapses)

Spec == Init /\ [][Next]_vars

-----------------------------------------------------------------------------
(* Nothing is under way: the handlers have seen everything the store has. *)
Quiet ==
  /\ synced /\ pass.pc = "wait"
  /\ \A g \in Goroutines : job[g] = Idle
  /\ \A kind \in Kinds : cur.queue[kind] = <<>>

(* Once Synced reports true and the handlers have caught up with the store,   *)
(* every port the store serves has exactly the backends the store gives it,   *)
(* unless it was repaired from a list and not settled since: no delivery of a *)
(* handler, a pass or a relist leaves an older set on top of a newer one.     *)
ServedCurrent ==
  Quiet => \A k \in Services \ repaired : \A p \in Ports :
             Served(cur.svc[k]) /\ p \in cur.svc[k].ports => table[k][p] = EpsOf(k, cur.slice[k])

(* Whatever events the store missed, the ports the API serves end with the    *)
(* backends the API gives them, or the breaker withholds the repair for ever. *)
(* (A port without backends that the store does not know of is no divergence  *)
(* to the pass, whatever the proxy was given for it.)                         *)
Heals ==
  \/ <>[]withheld
  \/ <>[](\A k \in Services : \A p \in Ports :
            LET given == IF table[k][p] = NoObj THEN {} ELSE table[k][p]
                want == BackendSets(k, api)[p]
                known(v) == Served(v[k]) /\ p \in v[k].ports
            IN known(api.svc) /\ (want # {} \/ known(cur.svc)) => given = want)
=============================================================================
