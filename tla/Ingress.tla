------------------------------ MODULE Ingress ------------------------------
(***************************************************************************)
(* The ingress route table (pkg/ingress/route.go) and the watcher that     *)
(* computes it from the Ingress and Service informers (watch.go).          *)
(*                                                                         *)
(* The handlers of the two informers run on a goroutine each, and either   *)
(* recomputes everything: the mutex covers the list, the lookups and the   *)
(* swap, but neither informer, whose stores change meanwhile, nor the      *)
(* callback with the TLS Secrets, which runs after it is released. Names   *)
(* are numbers, in their order; a path is its segments, of one length, and *)
(* whether it ends in a slash.                                             *)
(***************************************************************************)
EXTENDS SeqFolds

CONSTANTS
  Informers,        \* {"ingresses", "services"}
  ObjectVersions,   \* of each informer, the states its store may be in, by name
  Hosts, Paths,     \* the hosts ("" included) and paths that are asked for
  NoObject, NoBackend, NoVIP,
  MaxObjectChanges

ASSUME IngressAssumption == "free" \notin Informers

VARIABLES
  objects,    \* the two informers' stores
  unhandled,  \* of each, the notifications not yet handled
  resyncMu,   \* the handler that holds it, or "free"
  listed,     \* the Ingresses its desiredState has listed
  routeTable, \* RouteTable.state
  callback,   \* of each handler, the Secret references it is to surface, or NoObject
  surfaced,   \* what OnTLSSecrets was last called with
  objectChanges

ingressVars == <<objects, unhandled, resyncMu, listed, routeTable, callback, surfaced, objectChanges>>

NoRoutes == [rules |-> <<>>, default |-> NoBackend]

IngressInit ==
  /\ objects = [k \in Informers |-> <<>>]
  /\ unhandled = [k \in Informers |-> 0]
  /\ resyncMu = "free" /\ listed = <<>>
  /\ routeTable = NoRoutes
  /\ callback = [k \in Informers |-> NoObject] /\ surfaced = {}
  /\ objectChanges = 0

-----------------------------------------------------------------------------
(* RouteTable. *)

PathLen(p) == 2 * Len(p.segments) + (IF p.slash THEN 1 ELSE 0)

SegmentPrefixMatch(rulePath, reqPath) == IsPrefix(rulePath.segments, reqPath.segments)

RuleMatches(r, path) == IF r.exact THEN path = r.path ELSE SegmentPrefixMatch(r.path, path)

\* The rule replaces the best one found so far.
Beats(r, best) ==
  \/ best = NoObject
  \/ PathLen(r.path) > PathLen(best.path)
  \/ PathLen(r.path) = PathLen(best.path) /\ r.exact /\ ~best.exact

BestMatch(rules, host, path) ==
  FoldLeft(LAMBDA best, r : IF r.host = host /\ RuleMatches(r, path) /\ Beats(r, best)
                            THEN r ELSE best, NoObject, rules)

\* Match: the host's rules, those of any host, the default backend.
Match(t, host, path) ==
  LET own == BestMatch(t.rules, host, path)
      any == BestMatch(t.rules, "", path)
  IN IF own # NoObject THEN own.backend
     ELSE IF any # NoObject THEN any.backend ELSE t.default

-----------------------------------------------------------------------------
(* desiredState. A backend names a Service and a port by number, or by name (the number
   is then 0); Service 0 is a backend that is no Service. *)

ResolveBackend(b, svcs) ==
  LET svc == svcs[b.service]
      port == IF b.name = "" THEN b.number
              ELSE IF b.name \in DOMAIN svc.ports THEN svc.ports[b.name] ELSE 0
  IN IF b.service \notin DOMAIN svcs \/ svc.vip = NoVIP \/ port \notin 1..65535 THEN NoBackend
     ELSE [vip |-> svc.vip, port |-> port]

\* rulesFor: a wildcard host's rule is left out, and a path whose backend does not resolve.
RulesFor(rule, svcs) ==
  IF rule.wildcard THEN <<>>
  ELSE LET all == [i \in DOMAIN rule.paths |->
                     [host |-> rule.host, path |-> rule.paths[i].path, exact |-> rule.paths[i].exact,
                      backend |-> ResolveBackend(rule.paths[i].backend, svcs)]]
       IN SelectSeq(all, LAMBDA r : r.backend # NoBackend)

\* The Ingresses of the class, in order.
OfClass(ings) == SelectSeq(ings, LAMBDA ing : ing.class)

DesiredRoutes(ings, svcs) ==
  [rules |-> FlattenSeq([i \in DOMAIN ings |->
               FlattenSeq([j \in DOMAIN ings[i].rules |-> RulesFor(ings[i].rules[j], svcs)])]),
   default |-> FoldLeft(LAMBDA def, ing : IF def = NoBackend THEN ResolveBackend(ing.default, svcs) ELSE def,
                        NoBackend, ings)]

\* The tls[] Secrets, each with the union of its hosts.
SecretRefs(ings) ==
  LET tls == UNION {ings[i].tls : i \in DOMAIN ings}
  IN {[secret |-> t.secret, hosts |-> UNION {u.hosts : u \in {v \in tls : v.secret = t.secret}}] : t \in tls}

-----------------------------------------------------------------------------
(* The informers and resync. *)

ObjectsChange(k) ==
  /\ objectChanges < MaxObjectChanges /\ objectChanges' = objectChanges + 1
  /\ \E v \in ObjectVersions[k] \ {objects[k]} : objects' = [objects EXCEPT ![k] = v]
  /\ unhandled' = [unhandled EXCEPT ![k] = @ + 1]
  /\ UNCHANGED <<resyncMu, listed, routeTable, callback, surfaced>>

\* Mutant of ResyncLists: a handler that finds the other at work leaves it the work.
ResyncListsCoalesced(k) ==
  /\ unhandled[k] > 0 /\ callback[k] = NoObject /\ resyncMu # k
  /\ unhandled' = [unhandled EXCEPT ![k] = @ - 1]
  /\ IF resyncMu = "free" THEN resyncMu' = k /\ listed' = OfClass(objects["ingresses"])
     ELSE UNCHANGED <<resyncMu, listed>>
  /\ UNCHANGED <<objects, routeTable, callback, surfaced, objectChanges>>

\* A handler takes the lock and lists the Ingresses.
ResyncLists(k) ==
  /\ unhandled[k] > 0 /\ callback[k] = NoObject /\ resyncMu = "free"
  /\ unhandled' = [unhandled EXCEPT ![k] = @ - 1]
  /\ resyncMu' = k /\ listed' = OfClass(objects["ingresses"])
  /\ UNCHANGED <<objects, routeTable, callback, surfaced, objectChanges>>

\* It looks the Services up, swaps the table and releases the lock.
ResyncUpdates(k) ==
  /\ resyncMu = k /\ resyncMu' = "free" /\ listed' = <<>>
  /\ routeTable' = DesiredRoutes(listed, objects["services"])
  /\ callback' = [callback EXCEPT ![k] = SecretRefs(listed)]
  /\ UNCHANGED <<objects, unhandled, surfaced, objectChanges>>

OnTLSSecrets(k) ==
  /\ callback[k] # NoObject
  /\ surfaced' = callback[k] /\ callback' = [callback EXCEPT ![k] = NoObject]
  /\ UNCHANGED <<objects, unhandled, resyncMu, listed, routeTable, objectChanges>>

IngressNext ==
  \E k \in Informers : ObjectsChange(k) \/ ResyncLists(k) \/ ResyncUpdates(k) \/ OnTLSSecrets(k)

-----------------------------------------------------------------------------
(* The routing that Ingress objects declare (networking/v1), over the stores as they are. *)

Targets(b) ==
  LET svcs == objects["services"]
      reachable == {svcs[n] : n \in {m \in DOMAIN svcs : m = b.service /\ svcs[m].vip # NoVIP}}
      ports(svc) == IF b.name = "" THEN {b.number} ELSE {svc.ports[n] : n \in DOMAIN svc.ports \cap {b.name}}
  IN UNION {{[vip |-> svc.vip, port |-> q] : q \in ports(svc) \cap 1..65535} : svc \in reachable}

\* The paths declared for a host that admit a request, by their place.
Admitting(host, path) ==
  LET ings == OfClass(objects["ingresses"])
      places == UNION {UNION {{<<i, j, p>> : p \in DOMAIN ings[i].rules[j].paths} :
                              j \in DOMAIN ings[i].rules} : i \in DOMAIN ings}
      at(c) == ings[c[1]].rules[c[2]].paths[c[3]]
      admits(c) ==
        /\ ings[c[1]].rules[c[2]].host = host /\ ~ings[c[1]].rules[c[2]].wildcard
        /\ Targets(at(c).backend) # {}
        /\ IF at(c).exact THEN at(c).path = path
           ELSE \A n \in DOMAIN at(c).path.segments :
                  n \in DOMAIN path.segments /\ at(c).path.segments[n] = path.segments[n]
  IN {[place |-> c, path |-> at(c).path, exact |-> at(c).exact, target |-> Targets(at(c).backend)] :
      c \in {d \in places : admits(d)}}

\* The longest path, then an exact one, then the one declared first.
Precedes(c, d) ==
  \/ PathLen(c.path) > PathLen(d.path)
  \/ PathLen(c.path) = PathLen(d.path) /\ c.exact /\ ~d.exact
  \/ /\ PathLen(c.path) = PathLen(d.path) /\ c.exact = d.exact
     /\ \E n \in 1..3 : c.place[n] < d.place[n] /\ \A m \in 1..(n - 1) : c.place[m] = d.place[m]

Declared(host, path) ==
  LET ings == OfClass(objects["ingresses"])
      winner(cs) == (CHOOSE c \in cs : \A d \in cs \ {c} : Precedes(c, d)).target
      defaults == {i \in DOMAIN ings : Targets(ings[i].default) # {}}
  IN IF Admitting(host, path) # {} THEN winner(Admitting(host, path))
     ELSE IF Admitting("", path) # {} THEN winner(Admitting("", path))
     ELSE UNION {Targets(ings[i].default) : i \in {d \in defaults : \A e \in defaults : d <= e}}

(* When every notification has been handled, a request is routed as the Ingresses and
   Services now declare it, whichever of the two handlers ran last and however the stores
   changed while one of them was computing: a stale table never stays over a fresher one
   (resyncMu), and the fold of bestMatch is the documented precedence (Match). *)
RoutedAsDeclared ==
  (\A k \in Informers : unhandled[k] = 0) /\ resyncMu = "free" =>
    \A host \in Hosts, path \in Paths :
      {Match(routeTable, host, path)} \ {NoBackend} = Declared(host, path)
=============================================================================
