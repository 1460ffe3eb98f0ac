----------------------------- MODULE MCWatchers -----------------------------
(***************************************************************************)
(* The components that follow somebody else's state: the NetworkPolicy     *)
(* watcher, the NodePort set, the ingress watcher and the link watch. They *)
(* share no state: a behaviour is one of any of them.                      *)
(***************************************************************************)
EXTENDS PolicyWatch, NodePortSet, LinkWatch, Ingress, TLC

VARIABLE part

watchersVars == <<policyVars, npVars, linkVars, ingressVars, part>>

(* Two pods and two namespaces, with policies that reach every clause. *)
WebPod(label) == [ns |-> "n1", labels |-> {label}, ip |-> 1]
Client(ns, ip) == [ns |-> ns, labels |-> {"client"}, ip |-> ip]
Peer(block, nsSel, podSel) == [block |-> block, nsSel |-> nsSel, podSel |-> podSel]
Policy(ingress, sel, rules) == [ns |-> "n1", ingress |-> ingress, sel |-> sel, rules |-> rules]
Rule(from, ports) == [from |-> from, ports |-> ports]
Http == [name |-> 0, port |-> 90]

SomeVersions ==
  [pods |-> {{WebPod("web"), Client("n1", 2)}, {WebPod("web"), Client("n2", 2)},
             {WebPod("web"), Client("n1", NoIP)}, {WebPod("client"), Client("n1", 2)}},
   namespaces |-> {{[name |-> "n1", labels |-> {}], [name |-> "n2", labels |-> {"team"}]},
                   {[name |-> "n1", labels |-> {}], [name |-> "n2", labels |-> {}]}},
   networkpolicies |->
     {{Policy(TRUE, "web", {Rule({Peer(FALSE, "none", "client")}, {80})})},
      {Policy(TRUE, "web", {Rule({Peer(FALSE, "team", "all")}, {})})},
      {Policy(TRUE, "web", {Rule({Peer(TRUE, "none", "all"), Peer(FALSE, "none", "bad")}, {80})}),
       Policy(TRUE, "all", {})},
      {Policy(TRUE, "web", {Rule({Peer(FALSE, "bad", "all")}, {Http.name})}), Policy(FALSE, "all", {})},
      {Policy(TRUE, "web", {Rule({}, {80}), Rule({Peer(FALSE, "none", "web")}, {})}), Policy(TRUE, "bad", {})}}]

(* Loopback is 1, the node 2, a pod's alias 3, two LAN addresses 11 and 12, and 13 is down. *)
SomeIfaces == {[up |-> TRUE, loopback |-> TRUE, addrs |-> {1, 2, 3}],
               [up |-> TRUE, loopback |-> FALSE, addrs |-> {11, 12}],
               [up |-> FALSE, loopback |-> FALSE, addrs |-> {13}]}
SomeSpecs == {[local |-> FALSE, prefixes |-> {}], [local |-> TRUE, prefixes |-> {}],
              [local |-> TRUE, prefixes |-> {{11, 12, 13}}], [local |-> FALSE, prefixes |-> {{2, 3}, {12}}],
              [local |-> FALSE, prefixes |-> {{13}}]}

(* Ingresses of two hosts over two Services, with ties in length, a wildcard host, another
   class, a port by name, defaults, and Services without the port or a VIP. *)
Path(segments, slash) == [segments |-> segments, slash |-> slash]
Root == Path(<<>>, TRUE)
Foo == Path(<<"foo">>, FALSE)
FooSlash == Path(<<"foo">>, TRUE)
FooBar == Path(<<"foo", "bar">>, FALSE)
SomePaths == {Root, Foo, FooSlash, FooBar, Path(<<"baz", "bar">>, FALSE)}
Backend(service, number, name) == [service |-> service, number |-> number, name |-> name]
NoDefault == Backend(0, 0, "")
HostRule(host, paths) == [host |-> host, wildcard |-> FALSE, paths |-> paths]
To(path, exact, backend) == [path |-> path, exact |-> exact, backend |-> backend]
Secret(name, hosts) == [secret |-> name, hosts |-> hosts]
Web == [class |-> TRUE, default |-> NoDefault, tls |-> {Secret("s1", {"a"})},
        rules |-> <<HostRule("a", <<To(Foo, FALSE, Backend(1, 80, "")), To(Foo, TRUE, Backend(2, 0, "http"))>>)>>]
Site == [class |-> TRUE, default |-> Backend(1, 90, ""), tls |-> {Secret("s1", {"b"}), Secret("s2", {"a"})},
         rules |-> <<HostRule("a", <<To(FooSlash, FALSE, Backend(2, 80, "")), To(Foo, FALSE, Backend(1, 0, "http"))>>),
                     HostRule("", <<To(Root, FALSE, Backend(2, 81, ""))>>)>>]
Wild == [class |-> TRUE, default |-> Backend(2, 0, "http"), tls |-> {},
         rules |-> <<[HostRule("a", <<To(FooBar, TRUE, Backend(1, 82, ""))>>) EXCEPT !.wildcard = TRUE]>>]
Other == [Web EXCEPT !.class = FALSE]
Svc(vip, ports) == [vip |-> vip, ports |-> ports]
SomeObjects ==
  [ingresses |-> {<<>>, <<Web>>, <<Web, Site>>, <<Wild, Site>>, <<Other, Wild>>, <<Site, Other>>},
   services |-> {<<>>, <<Svc(11, "http" :> 70)>>, <<Svc(11, "https" :> 70), Svc(12, "http" :> 71)>>,
                 2 :> Svc(12, "http" :> 71 @@ "https" :> 0),
                 <<Svc(NoVIP, "http" :> 70), Svc(12, "http" :> 72)>>}]

\* Where the other components run, the link watch has one initial state.
LinkIdle == flags = "gone" /\ ~carrier /\ ~reported /\ reader = "none"

WatchersInit ==
  /\ PolicyInit /\ NpInit /\ LinkInit /\ IngressInit
  /\ part \in {"policy", "nodeports", "link", "ingress"}
  /\ part # "nodeports" => npAddrs = {}
  /\ part # "link" => LinkIdle

WatchersNext ==
  /\ part' = part
  /\ \/ part = "policy" /\ PolicyNext /\ UNCHANGED <<npVars, linkVars, ingressVars>>
     \/ part = "nodeports" /\ NpNext /\ UNCHANGED <<policyVars, linkVars, ingressVars>>
     \/ part = "link" /\ LinkNext /\ UNCHANGED <<policyVars, npVars, ingressVars>>
     \/ part = "ingress" /\ IngressNext /\ UNCHANGED <<policyVars, npVars, linkVars>>

(* A policy watcher that is not this behaviour's never syncs: nothing of it is enabled. *)
WatchersSpec == WatchersInit /\ [][WatchersNext]_watchersVars /\ PolicyFairness
=============================================================================
