------------------------------- MODULE MCDns --------------------------------
(* Lookups of a few names under every shape of configuration and request. *)
EXTENDS GetaddrinfoShim

CONSTANTS OptedIn, Reserved

MCClusterDomain == <<"cl">>
MCLongNames == {<<"db", "ns2", "long">>}
Vip == [addr |-> "vip", v4 |-> TRUE]
Ns(a) == [addr |-> a, v4 |-> TRUE]
Ns6 == [addr |-> "n6", v4 |-> FALSE]
Bad == [labels |-> <<"not valid">>, dot |-> FALSE, valid |-> FALSE]
Rooted(labels) == [labels |-> labels, dot |-> TRUE, valid |-> TRUE]

NonePolicy(servers, search, domain, ndots) ==
  [policy |-> "None", servers |-> servers, domain |-> domain, ndots |-> ndots, search |-> search]

\* Replies that are whole, and every way in which one can be cut short.
Reply(rcode, answers) == [head |-> "ours", tc |-> FALSE, rcode |-> rcode, question |-> TRUE, answers |-> answers]
Whole == {Reply("noerror", a) : a \in {<<>>, <<"other">>, <<"A">>, <<"other", "A">>}} \cup {Reply("nxdomain", <<>>), Reply("error", <<>>)}
CutShort == {Reply("noerror", a) : a \in {<<"end">>, <<"cut">>, <<"other", "end">>, <<"other", "cut">>, <<"A", "cut">>}}
  \cup {Reply("nxdomain", <<"cut">>)}
NoQuestion == {[Reply(r, a) EXCEPT !.question = FALSE, !.tc = t] : r \in {"noerror"}, a \in {<<"end">>}, t \in BOOLEAN}
MCReplies == Whole \cup CutShort \cup NoQuestion
  \cup {[Reply("noerror", <<>>) EXCEPT !.tc = TRUE], [Reply("noerror", <<>>) EXCEPT !.head = "foreign"]}

\* A pod's own searches: none, one it has without the dot, or one that is unusable, one it
\* has, one that is the root and one more than the list has room for. DNSPolicyNone lists
\* are as the pod wrote them. One ndots is above the cap.
Configs ==
  {MergeDNSConfig(PodDNSConfig("ns1", Vip), <<Rooted(<<"cl">>)>>, 1),
   MergeDNSConfig(PodDNSConfig("ns1", Vip), <<>>, MaxNDots + 1),
   MergeDNSConfig(PodDNSConfig("ns1", Vip), <<Bad, Domain(<<"cl">>), Rooted(<<>>), Domain(<<"corp">>), Domain(<<"over">>)>>, 0)}
  \cup {NonePolicy(<<Ns("a")>>, <<Domain(<<"corp">>), Domain(<<"corp">>)>>, <<>>, 2),
        NonePolicy(<<Ns("a"), Ns6, Ns("b")>>, <<Rooted(<<"corp">>), Domain(<<"long">>)>>, <<"cl">>, 1),
        NonePolicy(<<Ns("a"), Ns("b"), Ns("c")>>, <<>>, <<>>, 0)}
  \cup {[PodDNSConfig("ns1", Vip) EXCEPT !.servers = <<>>]}

Names ==
  {[labels |-> l, dot |-> FALSE] : l \in {<<"db">>, <<"db", "ns2">>, <<"db", "svc">>, <<"db", "ns2", "svc">>, <<"db", "", "x">>, <<"db", "ns2", "svc", "cl">>}}
  \cup {[labels |-> <<"db", "ns2">>, dot |-> TRUE], [labels |-> <<>>, dot |-> TRUE]}

Short == {[labels |-> <<"db">>, dot |-> FALSE], [labels |-> <<"db", "ns2">>, dot |-> FALSE]}

PlainRequest == [node |-> "name", numerichost |-> FALSE, inet6 |-> FALSE, service |-> "numeric"]
Requests ==
  {PlainRequest, [PlainRequest EXCEPT !.numerichost = TRUE], [PlainRequest EXCEPT !.inet6 = TRUE]}
  \cup {[PlainRequest EXCEPT !.service = s] : s \in {"range", "named", "unknown"}}
  \cup {[PlainRequest EXCEPT !.node = n] : n \in {"none", "numeric4", "numeric6", "localhost"}}

DnsInit ==
  /\ cfg \in Configs /\ name \in Names /\ req \in Requests
  /\ (req # PlainRequest => name \in Short)
  /\ zone \in {z \in SUBSET Range(ShimCandidates) : Cardinality(z) <= IF Plain /\ name \in Short THEN 2 ELSE 1}
  /\ DnsBegin

\* The engines share no state but the replies: the shim steps when the reference waits for
\* it or has ended, and not beside an ended context, which is nothing to it.
DnsNextScope == (shim' # shim) => ~ctx /\ (go.pc \in {"off", "done"} \/ (GoAsks /\ Abreast))

\* A completion of the node's resolver is what a pod of any namespace with the cluster's
\* search list would have been answered under: one of the candidates of that name.
CompletionIsCandidate ==
  LET c == CompletePartialName(name, OptedIn, Reserved)
  IN  name.labels # <<>> /\ c.verdict = "Completed" =>
        c.name \in Range(candidateNames(PodDNSConfig("ns1", Vip), name)) /\ Len(c.name) = 3 + Len(ClusterDomain)
=============================================================================
