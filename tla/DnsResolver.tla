---------------------------- MODULE DnsResolver -----------------------------
(***************************************************************************)
(* The reference resolver of pkg/dns: how a pod's DNS configuration is     *)
(* made, and the walk of one LookupHost over candidate names, servers and  *)
(* attempts. A name is its sequence of labels and whether it was written   *)
(* with a trailing dot; a search domain also says whether it is within the *)
(* RFC 1123 character set.                                                 *)
(***************************************************************************)
EXTENDS SeqFolds

CONSTANTS
  ClusterDomain,     \* labels
  MaxSearchDomains, MaxNDots, DefaultNDots, QueryAttempts,
  BadLabels,         \* labels no message can encode (empty, or over 63 bytes)
  LongNames          \* the candidates that are too long for a message

VARIABLES
  cfg,    \* the pod's netv1.DNSConfig
  name,   \* what is looked up
  ctx,    \* the caller's context has ended
  go      \* LookupHost: where its three loops are, the dead servers, clusterTempErr, the result

Domain(labels) == [labels |-> labels, dot |-> FALSE, valid |-> TRUE]

-----------------------------------------------------------------------------
(* The configuration. *)

dedupe(s) == FoldLeft(LAMBDA out, x : IF x \in Range(out) THEN out ELSE Append(out, x), <<>>, s)

\* A trimmed entry that is empty or has a byte outside the set is dropped; "." is neither.
sanitizeSearch(s) == SelectSeq(s, LAMBDA d : d.valid /\ (d.labels # <<>> \/ d.dot))
capSearch(s) == SubSeq(s, 1, IF Len(s) > MaxSearchDomains THEN MaxSearchDomains ELSE Len(s))
normalizeSearch(s) == capSearch(sanitizeSearch(s))

PodDNSConfig(ns, vip) ==
  [policy |-> "ClusterFirst", servers |-> <<vip>>, domain |-> ClusterDomain, ndots |-> DefaultNDots,
   search |-> <<Domain(<<ns, "svc">> \o ClusterDomain), Domain(<<"svc">> \o ClusterDomain), Domain(ClusterDomain)>>]

\* The pod adds searches behind the cluster's and may set ndots.
MergeDNSConfig(base, searches, ndots) ==
  IF base.policy # "ClusterFirst" THEN base
  ELSE [base EXCEPT !.search = capSearch(sanitizeSearch(dedupe(base.search \o searches))),
                    !.ndots = IF ndots > 0 THEN ndots ELSE @]

\* A server is [addr, v4]. Only the IPv4 ones of a DNSPolicyNone pod are used.
ipv4Servers(c) == SelectSeq(c.servers, LAMBDA s : s.v4)
Exclusive == cfg.policy = "None"
Servers == IF Exclusive THEN ipv4Servers(cfg) ELSE cfg.servers

-----------------------------------------------------------------------------
(* The candidates of a name. A candidate is a sequence of labels. *)

candidateNames(c, n) ==
  LET search == SelectSeq(normalizeSearch(c.search), LAMBDA d : d.labels # <<>>)
      searched == [i \in DOMAIN search |-> n.labels \o search[i].labels]
      ndots == IF c.ndots > 0 THEN c.ndots ELSE DefaultNDots
  IN  IF n.dot THEN <<n.labels>>
      ELSE dedupe(IF Len(n.labels) > ndots THEN <<n.labels>> \o searched
                  ELSE Append(searched, n.labels))

Candidates == candidateNames(cfg, name)

Under(n, d) == d # <<>> /\ IsSuffix(d, n)

\* A transient failure of such a candidate fails closed.
isClusterCandidate(n) ==
  \/ Exclusive
  \/ Len(n) <= 1
  \/ Under(n, cfg.domain) \/ \E i \in DOMAIN cfg.search : Under(n, cfg.search[i].labels)

\* A name with such a label, without labels or too long is a definitive miss that is not sent.
Encodable(n) == n # <<>> /\ Range(n) \cap BadLabels = {} /\ n \notin LongNames

\* Mutant of CompletePartialName: a name of two labels that ends in "svc" is completed too.
CompleteAnySvc(n, optedIn, reserved) ==
  IF n.dot \/ Under(n.labels, ClusterDomain) THEN [verdict |-> "Passthrough", name |-> n.labels]
  ELSE IF Last(n.labels) = "svc"
    THEN IF Range(n.labels) \cap BadLabels = {} /\ Len(n.labels) \in {2, 3}
           THEN [verdict |-> "Completed", name |-> n.labels \o ClusterDomain]
         ELSE [verdict |-> "Refused", name |-> n.labels]
  ELSE IF Range(n.labels) \cap BadLabels = {} /\ Len(n.labels) = 2 /\ n.labels[2] \in optedIn \ reserved
    THEN [verdict |-> "Completed", name |-> n.labels \o <<"svc">> \o ClusterDomain]
  ELSE [verdict |-> "Forward", name |-> n.labels]

\* What the node's resolver makes of a name from a process without the shim. optedIn are
\* the namespaces that have their own match domain, reserved the suffixes none may have.
CompletePartialName(n, optedIn, reserved) ==
  IF n.dot \/ Under(n.labels, ClusterDomain) THEN [verdict |-> "Passthrough", name |-> n.labels]
  ELSE IF Last(n.labels) = "svc"
    THEN IF Range(n.labels) \cap BadLabels = {} /\ Len(n.labels) = 3
           THEN [verdict |-> "Completed", name |-> n.labels \o ClusterDomain]
         ELSE [verdict |-> "Refused", name |-> n.labels]
  ELSE IF Range(n.labels) \cap BadLabels = {} /\ Len(n.labels) = 2 /\ n.labels[2] \in optedIn \ reserved
    THEN [verdict |-> "Completed", name |-> n.labels \o <<"svc">> \o ClusterDomain]
  ELSE [verdict |-> "Forward", name |-> n.labels]

-----------------------------------------------------------------------------
(* LookupHost. go.k is the candidate, go.i the server, go.attempt the attempt. *)

Start == [pc |-> "candidate", k |-> 1, attempt |-> 1, i |-> 1, live |-> FALSE, dead |-> {},
          temp |-> FALSE, res |-> "none"]

\* What is left when the lookup returns, and when it goes on: the loops' counters are gone.
Done(g, res) == [g EXCEPT !.pc = "done", !.res = res, !.attempt = 1, !.i = 1, !.live = FALSE, !.dead = {}]
NextCandidate(g) == [g EXCEPT !.pc = "candidate", !.k = @ + 1, !.attempt = 1, !.i = 1, !.live = FALSE]
GoDone(res) == go' = Done(go, res)
Candidate == Candidates[go.k]

\* The end of the list, or the next candidate that is not skipped. After a transient
\* failure of a cluster candidate the others are not asked for.
LookupHost ==
  /\ go.pc = "candidate"
  /\ IF go.k > Len(Candidates) THEN GoDone(IF go.temp THEN "tempfail" ELSE "notfound")
     ELSE go' = IF go.temp /\ isClusterCandidate(Candidate) THEN NextCandidate(go)
                ELSE [go EXCEPT !.pc = "server"]
  /\ UNCHANGED <<cfg, name, ctx>>

\* Mutant of TempFail: a transient failure of a cluster candidate is a miss.
TempFailMisses ==
  IF isClusterCandidate(Candidate) THEN go' = NextCandidate(go) ELSE GoDone("notfound")

\* The candidate's outcome is unknown.
TempFail ==
  IF isClusterCandidate(Candidate) THEN go' = NextCandidate([go EXCEPT !.temp = TRUE])
  ELSE GoDone("notfound")

\* queryCandidate's loops. A single server is asked QueryAttempts times; of several the
\* dead ones are skipped, and an attempt that finds none alive is the last.
NextServer ==
  /\ go.pc = "server"
  /\ IF go.i <= Len(Servers)
       THEN IF Len(Servers) > 1 /\ go.i \in go.dead THEN go' = [go EXCEPT !.i = @ + 1]
            ELSE IF ctx THEN TempFail ELSE go' = [go EXCEPT !.pc = "ask", !.live = TRUE]
     ELSE IF go.live /\ go.attempt < QueryAttempts THEN go' = [go EXCEPT !.attempt = @ + 1, !.i = 1, !.live = FALSE]
     ELSE TempFail
  /\ UNCHANGED <<cfg, name, ctx>>

\* askServer: a hit or a definitive miss ends the candidate, and a server that fails at
\* the transport level is dead for the rest of the lookup.
Answered(reply) ==
  CASE reply = "hit" -> GoDone("addrs")
    [] reply = "miss" -> go' = NextCandidate(go)
    [] OTHER -> go' = [go EXCEPT !.pc = "server", !.i = @ + 1,
                                 !.dead = IF reply = "transport" THEN @ \cup {go.i} ELSE @]

\* A message has the kind of its header ("foreign": too short, of another query, or a query;
\* "lost": none came), the bits that count, whether its question section is whole, and its
\* answer records. The last may be "cut", or short of the smallest record ("end").
Lost == [head |-> "lost", tc |-> FALSE, rcode |-> "noerror", question |-> TRUE, answers |-> <<>>]

\* The reply is walked to its end before anything it says is used; askServer then takes
\* two rcodes for an answer.
parseAAddrs(msg) ==
  IF msg.head # "ours" \/ ~msg.question THEN "unusable"
  ELSE IF msg.tc THEN "truncated"
  ELSE IF Range(msg.answers) \cap {"end", "cut"} # {} \/ msg.rcode = "error" THEN "unusable"
  ELSE IF "A" \in Range(msg.answers) THEN "hit" ELSE "miss"

\* The datagram and, when it was truncated, the refetch over TCP; either may be lost.
queryA(udp, tcp) ==
  IF udp.head = "lost" THEN "transport"
  ELSE IF parseAAddrs(udp) # "truncated" THEN parseAAddrs(udp)
  ELSE IF tcp.head = "lost" THEN "transport"
  ELSE IF parseAAddrs(tcp) = "truncated" THEN "unusable" ELSE parseAAddrs(tcp)

\* queryA without a message: the name cannot be encoded.
Unencodable ==
  /\ go.pc = "ask" /\ ~Encodable(Candidate)
  /\ Answered("miss")
  /\ UNCHANGED <<cfg, name, ctx>>

GoAsks == go.pc = "ask" /\ Encodable(Candidate)
GoQuestion == <<Candidate, go.i>>
=============================================================================
