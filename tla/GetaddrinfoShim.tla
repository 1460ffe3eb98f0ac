-------------------------- MODULE GetaddrinfoShim ---------------------------
(***************************************************************************)
(* The getaddrinfo interposer (shim/getaddrinfo_shim.c): the environment   *)
(* it is configured from (pkg/dns/env.go), and one call, to its result or  *)
(* to the host's own resolver. Beside it runs the reference resolver: they *)
(* are asked for the same name and get the same reply to the same          *)
(* question.                                                               *)
(***************************************************************************)
EXTENDS DnsResolver

CONSTANTS
  Attempts,     \* K3SM_DNS_ATTEMPTS
  MaxServers,   \* K3SM_MAX_NS
  Replies       \* the messages servers send

VARIABLES
  req,       \* the request's node, flags and service
  zone,      \* the names that exist
  shim,      \* k3sm_getaddrinfo, as go
  apart      \* (history) what has parted the two: "misread", "repeat"

dnsVars == <<cfg, name, ctx, go, req, zone, shim, apart>>

-----------------------------------------------------------------------------
(* The environment. *)

\* The encoder; an exclusive configuration without an IPv4 server has no encoding, and an
\* unusable one (servers = <<>>) leaves the shim unconfigured.
ConfigToEnvChecked(c) ==
  [server |-> IF c.policy = "None" THEN <<>> ELSE c.servers,
   servers |-> IF c.policy = "None" THEN ipv4Servers(c) ELSE <<>>,
   exclusive |-> c.policy = "None",
   domain |-> c.domain,
   search |-> normalizeSearch(c.search),
   ndots |-> LET n == IF c.ndots > 0 THEN c.ndots ELSE DefaultNDots
             IN  Min({n, MaxNDots})]

\* K3SM_DNS_SERVERS, of which MaxServers are kept, before K3SM_DNS_SERVER; a search token
\* loses one trailing dot, and one that is then empty is skipped.
k3sm_load_cfg(env) ==
  [servers |-> IF env.servers = <<>> THEN env.server
               ELSE SubSeq(env.servers, 1, Min({MaxServers, Len(env.servers)})),
   exclusive |-> env.exclusive,
   domain |-> env.domain,
   search |-> SelectSeq([i \in DOMAIN env.search |-> env.search[i].labels], LAMBDA d : d # <<>>),
   ndots |-> env.ndots]

ShimCfg == k3sm_load_cfg(ConfigToEnvChecked(cfg))

\* Mutant of k3sm_candidates: ndots counts labels.
k3sm_candidates_labels(c, n) ==
  LET searched == [i \in DOMAIN c.search |-> n.labels \o c.search[i]]
  IN  IF n.dot THEN <<n.labels>>
      ELSE IF Len(n.labels) >= c.ndots THEN <<n.labels>> \o searched
      ELSE Append(searched, n.labels)

k3sm_candidates(c, n) ==
  LET searched == [i \in DOMAIN c.search |-> n.labels \o c.search[i]]
  IN  IF n.dot THEN <<n.labels>>
      ELSE IF Len(n.labels) - 1 >= c.ndots THEN <<n.labels>> \o searched
      ELSE Append(searched, n.labels)

ShimCandidates == k3sm_candidates(ShimCfg, name)
ShimCandidate == ShimCandidates[shim.k]

k3sm_has_suffix_domain(n, d) == d # <<>> /\ IsSuffix(d, n)

k3sm_candidate_fail_closed(c, n) ==
  \/ c.exclusive
  \/ Len(n) <= 1
  \/ k3sm_has_suffix_domain(n, c.domain)
  \/ \E i \in DOMAIN c.search : k3sm_has_suffix_domain(n, c.search[i])

FailClosed == k3sm_candidate_fail_closed(ShimCfg, ShimCandidate)

-----------------------------------------------------------------------------
(* The call. *)

ShimGoto(pc) == shim' = [shim EXCEPT !.pc = pc]
ShimReturn(res) == shim' = Done(shim, res)
ShimSkip == shim' = NextCandidate(shim)
NamedService == req.service \in {"named", "unknown"}

\* What is decided before any candidate: the requests that need no resolution or that the
\* shim does not serve, and the service's port. A named service has its port from the
\* host's table in exclusive mode, and none otherwise.
Entry ==
  /\ shim.pc = "entry"
  /\ IF req.node = "none" THEN ShimReturn("host")
     ELSE IF ShimCfg.servers = <<>> /\ ~ShimCfg.exclusive THEN ShimReturn("host")
     ELSE IF req.node = "numeric4" \/ req.numerichost THEN ShimReturn("host")
     ELSE IF ShimCfg.exclusive /\ req.node \in {"numeric6", "localhost"} THEN ShimReturn("host")
     ELSE IF ShimCfg.exclusive /\ ShimCfg.servers = <<>> THEN ShimReturn("EAI_AGAIN")
     ELSE IF req.inet6 THEN ShimReturn(IF ShimCfg.exclusive THEN "EAI_NONAME" ELSE "host")
     ELSE IF req.service = "range" \/ (ShimCfg.exclusive /\ req.service = "unknown") THEN ShimReturn("EAI_SERVICE")
     ELSE ShimGoto("candidate")
  /\ UNCHANGED <<cfg, name, ctx, go, req, zone, apart>>

\* The walk: an over-long candidate is a miss before it is classified, and a named service
\* never has an external candidate asked for.
ShimWalk ==
  /\ shim.pc = "candidate"
  /\ IF shim.k > Len(ShimCandidates)
       THEN ShimReturn(IF shim.temp THEN "EAI_AGAIN" ELSE IF ShimCfg.exclusive THEN "EAI_NONAME" ELSE "host")
     ELSE IF ShimCandidate \in LongNames THEN ShimSkip
     ELSE IF shim.temp /\ FailClosed THEN ShimSkip
     ELSE IF NamedService /\ ~ShimCfg.exclusive /\ ~FailClosed THEN ShimReturn("host")
     ELSE ShimGoto("server")
  /\ UNCHANGED <<cfg, name, ctx, go, req, zone, apart>>

ShimTempFail ==
  IF FailClosed THEN shim' = NextCandidate([shim EXCEPT !.temp = TRUE]) ELSE ShimReturn("host")

\* k3sm_query_candidate's loops.
ShimServer ==
  /\ shim.pc = "server"
  /\ LET n == Len(ShimCfg.servers)
     IN  IF shim.i <= n
           THEN IF n > 1 /\ shim.i \in shim.dead THEN shim' = [shim EXCEPT !.i = @ + 1]
                ELSE shim' = [shim EXCEPT !.pc = "ask", !.live = TRUE]
         ELSE IF shim.live /\ shim.attempt < Attempts
           THEN shim' = [shim EXCEPT !.attempt = @ + 1, !.i = 1, !.live = FALSE]
         ELSE ShimTempFail
  /\ UNCHANGED <<cfg, name, ctx, go, req, zone, apart>>

\* A hit with a service it cannot map to a port is refused.
ShimAnswered(reply) ==
  CASE reply = "hit" -> ShimReturn(IF NamedService /\ ~ShimCfg.exclusive THEN "EAI_SERVICE" ELSE "addr")
    [] reply = "miss" -> ShimSkip
    [] OTHER -> shim' = [shim EXCEPT !.pc = "server", !.i = @ + 1,
                                     !.dead = IF reply = "transport" THEN @ \cup {shim.i} ELSE @]

\* The walk of the answers skips other records and ends at one of this kind.
EndsAt(answers, kind) ==
  \E i \in DOMAIN answers : answers[i] = kind /\ \A j \in 1..(i - 1) : answers[j] = "other"

\* What comes first decides: the bits, then the first record that is not skipped. A cut
\* question is not noticed, and bytes that are too few for a record end the answers.
k3sm_parse_a(msg) ==
  IF msg.head # "ours" THEN "unusable"
  ELSE IF msg.tc THEN "truncated"
  ELSE IF msg.rcode = "nxdomain" THEN "miss"
  ELSE IF msg.rcode = "error" \/ EndsAt(msg.answers, "cut") THEN "unusable"
  ELSE IF EndsAt(msg.answers, "A") THEN "hit" ELSE "miss"

k3sm_query_a(udp, tcp) ==
  IF udp.head = "lost" THEN "transport"
  ELSE IF k3sm_parse_a(udp) # "truncated" THEN k3sm_parse_a(udp)
  ELSE IF tcp.head = "lost" THEN "transport"
  ELSE IF k3sm_parse_a(tcp) = "truncated" THEN "unusable" ELSE k3sm_parse_a(tcp)

\* k3sm_encode_name refuses the name.
ShimUnencodable ==
  /\ shim.pc = "ask" /\ ~Encodable(ShimCandidate)
  /\ ShimAnswered("miss")
  /\ UNCHANGED <<cfg, name, ctx, go, req, zone, apart>>

ShimAsks == shim.pc = "ask" /\ Encodable(ShimCandidate)
ShimQuestion == <<ShimCandidate, shim.i>>

-----------------------------------------------------------------------------
(* The servers, and both engines. *)

\* A server that says whether a name exists says the truth, as far as its message goes.
Truthful(n, msg) ==
  msg.head = "ours" /\ ~msg.tc /\ msg.rcode # "error" =>
    /\ "A" \in Range(msg.answers) => n \in zone
    /\ n \in zone => msg.rcode = "noerror" /\ Range(msg.answers) \cap {"A", "end", "cut"} # {}

Messages(n) == {msg \in Replies : Truthful(n, msg)} \cup {Lost}
Refetched(n, udp) == IF "truncated" \in {parseAAddrs(udp), k3sm_parse_a(udp)} THEN Messages(n) ELSE {Lost}

Plain == req.node = "name" /\ ~req.numerichost /\ ~req.inet6 /\ req.service = "numeric"

\* The two are abreast: the encoder caps ndots, and the context is the reference's alone.
Abreast == Plain /\ cfg.ndots <= MaxNDots /\ ~ctx /\ apart = {}

\* A candidate that the reference has dropped as a duplicate.
ShimRepeats == ShimCandidate \in Range(SubSeq(ShimCandidates, 1, shim.k - 1))

ShimReads(udp, tcp) ==
  LET reply == k3sm_query_a(udp, tcp)
  IN  /\ ShimAnswered(reply)
      /\ apart' = apart \cup (IF reply # queryA(udp, tcp) THEN {"misread"} ELSE {})
                        \cup (IF reply # "miss" /\ ShimRepeats THEN {"repeat"} ELSE {})

\* A question to a server. Abreast, both engines ask it and get the same reply.
ExchangeBoth ==
  /\ Abreast /\ GoAsks /\ ShimAsks /\ ~ShimRepeats /\ GoQuestion = ShimQuestion
  /\ \E udp \in Messages(ShimCandidate) : \E tcp \in Refetched(ShimCandidate, udp) :
       ShimReads(udp, tcp) /\ Answered(queryA(udp, tcp))
  /\ UNCHANGED <<cfg, name, ctx, req, zone>>

ExchangeShim ==
  /\ ShimAsks /\ (ShimRepeats \/ ~Abreast)
  /\ \E udp \in Messages(ShimCandidate) : \E tcp \in Refetched(ShimCandidate, udp) : ShimReads(udp, tcp)
  /\ UNCHANGED <<cfg, name, ctx, req, zone, go>>

ExchangeGo ==
  /\ GoAsks /\ ~Abreast
  /\ \E udp \in Messages(Candidate) : \E tcp \in Refetched(Candidate, udp) : Answered(queryA(udp, tcp))
  /\ UNCHANGED <<cfg, name, ctx, req, zone, shim, apart>>

\* The caller's context ends. A query in flight fails with a deadline, and is not
\* interrupted by a cancel.
ContextEnds ==
  /\ ~ctx /\ go.pc \notin {"off", "done"}
  /\ ctx' = TRUE
  /\ (GoAsks /\ Answered("transport")) \/ UNCHANGED go
  /\ UNCHANGED <<cfg, name, req, zone, shim, apart>>

Reference == (LookupHost \/ NextServer \/ Unencodable) /\ UNCHANGED <<req, zone, shim, apart>>

\* A call begins. The reference is asked only what it can be compared on.
DnsBegin ==
  /\ ctx = FALSE /\ apart = {}
  /\ shim = [Start EXCEPT !.pc = "entry"]
  /\ go = IF Plain /\ Servers # <<>> THEN Start ELSE [Start EXCEPT !.pc = "off"]

DnsNext == Entry \/ ShimWalk \/ ShimServer \/ ShimUnencodable \/ Reference \/ ExchangeBoth \/ ExchangeShim
           \/ ExchangeGo \/ ContextEnds

-----------------------------------------------------------------------------
(* Properties. *)

\* What a verdict of the shim is to the reference.
Corresponds(s, g) ==
  \/ s = "addr" /\ g = "addrs"
  \/ s = "EAI_AGAIN" /\ g = "tempfail"
  \/ s = (IF Exclusive THEN "EAI_NONAME" ELSE "host") /\ g = "notfound"

\* The C walk mirrors the Go one while they read every reply alike, no duplicate has failed
\* and ndots is within its cap: they never ask different questions, neither is left with
\* one when the other is done, and their verdicts correspond.
ShimMirrorsReference ==
  Abreast =>
    /\ GoAsks /\ ShimAsks /\ ~ShimRepeats => GoQuestion = ShimQuestion
    /\ ~(GoAsks /\ shim.pc = "done") /\ ~(ShimAsks /\ ~ShimRepeats /\ go.pc = "done")
    /\ go.pc = "done" /\ shim.pc = "done" =>
         /\ Corresponds(shim.res, go.res)
         /\ go.res = "addrs" => Candidate = ShimCandidate

\* The candidates before the k-th that a server could have been asked for do not exist.
NoneExists(candidates, k) == \A j \in 1..(k - 1) : Encodable(candidates[j]) => candidates[j] \notin zone

\* An address of the shim is that of a candidate that exists, for a cluster candidate the
\* first of them: a failure never lets a later search domain answer for it. It says "no
\* such name" without the host's resolver only when no candidate exists.
ShimAnswerRight ==
  /\ shim.res = "addr" => ShimCandidate \in zone /\ (FailClosed => NoneExists(ShimCandidates, shim.k))
  /\ shim.res = "EAI_NONAME" /\ ~req.inet6 => NoneExists(ShimCandidates, shim.k)

\* The same of the reference (LookupHost), whatever reply is cut short, the context ended or
\* not; and of the shim (k3sm_getaddrinfo) until it reads a reply otherwise than the
\* reference does.
AnswerRight ==
  /\ go.res = "addrs" => Candidate \in zone /\ (isClusterCandidate(Candidate) => NoneExists(Candidates, go.k))
  /\ go.res = "notfound" /\ Exclusive => NoneExists(Candidates, go.k)
  /\ "misread" \notin apart => ShimAnswerRight

=============================================================================
