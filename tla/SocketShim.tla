----------------------------- MODULE SocketShim -----------------------------
(***************************************************************************)
(* The bind and connect interposers (shim/getaddrinfo_shim.c) and the      *)
(* encoders of their environment (pkg/podnet/env.go), over a kernel with   *)
(* one port space for every pod of the node. An address is a number of     *)
(* Width bits, 0 the wildcard.                                             *)
(***************************************************************************)
EXTENDS Integers, SeqFolds

CONSTANTS
  Width,
  InterconnectRange,   \* a prefix, as [addr, bits]
  MaxClusterCIDRs,
  MinRewritablePort,
  Ports,               \* 0 asks for an ephemeral port
  Pods, Node,          \* Node's sockets are not interposed
  PodIP, EgressIP,     \* of each pod, and the address an external dial gets
  Dests,               \* what is dialled
  Explicit,            \* the specific addresses applications bind
  Sockets

ASSUME SocketAssumption ==
  /\ MinRewritablePort \in Nat \ {0} /\ Ports \subseteq Nat /\ Explicit \subseteq Nat
  /\ PodIP \in [Pods -> Nat \ {0}] /\ EgressIP \in Nat /\ Dests \subseteq Nat
  /\ Width \in Nat /\ InterconnectRange.addr \in Nat /\ InterconnectRange.bits \in 1..Width
  /\ MaxClusterCIDRs \in Nat

\* Of the powers of two, this much: the prover has no arithmetic of exponents.
ASSUME PowersOfTwo ==
  \A j \in 0..Width : 2^j \in Nat \ {0} /\ \A k \in 0..j : 2^j = 2^(j - k) * 2^k

VARIABLES
  cidrs, icip, iccidrs,   \* what the encoders are given
  k3sm_bind_cfg,          \* what the interposers made of them, once per process
  owner,                  \* of each socket
  ifaces,                 \* the addresses the node has
  sock,                   \* [only6, reuse, fam, addr, port, dialled]
  timewait,               \* what connections just closed still hold
  refused                 \* history: the bind just refused with EADDRINUSE, unless setsockopt had failed

socketVars == <<cidrs, icip, iccidrs, k3sm_bind_cfg, owner, ifaces, sock, timewait, refused>>

-----------------------------------------------------------------------------
(* Prefixes and the environment. A prefix says whether it is a valid IPv4 one. *)

Masked(p) == [p EXCEPT !.addr = (@ \div 2^(Width - p.bits)) * 2^(Width - p.bits)]
lastAddr(p) == Masked(p).addr + 2^(Width - p.bits) - 1
PrefixContains(p, a) == Masked(p).addr <= a /\ a <= lastAddr(p)

\* Of the prefixes an encoder takes, the IPv4 ones, masked. It drops duplicates and keeps the
\* order, which decides nothing in the shim: what is left of a list is a set.
Usable(ps) == {Masked(p) : p \in {q \in ps : q.v4}}

\* Mutant of BindDisciplineEnvWithCIDRs: a /0 is passed on.
BindDisciplineEnvAny(ps) ==
  LET out == Usable(Range(ps))
  IN  IF Cardinality(out) > MaxClusterCIDRs THEN {} ELSE out

\* K3SM_CLUSTER_CIDRS; empty when it is left out.
BindDisciplineEnvWithCIDRs(ps) ==
  LET out == Usable({p \in Range(ps) : p.bits >= 1})
  IN  IF Cardinality(out) > MaxClusterCIDRs THEN {} ELSE out

\* K3SM_INTERCONNECT_IP and K3SM_INTERCONNECT_CIDRS; no list when nothing is injected.
InterconnectEnv(ip, ps) ==
  LET out == Usable({p \in Range(ps) : /\ p.bits >= InterconnectRange.bits
                                      /\ PrefixContains(InterconnectRange, Masked(p).addr)})
      around == {p \in out : PrefixContains(p, ip)}
      edge == \E p \in around : p.bits <= Width - 2 /\ ip \in {p.addr, lastAddr(p)}
  IN  [ip |-> ip, cidrs |-> IF ip = 0 \/ Cardinality(out) > MaxClusterCIDRs \/ around = {} \/ edge THEN {} ELSE out]

\* One bad entry, or one too many, and the list is refused.
k3sm_parse_cidrs(ps) ==
  IF (\E p \in ps : p.bits \notin 1..Width) \/ Cardinality(ps) > MaxClusterCIDRs THEN {}
  ELSE {Masked(p) : p \in ps}

k3sm_addr_in(tab, a) == \E p \in tab : PrefixContains(p, a)

\* The interconnect scope; empty when it is off.
k3sm_interconnect_cfg_init(env) ==
  LET tab == k3sm_parse_cidrs(env.cidrs)
      bad == \/ \E p \in tab : p.bits < InterconnectRange.bits \/ ~PrefixContains(InterconnectRange, p.addr)
             \/ ~k3sm_addr_in(tab, env.ip)
             \/ \E p \in tab : PrefixContains(p, env.ip) /\ p.bits < Width - 1 /\ env.ip \in {p.addr, lastAddr(p)}
  IN  IF bad THEN {} ELSE tab

\* For a pod with an address.
k3sm_bind_cfg_init ==
  [cluster |-> k3sm_parse_cidrs(BindDisciplineEnvWithCIDRs(cidrs)),
   interconnect |-> k3sm_interconnect_cfg_init(InterconnectEnv(icip, iccidrs))]

-----------------------------------------------------------------------------
(* The kernel (external). *)

Closed == [only6 |-> FALSE, reuse |-> FALSE, fam |-> "none", addr |-> 0, port |-> 0, dialled |-> FALSE]
Free(s) == sock[s].fam = "none"
Unbound(s) == sock[s].addr = 0 /\ sock[s].port = 0

\* Two holders of one port conflict when their addresses are equal, unless one is in TIME_WAIT and
\* the other has SO_REUSEADDR, and when one is the wildcard, unless the specific one has it.
Conflict(n, h, waiting) ==
  /\ n.port = h.port /\ n.only6 = h.only6
  /\ IF n.addr = h.addr THEN ~(waiting /\ n.reuse)
     ELSE \/ n.addr = 0 /\ ~waiting /\ ~h.reuse
          \/ h.addr = 0 /\ ~n.reuse

\* What a bind of socket record n says. A specific address below the floor needs root.
BindErrno(n) ==
  IF n.addr # 0 /\ n.addr \notin ifaces THEN "EADDRNOTAVAIL"
  ELSE IF n.addr # 0 /\ n.port \in 1..(MinRewritablePort - 1) THEN "EACCES"
  ELSE IF n.port # 0 /\ (\/ \E t \in Sockets : sock[t].port # 0 /\ Conflict(n, sock[t], FALSE)
                         \/ \E h \in timewait : Conflict(n, h, TRUE)) THEN "EADDRINUSE"
  ELSE "ok"

Ephemeral == -1

\* A successful bind: an ephemeral port is assigned at once and never conflicts.
BindTo(s, n) == sock' = [sock EXCEPT ![s] = [n EXCEPT !.port = IF @ = 0 THEN Ephemeral ELSE @]]

\* The source an unpinned dial gets: for an address of the node, that address itself.
SelectSource(dst) == IF dst \in ifaces THEN dst ELSE EgressIP

Socket(s, fam, only6) ==
  /\ Free(s) /\ (only6 => fam = "inet6")
  /\ sock' = [sock EXCEPT ![s] = [Closed EXCEPT !.fam = fam, !.only6 = only6]]
  /\ refused' = {}
  /\ UNCHANGED <<cidrs, icip, iccidrs, k3sm_bind_cfg, owner, ifaces, timewait>>

Held(h) == [addr |-> h.addr, port |-> h.port, only6 |-> h.only6, reuse |-> FALSE]

\* Close leaves the address of a listener that served a connection in TIME_WAIT.
CloseSocket(s) ==
  /\ ~Free(s)
  /\ sock' = [sock EXCEPT ![s] = Closed]
  /\ timewait' \in {timewait, IF sock[s].port > 0 /\ ~sock[s].dialled THEN {Held(sock[s])} ELSE timewait}
  /\ refused' = {}
  /\ UNCHANGED <<cidrs, icip, iccidrs, k3sm_bind_cfg, owner, ifaces>>

\* An alias comes or goes (pkg/podnet, the interconnect's bridge).
AliasChange(a) ==
  /\ ifaces' = IF a \in ifaces THEN ifaces \ {a} ELSE ifaces \cup {a}
  /\ refused' = {}
  /\ UNCHANGED <<cidrs, icip, iccidrs, k3sm_bind_cfg, owner, sock, timewait>>

\* The proxy's own listener: every address, SO_REUSEADDR set.
NodeListen(s, port) ==
  /\ ~Free(s) /\ owner[s] = Node /\ sock[s].fam = "inet" /\ Unbound(s)
  /\ LET n == [sock[s] EXCEPT !.reuse = TRUE, !.port = port]
     IN  BindErrno(n) = "ok" /\ BindTo(s, n)
  /\ refused' = {}
  /\ UNCHANGED <<cidrs, icip, iccidrs, k3sm_bind_cfg, owner, ifaces, timewait>>

-----------------------------------------------------------------------------
(* The interposers. *)

\* What the kernel is asked to bind. unread: getsockopt fails.
Rewritten(s, addr, port, unread) ==
  addr = 0 /\ port >= MinRewritablePort /\ ~(sock[s].fam = "inet6" /\ (unread \/ sock[s].only6))

\* Mutant of k3sm_bind: SO_REUSEADDR is left as the application has it.
k3sm_bind_plain(s, addr, port, unread, unset) ==
  LET asked == [sock[s] EXCEPT !.addr = addr, !.port = port]
      n == IF Rewritten(s, addr, port, unread) THEN [asked EXCEPT !.addr = PodIP[owner[s]]] ELSE asked
      errno == BindErrno(n)
  IN  /\ IF errno = "ok" THEN BindTo(s, n) ELSE UNCHANGED sock
      /\ refused' = IF errno = "EADDRINUSE" /\ ~unset THEN {<<s, addr, port, unread>>} ELSE {}

\* A wildcard bind at or above the floor goes to the pod's address, with SO_REUSEADDR
\* set first and kept whatever the bind says; any other is the caller's. unset: setsockopt
\* fails, which stops nothing.
k3sm_bind(s, addr, port, unread, unset) ==
  LET asked == [sock[s] EXCEPT !.addr = addr, !.port = port]
      n == IF Rewritten(s, addr, port, unread)
             THEN [asked EXCEPT !.addr = PodIP[owner[s]], !.reuse = @ \/ ~unset] ELSE asked
      errno == BindErrno(n)
  IN  /\ IF errno = "ok" THEN BindTo(s, n) ELSE sock' = [sock EXCEPT ![s].reuse = n.reuse]
      /\ refused' = IF errno = "EADDRINUSE" /\ ~unset THEN {<<s, addr, port, unread>>} ELSE {}

Bind(s, addr, port, unread, unset) ==
  /\ ~Free(s) /\ owner[s] \in Pods /\ Unbound(s) /\ (unread => sock[s].fam = "inet6")
  /\ (sock[s].only6 => addr = 0) /\ (unset => Rewritten(s, addr, port, unread))
  /\ k3sm_bind(s, addr, port, unread, unset)
  /\ UNCHANGED <<cidrs, icip, iccidrs, k3sm_bind_cfg, owner, ifaces, timewait>>

\* Mutant of Pin: the cluster's scope is tested first.
PinClusterFirst(s, dst) ==
  IF k3sm_addr_in(k3sm_bind_cfg.cluster, dst) THEN PodIP[owner[s]]
  ELSE IF k3sm_addr_in(k3sm_bind_cfg.interconnect, dst) THEN icip ELSE 0

\* The source a dial is given, or 0.
Pin(s, dst) ==
  IF k3sm_addr_in(k3sm_bind_cfg.interconnect, dst) THEN icip
  ELSE IF k3sm_addr_in(k3sm_bind_cfg.cluster, dst) THEN PodIP[owner[s]] ELSE 0

\* Only an unbound IPv4 socket is pinned; when that fails (the alias is gone, or exhausted)
\* the dial goes out unpinned. unread: getsockname fails.
k3sm_connect(s, dst, unread, exhausted) ==
  LET pin == IF sock[s].fam = "inet" /\ ~unread /\ Unbound(s) THEN Pin(s, dst) ELSE 0
      pinned == pin # 0 /\ ~exhausted /\ BindErrno([sock[s] EXCEPT !.addr = pin]) = "ok"
      src == IF pinned THEN pin ELSE IF sock[s].addr # 0 THEN sock[s].addr ELSE SelectSource(dst)
  IN  /\ sock' = [sock EXCEPT ![s].addr = src, ![s].dialled = TRUE, ![s].port = IF @ = 0 THEN Ephemeral ELSE @]
      /\ refused' = {}

Connect(s, dst, unread, exhausted) ==
  /\ ~Free(s) /\ owner[s] \in Pods /\ ~sock[s].dialled /\ ~sock[s].only6 /\ (exhausted => ~unread)
  /\ k3sm_connect(s, dst, unread, exhausted)
  /\ UNCHANGED <<cidrs, icip, iccidrs, k3sm_bind_cfg, owner, ifaces, timewait>>

SocketNext ==
  \E s \in Sockets :
    \/ \E f \in {"inet", "inet6"}, only6 \in BOOLEAN : Socket(s, f, only6)
    \/ CloseSocket(s)
    \/ \E a \in {PodIP[p] : p \in Pods} \cup {icip} : AliasChange(a)
    \/ \E port \in Ports \ {0} : NodeListen(s, port)
    \/ \E addr \in {0} \cup Explicit, port \in Ports, unread, unset \in BOOLEAN : Bind(s, addr, port, unread, unset)
    \/ \E dst \in Dests, unread, exhausted \in BOOLEAN : Connect(s, dst, unread, exhausted)

-----------------------------------------------------------------------------
(* Properties. *)

\* A pod that listens on every address, at a port the discipline covers, is refused the port only by
\* a socket that holds this very address (k3sm_bind, when SO_REUSEADDR could be set): never by another pod's listener, by the
\* node's, or by its own predecessor's closed connections.
PodsBindFreely ==
  \A r \in refused :
    Rewritten(r[1], r[2], r[3], r[4]) =>
      \E t \in Sockets : sock[t].addr = PodIP[owner[r[1]]] /\ sock[t].port = r[3]

\* What the pod's environment declares of the cluster; nothing when it is too many prefixes.
InCluster(dst) ==
  /\ ~(Cardinality(Usable({p \in Range(cidrs) : p.bits >= 1})) > MaxClusterCIDRs)
  /\ \E p \in Range(cidrs) : p.v4 /\ p.bits > 0 /\ PrefixContains(p, dst)

\* A socket's own source is kept, and no dial leaves from an address the node has lost.
SourceUsable(s, dst) ==
  (\E unread, exhausted \in BOOLEAN : Connect(s, dst, unread, exhausted)) =>
    IF sock[s].addr # 0 THEN sock'[s].addr = sock[s].addr ELSE sock'[s].addr \in ifaces \cup {EgressIP}

DialCarriesIdentity(s, dst) ==
  Connect(s, dst, FALSE, FALSE) /\ Unbound(s) /\ sock[s].fam = "inet" =>
    LET own == PodIP[owner[s]]
        onCable == k3sm_addr_in(k3sm_bind_cfg.interconnect, dst)
    IN  /\ onCable /\ icip \in ifaces => sock'[s].addr = icip
        /\ ~onCable /\ InCluster(dst) /\ own \in ifaces => sock'[s].addr = own
        /\ ~onCable /\ ~InCluster(dst) => sock'[s].addr = SelectSource(dst)

\* The first dial (k3sm_connect) of a socket its pod did not bind carries the pod's identity
\* where the destination knows it: its interconnect address on the interconnect, its own
\* address in the cluster (unless it was declared as too many prefixes), whenever the node
\* has that address; and neither anywhere else. A socket that was bound keeps its source,
\* and where the alias to pin is gone the dial leaves from an address the node does have.
DialsCarryIdentity ==
  [][\A s \in Sockets, dst \in Dests : SourceUsable(s, dst) /\ DialCarriesIdentity(s, dst)]_socketVars

\* What an encoder puts in the environment the shim does not refuse: the scopes it works
\* with are exactly the usable prefixes the encoder was given, and no scope reaches every
\* destination or, on the interconnect, one off the link.
EncodersAgree ==
  /\ k3sm_bind_cfg.cluster = BindDisciplineEnvWithCIDRs(cidrs)
  /\ k3sm_bind_cfg.interconnect = InterconnectEnv(icip, iccidrs).cidrs
  /\ \A p \in k3sm_bind_cfg.interconnect : PrefixContains(InterconnectRange, p.addr) /\ PrefixContains(InterconnectRange, lastAddr(p))
=============================================================================
