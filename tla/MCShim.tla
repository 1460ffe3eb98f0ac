------------------------------- MODULE MCShim -------------------------------
(* The three interposers of the shim: a lookup, or a few sockets of two pods and the node, or the *)
(* environment alone, whatever lists it is made from. *)
EXTENDS MCDns, SocketShim, TLC

VARIABLE part

CONSTANTS p1, p2, node, s1, s2

MCInterconnectRange == [addr |-> 8, bits |-> 2, v4 |-> TRUE]
MCPodIP == (p1 :> 1) @@ (p2 :> 2)

V4(a, b) == [addr |-> a, bits |-> b, v4 |-> TRUE]
Cidrs == {V4(0, 0), V4(1, 2), V4(2, 2), V4(9, 3), V4(8, 2), V4(8, 1), V4(11, 4), [addr |-> 8, bits |-> 3, v4 |-> FALSE]}
Lists(n) == UNION {[1..k -> Cidrs] : k \in 0..n}

NoSockets ==
  /\ sock = [s \in Sockets |-> Closed] /\ timewait = {} /\ refused = {}
  /\ k3sm_bind_cfg = k3sm_bind_cfg_init
  /\ ifaces = {1, 2, 10}

SocketInit ==
  /\ cidrs = <<V4(1, 2), V4(9, 3)>>
  /\ icip = 10 /\ iccidrs = <<V4(8, 2)>>
  /\ owner \in {(s1 :> p1) @@ (s2 :> o) : o \in {p1, p2, node}}
  /\ NoSockets

SocketOwners == owner = (s1 :> p1) @@ (s2 :> p2)

EnvInit ==
  /\ \/ cidrs \in Lists(3) /\ icip = 10 /\ iccidrs = <<>>
     \/ cidrs = <<>> /\ icip \in {0, 8, 10, 11} /\ iccidrs \in Lists(3)
  /\ SocketOwners /\ NoSockets

NoLookup ==
  /\ cfg = PodDNSConfig("ns1", Vip) /\ name = [labels |-> <<"db">>, dot |-> FALSE] /\ req = PlainRequest
  /\ ctx = FALSE /\ zone = {} /\ shim = Start /\ go = Start /\ apart = {}

ShimInit ==
  \/ part = "dns" /\ DnsInit /\ cidrs = <<>> /\ icip = 10 /\ iccidrs = <<>> /\ SocketOwners /\ NoSockets
  \/ part = "sockets" /\ SocketInit /\ NoLookup
  \/ part = "env" /\ EnvInit /\ NoLookup

ShimNext ==
  \/ part = "dns" /\ DnsNext /\ DnsNextScope /\ UNCHANGED <<part, socketVars>>
  \/ part = "sockets" /\ SocketNext /\ PodIP[p2] \in ifaces' /\ Cardinality(ifaces') > 1 /\ UNCHANGED <<part, dnsVars>>

ShimSpec == ShimInit /\ [][ShimNext]_<<part, dnsVars, socketVars>>
=============================================================================
