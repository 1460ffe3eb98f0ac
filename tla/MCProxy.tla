------------------------------ MODULE MCProxy ------------------------------
(***************************************************************************)
(* The per-port workers, with one port, and the routing table, with one    *)
(* port, two clients and two connections at a time. The workers' installs  *)
(* are the table's writers; here each is checked on its own.               *)
(***************************************************************************)
EXTENDS MCProxyWorker, RoutingTable

CONSTANTS k3, x1, x2, b1, b2, r1, r2

VARIABLE part

OneLocal == (b1 :> "podCIDR" @@ b2 :> "cluster")
SmallCaps == {[port |-> 1, total |-> 2], [port |-> 2, total |-> 1]}
ProxySymmetry ==
  WorkerSymmetry \cup Permutations(Conns) \cup Permutations(Clients)

ProxyInit ==
  /\ Init /\ RoutingInit
  /\ \/ part = "table"
     \/ part = "workers" /\ caps = CHOOSE c \in Caps : TRUE
ProxyNext ==
  /\ part' = part
  /\ \/ part = "workers" /\ Next /\ UNCHANGED routingVars
     \/ part = "table" /\ RoutingNext /\ UNCHANGED vars
ProxySpec == ProxyInit /\ [][ProxyNext]_<<vars, routingVars, part>>
=============================================================================
