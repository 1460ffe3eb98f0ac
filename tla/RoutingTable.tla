---------------------------- MODULE RoutingTable ----------------------------
(***************************************************************************)
(* The Service proxy's routing table (pkg/proxy/routing.go) and its        *)
(* ClientIP session affinity (pkg/proxy/affinity.go).                      *)
(*                                                                         *)
(* The routing state is an immutable snapshot behind an atomic pointer:    *)
(* a connection loads it without a lock, a writer derives the next one     *)
(* under mu and stores it. Bindings live outside the snapshot under affMu, *)
(* which a writer takes only after its store, to purge. A connection's     *)
(* steps are split at every load, compare-and-swap and lock.               *)
(*                                                                         *)
(* A portState is a record whose id stands for its pointer. The order of   *)
(* a pool and the round-robin cursor over it are abstracted to any member. *)
(***************************************************************************)
EXTENDS Naturals, Sequences, FiniteSets

CONSTANTS
  TableKeys,     \* the Service ports (PortKey)
  Clients,       \* the client addresses
  Backends,      \* the endpoints that may be Ready
  Place,         \* where each one's address lies: in the node's podCIDR, the node's own
                 \* address, elsewhere in the cluster's pod aggregate, or outside it
  PodCIDRValid,  \* does the table know its node's podCIDR?
  Conns,         \* the connections being accepted
  Caps,          \* the pairs of maxAffinityPerPort and maxAffinityTotal to explore
  Timeout,       \* affinityTimeout, in ticks
  NoState, NoBind, NoTableKey, NoConn,
  MaxWrites, MaxNow       \* bound the writers' calls and the clock

Policies == {"Cluster", "Local"}
Modes == {"None", "ClientIP"}

\* portState, and affinityBinding: the backend and the time of the last hit.
PortState == [id : Nat, all : SUBSET Backends, policy : Policies, mode : Modes]
AffinityBinding == [be : Backends, seen : Nat]

ASSUME RoutingAssumption ==
  /\ Place \in [Backends -> {"podCIDR", "nodeAddr", "cluster", "outside"}]
  /\ PodCIDRValid \in BOOLEAN
  /\ Caps \subseteq [port : Nat \ {0}, total : Nat \ {0}]
  /\ Timeout \in Nat \ {0}
  /\ IsFiniteSet(TableKeys) /\ IsFiniteSet(Clients)
  /\ NoTableKey \notin TableKeys /\ NoConn \notin Conns
  /\ NoState \notin PortState /\ NoBind \notin AffinityBinding
  /\ MaxWrites \in Nat /\ MaxNow \in Nat \ {0}

VARIABLES
  snap,      \* the snapshot: the portState of each key
  writes,    \* the calls of the writers so far
  purging,   \* the key whose purge the writer that holds mu still owes
  binds,     \* RoutingTable.affinity: the binding of each key and client
  count,     \* affinityCount
  caps,      \* maxAffinityPerPort and maxAffinityTotal of this table; never written
  affMu,     \* the connection that holds affMu, if any
  conn,      \* each connection's program counter and locals
  now

writeVars == <<snap, writes, purging>>
affVars == <<binds, count, affMu, caps>>
routingVars == <<writeVars, affVars, conn, now>>

NoConnection == [pc |-> "idle"]
Classify(b) ==
  CASE ~PodCIDRValid -> "unknown"
    [] PodCIDRValid /\ Place[b] = "podCIDR" -> "local"
    [] PodCIDRValid /\ Place[b] = "nodeAddr" -> "node"
    [] PodCIDRValid /\ Place[b] = "outside" -> "node-routed"
    [] OTHER -> "remote"

NodeLocal(b) == Classify(b) \in {"local", "node"}

\* admitEndpoint: what is not Ready, or not an address, never enters the table.
Admit(eps) == {b \in Backends : eps[b] = "ready"}

\* The node-local subset of a portState.
Locals(s) == {b \in s.all : NodeLocal(b)}

\* activePool: the pool of the scope. Empty stands for its ErrNoLocalBackends.
ActivePool(s, external) ==
  IF ~external /\ s.policy = "Local" /\ PodCIDRValid THEN Locals(s) ELSE s.all

\* scoped: empty stands for both errors, the drops of the connection.
Scoped(s, external) == IF s = NoState THEN {} ELSE ActivePool(s, external)

RoutingInit ==
  /\ snap = [k \in TableKeys |-> NoState]
  /\ writes = 0
  /\ purging = NoTableKey
  /\ binds = [k \in TableKeys |-> [c \in Clients |-> NoBind]]
  /\ count = 0
  /\ affMu = NoConn
  /\ caps \in Caps
  /\ conn = [c \in Conns |-> NoConnection]
  /\ now = 1

-----------------------------------------------------------------------------
(* The writers: installEndpoints, Delete. mu is held until the purge is done. *)

Bound(k) == {c \in Clients : binds[k][c] # NoBind}
AllBound == {p \in TableKeys \X Clients : binds[p[1]][p[2]] # NoBind}

\* The store is seen by the connections that are in a pick.
Store(k, s) ==
  /\ snap' = [snap EXCEPT ![k] = s]
  /\ conn' = [c \in Conns |->
       IF conn[c].pc \in {"sticky", "validate", "record"} /\ conn[c].key = k
       THEN [conn[c] EXCEPT !.seen = @ \cup Scoped(s, conn[c].external)]
       ELSE conn[c]]

\* Mutant of InstallEndpoints: the purge is skipped when affinity is turned off.
InstallEndpointsNoPurge(k, eps, policy, mode) ==
  LET ready == Admit(eps)
      s == [id |-> writes + 1, all |-> ready, policy |-> policy, mode |-> mode]
  IN  /\ purging = NoTableKey /\ writes < MaxWrites
      /\ writes' = writes + 1
      /\ Store(k, IF ready = {} THEN NoState ELSE s)
      /\ purging' = IF ready = {} THEN k ELSE NoTableKey
      /\ UNCHANGED <<affVars, now>>

\* installEndpoints, up to the store.
InstallEndpoints(k, eps, policy, mode) ==
  LET ready == Admit(eps)
      s == [id |-> writes + 1, all |-> ready, policy |-> policy, mode |-> mode]
  IN  /\ purging = NoTableKey /\ writes < MaxWrites
      /\ writes' = writes + 1
      /\ Store(k, IF ready = {} THEN NoState ELSE s)
      /\ purging' = IF ready = {} \/ mode # "ClientIP" THEN k ELSE NoTableKey
      /\ UNCHANGED <<affVars, now>>

\* Delete, up to the store.
Delete(k) ==
  /\ purging = NoTableKey /\ writes < MaxWrites
  /\ writes' = writes + 1
  /\ Store(k, NoState)
  /\ purging' = k
  /\ UNCHANGED <<affVars, now>>

\* purgeAffinity, and the unlock of mu.
Purge ==
  /\ purging # NoTableKey /\ affMu = NoConn
  /\ binds' = [binds EXCEPT ![purging] = [c \in Clients |-> NoBind]]
  /\ count' = count - Cardinality(Bound(purging))
  /\ purging' = NoTableKey
  /\ UNCHANGED <<snap, writes, affMu, caps, conn, now>>

-----------------------------------------------------------------------------
(* A connection: PickSticky on a ClusterIP, PickStickyCluster on a NodePort.  *)

Return(c) == conn' = [conn EXCEPT ![c] = NoConnection]
\* The end of a pick: the backend to dial, and what was eligible while it ran.
Deliver(c, be, seen) == conn' = [conn EXCEPT ![c] = [pc |-> "picked", be |-> be, seen |-> seen]]

\* No backend: the connection is closed. The throttled Warn of warnDrop is left out.
Drop(c) == Return(c)

\* The load without a lock: it decides whether to take affMu.
Pick(c, k, client, external) ==
  LET s == snap[k]
      pool == Scoped(s, external)
  IN  /\ conn[c] = NoConnection
      /\ \/ pool = {} /\ Drop(c)
         \/ /\ pool # {} /\ s.mode # "ClientIP"
            /\ \E be \in pool : Deliver(c, be, pool)
         \/ /\ pool # {} /\ s.mode = "ClientIP"
            /\ conn' = [conn EXCEPT ![c] = [pc |-> "sticky", key |-> k, client |-> client,
                         external |-> external, seen |-> pool, st |-> NoState, be |-> NoState]]
      /\ UNCHANGED <<writeVars, affVars, now>>

Fresh(b) == now - b.seen < Timeout

\* Mutant of Hit: a binding within its timeout is reused whatever the pool.
HitAnyBackend(k, client, pool) ==
  binds[k][client] # NoBind /\ Fresh(binds[k][client])

Hit(k, client, pool) ==
  /\ binds[k][client] # NoBind
  /\ binds[k][client].be \in pool
  /\ Fresh(binds[k][client])

\* The locked section up to the last load: the stale binding of the client is dropped,
\* one binding of a full port is evicted, and a full table records nothing.
StickyMiss(c, k, s, pool) ==
  LET client == conn[c].client
      kept == Bound(k) \ {client}
  IN  \E victims \in SUBSET kept :
        /\ Cardinality(victims) = (IF Cardinality(kept) >= caps.port THEN 1 ELSE 0)
        /\ binds' = [binds EXCEPT ![k] = [x \in Clients |->
                        IF x \in victims \cup {client} THEN NoBind ELSE @[x]]]
        /\ count' = count - Cardinality(Bound(k)) + Cardinality(kept \ victims)
        /\ \E be \in pool :
             IF count' >= caps.total
             THEN Deliver(c, be, conn[c].seen) /\ UNCHANGED affMu
             ELSE /\ conn' = [conn EXCEPT ![c] = [@ EXCEPT !.pc = "validate", !.be = be, !.st = s]]
                  /\ affMu' = c

\* The lock, the second load and what follows it under affMu.
Sticky(c) ==
  LET k == conn[c].key
      s == snap[k]
      pool == Scoped(s, conn[c].external)
  IN  /\ conn[c].pc = "sticky" /\ affMu = NoConn
      /\ \/ pool = {} /\ Drop(c) /\ UNCHANGED affVars
         \/ /\ pool # {} /\ s.mode # "ClientIP"
            /\ \E be \in pool : Deliver(c, be, conn[c].seen)
            /\ UNCHANGED affVars
         \/ /\ pool # {} /\ s.mode = "ClientIP" /\ Hit(k, conn[c].client, pool)
            /\ Deliver(c, binds[k][conn[c].client].be, conn[c].seen)
            /\ binds' = [binds EXCEPT ![k][conn[c].client].seen = now]
            /\ UNCHANGED <<count, affMu, caps>>
         \/ /\ pool # {} /\ s.mode = "ClientIP" /\ ~Hit(k, conn[c].client, pool)
            /\ StickyMiss(c, k, s, pool) /\ UNCHANGED caps
      /\ UNCHANGED <<writeVars, now>>

\* The last load: only the portState the pick came from may be recorded against.
Validate(c) ==
  /\ conn[c].pc = "validate"
  /\ IF snap[conn[c].key] = conn[c].st
     THEN conn' = [conn EXCEPT ![c].pc = "record"] /\ UNCHANGED affMu
     ELSE Deliver(c, conn[c].be, conn[c].seen) /\ affMu' = NoConn
  /\ UNCHANGED <<writeVars, binds, count, caps, now>>

Record(c) ==
  LET k == conn[c].key IN
  /\ conn[c].pc = "record"
  /\ binds' = [binds EXCEPT ![k][conn[c].client] = [be |-> conn[c].be, seen |-> now]]
  /\ count' = count + 1
  /\ affMu' = NoConn
  /\ Deliver(c, conn[c].be, conn[c].seen)
  /\ UNCHANGED <<writeVars, caps, now>>

\* The dial; the connection is done with the table.
Dial(c) ==
  /\ conn[c].pc = "picked" /\ Return(c)
  /\ UNCHANGED <<writeVars, affVars, now>>

\* SweepExpired: it only looks at affinity, so one step under affMu.
SweepExpired ==
  LET gone(k, x) == \/ snap[k] = NoState
                    \/ ~Fresh(binds[k][x])
  IN  /\ affMu = NoConn
      /\ binds' = [k \in TableKeys |-> [x \in Clients |-> IF <<k, x>> \in AllBound /\ gone(k, x) THEN NoBind ELSE binds[k][x]]]
      /\ count' = count - Cardinality({p \in AllBound : gone(p[1], p[2])})
      /\ UNCHANGED <<writeVars, affMu, caps, conn, now>>

Tick ==
  /\ now < MaxNow /\ now' = now + 1
  /\ UNCHANGED <<writeVars, affVars, conn>>

Write(k) ==
  \/ Delete(k)
  \/ \E eps \in [Backends -> {"absent", "ready", "unready"}], p \in Policies, m \in Modes :
       InstallEndpoints(k, eps, p, m)

Step(c) ==
  \/ \E k \in TableKeys, x \in Clients, e \in BOOLEAN : Pick(c, k, x, e)
  \/ Sticky(c) \/ Validate(c) \/ Record(c) \/ Dial(c)

RoutingNext ==
  \/ \E k \in TableKeys : Write(k)
  \/ Purge \/ SweepExpired \/ Tick
  \/ \E c \in Conns : Step(c)


-----------------------------------------------------------------------------
(* Properties. *)

\* The bindings follow the snapshot and the counter follows the bindings. Once the writer
\* that turned affinity off, drained or deleted a port is done, the port has no binding
\* left and no pick that was under way adds one (affinity.go: a binding recorded against
\* the older generation "would resurrect exactly what that purge removed"). affinityCount
\* is at all times the number of bindings, within its caps, whatever drops, evicts or
\* purges one (routing.go: "or it would leak upward until the ceiling wedged every Service
\* on the node to round-robin").
BindingsAccounted ==
  /\ \A k \in TableKeys :
       purging # k /\ (IF snap[k] = NoState THEN TRUE ELSE snap[k].mode # "ClientIP")
         => Bound(k) = {}
  /\ count = Cardinality(AllBound)
  /\ count <= caps.total
  /\ \A k \in TableKeys : Cardinality(Bound(k)) <= caps.port

\* A connection is steered only to a backend that was eligible in its scope at some
\* moment of its pick: a binding never hands out what had left the Ready set, or the
\* node-local subset, before the connection came (affinity.go: it is "re-picked, never
\* reused").
PickedWasEligible ==
  \A c \in Conns : conn[c].pc = "picked" => conn[c].be \in conn[c].seen

=============================================================================
