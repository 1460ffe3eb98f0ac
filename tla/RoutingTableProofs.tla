------------------------- MODULE RoutingTableProofs -------------------------
(***************************************************************************)
(* The safety of the routing table, and of the aliases netd holds on lo0   *)
(* and the utun.                                                           *)
(*                                                                         *)
(* The routing table and its bindings, for any number of ports, clients,   *)
(* backends, connections and writes: a pick is of a backend that was       *)
(* eligible while it ran; no binding outlives the affinity it was made     *)
(* under; and affinityCount is the number of bindings, within its caps. A  *)
(* pick that is about to record holds affMu, so that a purge waits for it  *)
(* (Holder); what it will record is new and within the caps (Pending); and *)
(* if a writer has stored since it compared the portState, then that       *)
(* writer's purge is still owed (Recording).                               *)
(*                                                                         *)
(* The aliases, for any set of /24s and VIPs: the inductive invariant adds *)
(* to the checked properties what an operation in progress knows of its    *)
(* address, and that only an existing utun holds aliases.                  *)
(***************************************************************************)
EXTENDS RoutingTable, NetdAlias, FiniteSetTheorems, TLAPS

-----------------------------------------------------------------------------
(* The routing table. *)

InPick == [pc : {"sticky", "validate", "record"}, key : TableKeys, client : Clients,
           external : BOOLEAN, seen : SUBSET Backends, st : PortState \cup {NoState},
           be : Backends \cup {NoState}]
Picked == [pc : {"picked"}, be : Backends, seen : SUBSET Backends]

Rows == [Clients -> AffinityBinding \cup {NoBind}]

RoutingTypeOK ==
  /\ snap \in [TableKeys -> PortState \cup {NoState}]
  /\ writes \in Nat
  /\ purging \in TableKeys \cup {NoTableKey}
  /\ binds \in [TableKeys -> Rows]
  /\ count \in Nat
  /\ caps \in [port : Nat \ {0}, total : Nat \ {0}]
  /\ affMu \in Conns \cup {NoConn}
  /\ conn \in [Conns -> {NoConnection} \cup Picked \cup InPick]
  /\ now \in Nat

\* The connections in a pick, and of these the ones in the locked section.
Picking(c) == conn[c].pc \in {"sticky", "validate", "record"}
Locked(c) == conn[c].pc \in {"validate", "record"}
Sticks(k) == snap[k] # NoState /\ snap[k].mode = "ClientIP"

\* What is eligible now is among what a pick has seen.
Seen ==
  \A c \in Conns :
    /\ Picking(c) => Scoped(snap[conn[c].key], conn[c].external) \subseteq conn[c].seen
    /\ Locked(c) => conn[c].be \in conn[c].seen

Holder == \A c \in Conns : Locked(c) => affMu = c

Pending ==
  \A c \in Conns : Locked(c) =>
    /\ binds[conn[c].key][conn[c].client] = NoBind
    /\ count < caps.total /\ Cardinality(Bound(conn[c].key)) < caps.port
    /\ conn[c].st # NoState /\ conn[c].st.mode = "ClientIP"

Recording ==
  \A c \in Conns : conn[c].pc = "record" => purging = conn[c].key \/ Sticks(conn[c].key)

\* The bindings of a port that has no affinity are about to be purged.
Purged == \A k \in TableKeys : Bound(k) # {} => purging = k \/ Sticks(k)

Counted ==
  /\ count = Cardinality(AllBound) /\ count <= caps.total
  /\ \A k \in TableKeys : Cardinality(Bound(k)) <= caps.port

RoutingInv == RoutingTypeOK /\ Seen /\ PickedWasEligible /\ Holder /\ Pending /\ Recording /\ Purged /\ Counted

RoutingSpec == RoutingInit /\ [][RoutingNext]_routingVars

-----------------------------------------------------------------------------
(* Bindings as sets of pairs. *)

Pairs(b) == {p \in TableKeys \X Clients : b[p[1]][p[2]] # NoBind}
Row(r) == {x \in Clients : r[x] # NoBind}

LEMMA PairsFinite ==
  ASSUME NEW b, NEW r
  PROVE  /\ IsFiniteSet(Pairs(b)) /\ Cardinality(Pairs(b)) \in Nat
         /\ IsFiniteSet(Row(r)) /\ Cardinality(Row(r)) \in Nat
<1>1. IsFiniteSet(TableKeys \X Clients) /\ IsFiniteSet(Clients)
  BY RoutingAssumption, FS_Product, Zenon
<1>2. Pairs(b) \subseteq TableKeys \X Clients /\ Row(r) \subseteq Clients
  BY Zenon DEF Pairs, Row
<1> QED
  BY <1>1, <1>2, FS_Subset, FS_CardinalityType, Zenon

LEMMA Column ==
  ASSUME NEW k, NEW S, IsFiniteSet(S)
  PROVE  IsFiniteSet({k} \X S) /\ Cardinality({k} \X S) = Cardinality(S)
<1>1. IsFiniteSet({k}) /\ Cardinality({k}) = 1
  BY FS_Singleton, Zenon
<1>2. IsFiniteSet({k} \X S) /\ Cardinality({k} \X S) = Cardinality({k}) * Cardinality(S)
  BY <1>1, FS_Product, Zenon
<1>3. Cardinality(S) \in Nat
  BY FS_CardinalityType, Zenon
<1> QED
  BY <1>1, <1>2, <1>3

\* A change of one port's bindings changes the number of all bindings by as much.
LEMMA RowChanged ==
  ASSUME NEW b \in [TableKeys -> Rows], NEW b2 \in [TableKeys -> Rows], NEW k \in TableKeys,
         \A j \in TableKeys : j # k => b2[j] = b[j]
  PROVE  Cardinality(Pairs(b2)) = Cardinality(Pairs(b)) - Cardinality(Row(b[k])) + Cardinality(Row(b2[k]))
<1> DEFINE rest == {p \in Pairs(b) : p[1] # k}
           old == {k} \X Row(b[k])
           new == {k} \X Row(b2[k])
<1>1. Pairs(b) = rest \cup old /\ rest \cap old = {}
  BY Zenon DEF Pairs, Row
<1>2. Pairs(b2) = rest \cup new /\ rest \cap new = {}
  BY Zenon DEF Pairs, Row
<1>3. IsFiniteSet(rest) /\ Cardinality(rest) \in Nat
  <2>1. rest \subseteq Pairs(b)
    BY Zenon
  <2> QED
    BY <2>1, PairsFinite, FS_Subset, FS_CardinalityType, Zenon
<1>4. /\ IsFiniteSet(old) /\ Cardinality(old) = Cardinality(Row(b[k])) /\ Cardinality(old) \in Nat
      /\ IsFiniteSet(new) /\ Cardinality(new) = Cardinality(Row(b2[k])) /\ Cardinality(new) \in Nat
  <2>1. IsFiniteSet(Row(b[k])) /\ IsFiniteSet(Row(b2[k]))
    BY PairsFinite, Zenon
  <2> QED
    BY <2>1, Column, FS_CardinalityType, Zenon
<1>5. Cardinality({}) = 0
  BY FS_EmptySet, Zenon
<1> HIDE DEF rest, old, new
<1>6. Cardinality(rest \cup old) = Cardinality(rest) + Cardinality(old)
  <2>1. Cardinality(rest \cup old) = Cardinality(rest) + Cardinality(old) - Cardinality(rest \cap old)
    BY <1>3, <1>4, FS_Union, Zenon
  <2>2. Cardinality(rest \cap old) = 0
    BY <1>1, <1>5, Zenon
  <2> QED
    BY <2>1, <2>2, <1>3, <1>4
<1>7. Cardinality(rest \cup new) = Cardinality(rest) + Cardinality(new)
  <2>1. Cardinality(rest \cup new) = Cardinality(rest) + Cardinality(new) - Cardinality(rest \cap new)
    BY <1>3, <1>4, FS_Union, Zenon
  <2>2. Cardinality(rest \cap new) = 0
    BY <1>2, <1>5, Zenon
  <2> QED
    BY <2>1, <2>2, <1>3, <1>4
<1>8. Cardinality(Pairs(b)) = Cardinality(rest) + Cardinality(old)
  BY <1>1, <1>6, Zenon
<1>9. Cardinality(Pairs(b2)) = Cardinality(rest) + Cardinality(new)
  BY <1>2, <1>7, Zenon
<1> QED
  BY <1>3, <1>4, <1>8, <1>9

LEMMA BoundRows ==
  /\ AllBound = Pairs(binds)
  /\ \A k : Bound(k) = Row(binds[k])
  BY Zenon DEF AllBound, Bound, Pairs, Row

-----------------------------------------------------------------------------
(* Connections. *)

LEMMA Shapes ==
  ASSUME NEW r \in {NoConnection} \cup Picked \cup InPick
  PROVE  /\ r.pc \in {"sticky", "validate", "record"} => r \in InPick
         /\ r.pc = "picked" => r \in Picked
  BY DEF NoConnection, Picked, InPick

LEMMA ScopedTyped ==
  ASSUME NEW s \in PortState \cup {NoState}, NEW e \in BOOLEAN
  PROVE  Scoped(s, e) \subseteq Backends /\ (Scoped(s, e) # {} => s # NoState)
  BY Zenon DEF Scoped, ActivePool, Locals, PortState

\* A record of a pick under way, changed in the fields a step changes.
LEMMA SeenField ==
  ASSUME NEW r \in InPick, NEW S \in SUBSET Backends, NEW n, n = [r EXCEPT !.seen = S]
  PROVE  /\ n \in InPick /\ n.seen = S /\ n.pc = r.pc /\ n.key = r.key /\ n.client = r.client
         /\ n.external = r.external /\ n.st = r.st /\ n.be = r.be
  BY Zenon DEF InPick

LEMMA RecordField ==
  ASSUME NEW r \in InPick, NEW n, n = [r EXCEPT !.pc = "record"]
  PROVE  /\ n \in InPick /\ n.seen = r.seen /\ n.pc = "record" /\ n.key = r.key /\ n.client = r.client
         /\ n.external = r.external /\ n.st = r.st /\ n.be = r.be
  BY Zenon DEF InPick

\* The affinity lock is free: no pick is between its lock and its unlock.
LEMMA NobodyLocked ==
  ASSUME RoutingInv, affMu = NoConn
  PROVE  \A c \in Conns : ~Locked(c)
  BY RoutingAssumption, Zenon DEF RoutingInv, Holder

\* A connection leaves its pick, or the table.
LEMMA Finished ==
  ASSUME RoutingInv, UNCHANGED writeVars, NEW c \in Conns, NEW r \in {NoConnection} \cup Picked,
         r.pc = "picked" => r.be \in r.seen, conn' = [conn EXCEPT ![c] = r]
  PROVE  /\ conn' \in [Conns -> {NoConnection} \cup Picked \cup InPick]
         /\ Seen' /\ PickedWasEligible' /\ Recording'
         /\ \A d \in Conns : Locked(d)' => d # c /\ Locked(d)
         /\ \A d \in Conns : d # c => conn'[d] = conn[d]
<1> USE DEF RoutingInv, RoutingTypeOK
<1>1. conn' \in [Conns -> {NoConnection} \cup Picked \cup InPick]
  BY Zenon
<1>2. conn'[c] = r /\ (\A d \in Conns : d # c => conn'[d] = conn[d])
  BY Zenon
<1>3. r.pc \in {"idle", "picked"}
  BY DEF NoConnection, Picked
<1>4. Seen'
  BY <1>2, <1>3, Zenon DEF Seen, Picking, Locked, writeVars
<1>5. PickedWasEligible'
  BY <1>2, Zenon DEF PickedWasEligible
<1>6. Recording'
  BY <1>2, <1>3, Zenon DEF Recording, Sticks, writeVars
<1>7. \A d \in Conns : Locked(d)' => d # c /\ Locked(d)
  BY <1>2, <1>3, Zenon DEF Locked
<1> QED
  BY <1>1, <1>2, <1>4, <1>5, <1>6, <1>7, Zenon

-----------------------------------------------------------------------------
(* The writers. *)

\* A store purges, unless what it stores has affinity.
LEMMA StoreStep ==
  ASSUME RoutingInv, NEW k \in TableKeys, NEW s \in PortState \cup {NoState}, Store(k, s),
         purging = NoTableKey, writes' \in Nat, UNCHANGED <<affVars, now>>,
         \/ purging' = k
         \/ purging' = NoTableKey /\ s # NoState /\ s.mode = "ClientIP"
  PROVE  RoutingInv'
<1> USE DEF RoutingInv
<1>1. RoutingTypeOK
  BY Zenon
<1>2. /\ snap' = [snap EXCEPT ![k] = s]
      /\ UNCHANGED <<binds, count, affMu, caps, now>>
  BY Zenon DEF Store, affVars
<1>3. ASSUME NEW c \in Conns, Picking(c)
      PROVE  /\ conn[c] \in InPick /\ conn'[c] \in InPick
             /\ conn'[c].pc = conn[c].pc /\ conn'[c].key = conn[c].key /\ conn'[c].client = conn[c].client
             /\ conn'[c].external = conn[c].external /\ conn'[c].st = conn[c].st /\ conn'[c].be = conn[c].be
             /\ conn[c].seen \subseteq conn'[c].seen
             /\ conn[c].key = k => Scoped(s, conn[c].external) \subseteq conn'[c].seen
  <2>1. conn[c] \in InPick
    BY <1>1, <1>3, Shapes, Zenon DEF RoutingTypeOK, Picking
  <2>2. CASE conn[c].key # k
    <3>1. conn'[c] = conn[c]
      BY <2>2, Zenon DEF Store
    <3> QED
      BY <2>1, <2>2, <3>1, Zenon
  <2>3. CASE conn[c].key = k
    <3> DEFINE S == conn[c].seen \cup Scoped(s, conn[c].external)
    <3>1. conn'[c] = [conn[c] EXCEPT !.seen = S]
      BY <1>3, <2>3, Zenon DEF Store, Picking
    <3>2. conn[c].external \in BOOLEAN /\ conn[c].seen \in SUBSET Backends
      BY <2>1, Zenon DEF InPick
    <3>3. S \in SUBSET Backends
      BY <3>2, ScopedTyped, Zenon
    <3>4. conn[c].seen \subseteq S /\ Scoped(s, conn[c].external) \subseteq S
      BY Zenon
    <3> HIDE DEF S
    <3>5. /\ conn'[c] \in InPick /\ conn'[c].seen = S /\ conn'[c].pc = conn[c].pc /\ conn'[c].key = conn[c].key
          /\ conn'[c].client = conn[c].client /\ conn'[c].external = conn[c].external
          /\ conn'[c].st = conn[c].st /\ conn'[c].be = conn[c].be
      BY <2>1, <3>1, <3>3, SeenField, SMTT(20)
    <3> QED
      BY <2>1, <3>4, <3>5, Zenon
  <2> QED
    BY <2>2, <2>3, Zenon
<1>4. ASSUME NEW c \in Conns, ~Picking(c)
      PROVE  conn'[c] = conn[c]
  BY <1>4, Zenon DEF Store, Picking
<1>5. \A c \in Conns : conn'[c].pc = conn[c].pc
  BY <1>3, <1>4, Zenon
<1>6. RoutingTypeOK'
  <2>1. conn' \in [Conns -> {NoConnection} \cup Picked \cup InPick]
    <3>1. conn' = [c \in Conns |-> conn'[c]]
      BY Zenon DEF Store
    <3>2. \A c \in Conns : conn'[c] \in {NoConnection} \cup Picked \cup InPick
      BY <1>1, <1>3, <1>4, Zenon DEF RoutingTypeOK
    <3> QED
      BY <3>1, <3>2, Zenon
  <2>2. snap' \in [TableKeys -> PortState \cup {NoState}]
    BY <1>1, <1>2, Zenon DEF RoutingTypeOK
  <2>3. purging' \in TableKeys \cup {NoTableKey}
    BY Zenon
  <2> QED
    BY <1>1, <1>2, <2>1, <2>2, <2>3, Zenon DEF RoutingTypeOK
<1>7. Seen'
  <2> SUFFICES ASSUME NEW c \in Conns
               PROVE  /\ Picking(c)' => (Scoped(snap[conn[c].key], conn[c].external) \subseteq conn[c].seen)'
                      /\ Locked(c)' => conn'[c].be \in conn'[c].seen
    BY Zenon DEF Seen
  <2>1. ASSUME Picking(c)'
        PROVE  Scoped(snap'[conn'[c].key], conn'[c].external) \subseteq conn'[c].seen
    <3>1. Picking(c)
      BY <1>5, <2>1, Zenon DEF Picking
    <3>2. conn[c].key \in TableKeys
      BY <1>3, <3>1, Zenon DEF InPick
    <3>3. CASE conn[c].key = k
      BY <1>1, <1>2, <1>3, <3>1, <3>3, Zenon DEF RoutingTypeOK
    <3>4. CASE conn[c].key # k
      <4>1. snap'[conn'[c].key] = snap[conn[c].key]
        BY <1>1, <1>2, <1>3, <3>1, <3>2, <3>4, Zenon DEF RoutingTypeOK
      <4>2. Scoped(snap[conn[c].key], conn[c].external) \subseteq conn[c].seen
        BY <3>1, Zenon DEF Seen
      <4> QED
        BY <1>3, <3>1, <4>1, <4>2, Zenon
    <3> QED
      BY <3>3, <3>4, Zenon
  <2>2. ASSUME Locked(c)'
        PROVE  conn'[c].be \in conn'[c].seen
    <3>1. Locked(c) /\ Picking(c)
      BY <1>5, <2>2, Zenon DEF Locked, Picking
    <3> QED
      BY <1>3, <3>1, Zenon DEF Seen
  <2> QED
    BY <2>1, <2>2, Zenon
<1>8. PickedWasEligible'
  BY <1>4, <1>5, Zenon DEF PickedWasEligible, Picking
<1>9. Holder'
  BY <1>2, <1>5, Zenon DEF Holder, Locked
<1>10. Pending'
  <2> SUFFICES ASSUME NEW c \in Conns, Locked(c)'
               PROVE  /\ binds'[conn'[c].key][conn'[c].client] = NoBind
                      /\ count' < caps'.total /\ Cardinality(Bound(conn[c].key)') < caps'.port
                      /\ conn'[c].st # NoState /\ conn'[c].st.mode = "ClientIP"
    BY Zenon DEF Pending
  <2>1. Locked(c) /\ Picking(c)
    BY <1>5, Zenon DEF Locked, Picking
  <2>2. Bound(conn[c].key)' = Bound(conn[c].key)
    BY <1>2, <1>3, <2>1, Zenon DEF Bound
  <2> QED
    BY <1>2, <1>3, <2>1, <2>2, Zenon DEF Pending
<1>11. Recording'
  <2> SUFFICES ASSUME NEW c \in Conns, conn'[c].pc = "record"
               PROVE  purging' = conn'[c].key \/ (snap'[conn'[c].key] # NoState /\ snap'[conn'[c].key].mode = "ClientIP")
    BY Zenon DEF Recording, Sticks
  <2>1. conn[c].pc = "record" /\ Picking(c)
    BY <1>5, Zenon DEF Picking
  <2>2. conn'[c].key = conn[c].key /\ conn[c].key \in TableKeys
    BY <1>3, <2>1, Zenon DEF InPick
  <2>3. Sticks(conn[c].key)
    BY <2>1, <2>2, RoutingAssumption, Zenon DEF Recording
  <2> QED
    BY <1>1, <1>2, <2>2, <2>3, Zenon DEF Sticks, RoutingTypeOK
<1>12. Purged'
  <2> SUFFICES ASSUME NEW j \in TableKeys, Bound(j)' # {}
               PROVE  purging' = j \/ (snap'[j] # NoState /\ snap'[j].mode = "ClientIP")
    BY Zenon DEF Purged, Sticks
  <2>1. Bound(j) # {}
    BY <1>2, Zenon DEF Bound
  <2>2. Sticks(j)
    BY <2>1, RoutingAssumption, Zenon DEF Purged
  <2> QED
    BY <1>1, <1>2, <2>2, Zenon DEF Sticks, RoutingTypeOK
<1>13. Counted'
  BY <1>2, Zenon DEF Counted, AllBound, Bound
<1> QED
  BY <1>6, <1>7, <1>8, <1>9, <1>10, <1>11, <1>12, <1>13, Zenon

LEMMA WriteStep ==
  ASSUME RoutingInv, NEW k \in TableKeys, Write(k)
  PROVE  RoutingInv'
<1>1. writes \in Nat /\ writes + 1 \in Nat
  BY DEF RoutingInv, RoutingTypeOK
<1>2. CASE Delete(k)
  BY <1>1, <1>2, StoreStep, Zenon DEF Delete
<1>3. ASSUME NEW eps \in [Backends -> {"absent", "ready", "unready"}], NEW p \in Policies, NEW m \in Modes,
             InstallEndpoints(k, eps, p, m)
      PROVE  RoutingInv'
  <2> DEFINE s == [id |-> writes + 1, all |-> Admit(eps), policy |-> p, mode |-> m]
             stored == IF Admit(eps) = {} THEN NoState ELSE s
  <2>1. s \in PortState /\ s.mode = m
    BY <1>1, Zenon DEF PortState, Admit
  <2>2. stored \in PortState \cup {NoState} /\ (Admit(eps) # {} => stored # NoState /\ stored.mode = m)
    BY <2>1, RoutingAssumption, Zenon
  <2>3. /\ Store(k, stored) /\ purging = NoTableKey /\ writes' = writes + 1 /\ UNCHANGED <<affVars, now>>
        /\ purging' = IF Admit(eps) = {} \/ m # "ClientIP" THEN k ELSE NoTableKey
    BY <1>3, Zenon DEF InstallEndpoints
  <2> HIDE DEF s, stored
  <2> QED
    BY <1>1, <2>2, <2>3, StoreStep, Zenon
<1> QED
  BY <1>2, <1>3, Zenon DEF Write

\* purgeAffinity waits for the pick that is about to record, and takes its binding too.
LEMMA PurgeStep ==
  ASSUME RoutingInv, Purge
  PROVE  RoutingInv'
<1> DEFINE empty == [c \in Clients |-> NoBind]
<1> USE DEF RoutingInv
<1>1. RoutingTypeOK /\ (\A c \in Conns : ~Locked(c))
  BY NobodyLocked, Zenon DEF Purge
<1>0. PICK k \in TableKeys : k = purging
  BY <1>1, Zenon DEF Purge, RoutingTypeOK
<1>2. /\ binds' = [binds EXCEPT ![k] = empty] /\ count' = count - Cardinality(Row(binds[k]))
      /\ purging' = NoTableKey /\ UNCHANGED <<snap, writes, affMu, caps, conn, now>>
  BY <1>0, BoundRows, Zenon DEF Purge
<1>3. empty \in Rows /\ Row(empty) = {}
  BY Zenon DEF Row, Rows
<1>4. /\ binds \in [TableKeys -> Rows]
      /\ binds' \in [TableKeys -> Rows]
      /\ binds'[k] = empty /\ (\A j \in TableKeys : j # k => binds'[j] = binds[j])
  BY <1>1, <1>2, <1>3, Zenon DEF RoutingTypeOK
<1> HIDE DEF empty
<1>5. Counted' /\ count' \in Nat
  <2>1. Cardinality(Pairs(binds')) = Cardinality(Pairs(binds)) - Cardinality(Row(binds[k])) + Cardinality(Row(binds'[k]))
    BY <1>0, <1>4, RowChanged, Zenon
  <2>2. Cardinality(Row(binds'[k])) = 0
    BY <1>3, <1>4, FS_EmptySet, Zenon
  <2>3. /\ Cardinality(Pairs(binds')) \in Nat /\ Cardinality(Pairs(binds)) \in Nat
        /\ Cardinality(Row(binds[k])) \in Nat
    BY PairsFinite, Zenon
  <2>4. count = Cardinality(Pairs(binds)) /\ count <= caps.total /\ (\A j \in TableKeys : Cardinality(Row(binds[j])) <= caps.port)
    BY BoundRows, Zenon DEF Counted
  <2>5. caps \in [port : Nat \ {0}, total : Nat \ {0}] /\ caps' = caps
    BY <1>1, <1>2, Zenon DEF RoutingTypeOK
  <2>6. count' = Cardinality(Pairs(binds')) /\ count' <= caps.total /\ count' \in Nat
    BY <1>2, <2>1, <2>2, <2>3, <2>4, <2>5
  <2>7. \A j \in TableKeys : Cardinality(Row(binds'[j])) <= caps.port
    BY <1>4, <2>2, <2>4, <2>5
  <2>8. AllBound' = Pairs(binds') /\ (\A j : Bound(j)' = Row(binds'[j]))
    BY Zenon DEF AllBound, Bound, Pairs, Row
  <2> QED
    BY <2>5, <2>6, <2>7, <2>8, Zenon DEF Counted
<1>6. RoutingTypeOK'
  BY <1>1, <1>2, <1>4, <1>5, Zenon DEF RoutingTypeOK
<1>7. Purged'
  <2>1. \A j \in TableKeys : j # k /\ Bound(j)' # {} => Sticks(j)'
    BY <1>0, <1>2, <1>4, Zenon DEF Purged, Bound, Sticks
  <2>2. Bound(k)' = {}
    BY <1>3, <1>4, Zenon DEF Bound, Row
  <2> QED
    BY <2>1, <2>2, Zenon DEF Purged
<1>8. Seen' /\ PickedWasEligible'
  BY <1>2, Zenon DEF Seen, PickedWasEligible, Picking, Locked
<1>9. Holder' /\ Pending' /\ Recording'
  BY <1>1, <1>2, Zenon DEF Holder, Pending, Recording, Locked
<1> QED
  BY <1>5, <1>6, <1>7, <1>8, <1>9, Zenon

\* SweepExpired drops what has expired, and counts it down.
LEMMA SweepStep ==
  ASSUME RoutingInv, SweepExpired
  PROVE  RoutingInv'
<1> DEFINE gone(k, x) == snap[k] = NoState \/ ~Fresh(binds[k][x])
           out == {p \in AllBound : gone(p[1], p[2])}
<1> USE DEF RoutingInv
<1>1. RoutingTypeOK /\ (\A c \in Conns : ~Locked(c))
  BY NobodyLocked, Zenon DEF SweepExpired
<1>2. /\ binds' = [k \in TableKeys |-> [x \in Clients |-> IF <<k, x>> \in AllBound /\ gone(k, x) THEN NoBind ELSE binds[k][x]]]
      /\ count' = count - Cardinality(out)
      /\ UNCHANGED <<snap, writes, purging, affMu, caps, conn, now>>
  BY Zenon DEF SweepExpired, writeVars
<1>3. binds' \in [TableKeys -> Rows]
  BY <1>1, <1>2, Zenon DEF RoutingTypeOK, Rows
<1>4. \A k \in TableKeys, x \in Clients : binds'[k][x] = IF <<k, x>> \in out THEN NoBind ELSE binds[k][x]
  BY <1>2, Zenon
<1>5. out \subseteq AllBound
  BY Zenon
<1> HIDE DEF gone, out
<1>6. AllBound' = AllBound \ out
  BY <1>4, <1>5 DEF AllBound
<1>7. \A k \in TableKeys : Bound(k)' \subseteq Bound(k)
  BY <1>4, Zenon DEF Bound
<1>8. Counted' /\ count' \in Nat
  <2>1. IsFiniteSet(AllBound) /\ IsFiniteSet(AllBound') /\ IsFiniteSet(out)
    BY <1>5, <1>6, PairsFinite, BoundRows, FS_Subset, Zenon
  <2>2. Cardinality(AllBound \ out) = Cardinality(AllBound) - Cardinality(AllBound \cap out)
    BY <2>1, FS_Difference, Zenon
  <2>3. AllBound \cap out = out
    BY <1>5, Zenon
  <2>4. Cardinality(AllBound) \in Nat /\ Cardinality(AllBound') \in Nat /\ Cardinality(out) \in Nat
    BY <2>1, FS_CardinalityType, Zenon
  <2>5. caps \in [port : Nat \ {0}, total : Nat \ {0}] /\ caps' = caps
    BY <1>1, <1>2, Zenon DEF RoutingTypeOK
  <2>6. count' = Cardinality(AllBound') /\ count' <= caps.total
    <3>1. count = Cardinality(AllBound) /\ count <= caps.total /\ caps.total \in Nat
      BY <2>5, Zenon DEF Counted
    <3>2. Cardinality(AllBound') = Cardinality(AllBound) - Cardinality(out)
      BY <1>6, <2>2, <2>3, Zenon
    <3> QED
      BY <1>2, <2>4, <3>1, <3>2
  <2>7. ASSUME NEW k \in TableKeys
        PROVE  Cardinality(Bound(k)') <= caps.port
    <3>1. IsFiniteSet(Bound(k)) /\ Cardinality(Bound(k)) \in Nat
      BY PairsFinite, BoundRows, Zenon
    <3>2. Cardinality(Bound(k)') <= Cardinality(Bound(k)) /\ IsFiniteSet(Bound(k)')
      BY <1>7, <3>1, FS_Subset, Zenon
    <3>3. Cardinality(Bound(k)') \in Nat
      BY <3>2, FS_CardinalityType, Zenon
    <3> QED
      BY <2>5, <3>1, <3>2, <3>3 DEF Counted
  <2> QED
    BY <2>4, <2>5, <2>6, <2>7, Zenon DEF Counted
<1>9. RoutingTypeOK'
  BY <1>1, <1>2, <1>3, <1>8, Zenon DEF RoutingTypeOK
<1>10. Purged'
  BY <1>2, <1>7, Zenon DEF Purged, Sticks
<1>11. Seen' /\ PickedWasEligible'
  BY <1>2, Zenon DEF Seen, PickedWasEligible, Picking, Locked
<1>12. Holder' /\ Pending' /\ Recording'
  BY <1>1, <1>2, Zenon DEF Holder, Pending, Recording, Locked
<1> QED
  BY <1>8, <1>9, <1>10, <1>11, <1>12, Zenon

-----------------------------------------------------------------------------
(* A connection. *)

\* A connection that no lock and no binding is in question for ends its pick or its dial.
LEMMA Unlocked ==
  ASSUME RoutingInv, UNCHANGED <<writeVars, affVars, now>>, NEW c \in Conns, NEW r \in {NoConnection} \cup Picked,
         r.pc = "picked" => r.be \in r.seen, conn' = [conn EXCEPT ![c] = r]
  PROVE  RoutingInv'
<1> USE DEF RoutingInv
<1>1. /\ conn' \in [Conns -> {NoConnection} \cup Picked \cup InPick]
      /\ Seen' /\ PickedWasEligible' /\ Recording'
      /\ \A d \in Conns : Locked(d)' => d # c /\ Locked(d)
      /\ \A d \in Conns : d # c => conn'[d] = conn[d]
  BY Finished, Zenon
<1>2. RoutingTypeOK'
  BY <1>1, Zenon DEF RoutingTypeOK, writeVars, affVars
<1>3. Holder' /\ Pending'
  BY <1>1, ZenonT(40) DEF Holder, Pending, Bound, affVars
<1>4. Purged' /\ Counted'
  BY Zenon DEF Purged, Counted, Sticks, Bound, AllBound, writeVars, affVars
<1> QED
  BY <1>1, <1>2, <1>3, <1>4, Zenon

LEMMA PickStep ==
  ASSUME RoutingInv, NEW c \in Conns, NEW k \in TableKeys, NEW client \in Clients, NEW external \in BOOLEAN,
         Pick(c, k, client, external)
  PROVE  RoutingInv'
<1> DEFINE pool == Scoped(snap[k], external)
<1> USE DEF RoutingInv
<1>1. RoutingTypeOK /\ snap[k] \in PortState \cup {NoState} /\ conn[c] = NoConnection
      /\ UNCHANGED <<writeVars, affVars, now>>
  BY Zenon DEF RoutingTypeOK, Pick
<1>2. pool \in SUBSET Backends
  BY <1>1, ScopedTyped, Zenon
<1>3. CASE Drop(c)
  BY <1>1, <1>3, Unlocked, Zenon DEF Drop, Return, NoConnection
<1>4. ASSUME NEW be \in pool, Deliver(c, be, pool)
      PROVE  RoutingInv'
  <2> DEFINE r == [pc |-> "picked", be |-> be, seen |-> pool]
  <2>1. r \in Picked /\ r.be \in r.seen /\ conn' = [conn EXCEPT ![c] = r]
    BY <1>2, <1>4, Zenon DEF Picked, Deliver
  <2> HIDE DEF r
  <2> QED
    BY <1>1, <2>1, Unlocked, Zenon
<1>5. ASSUME conn' = [conn EXCEPT ![c] = [pc |-> "sticky", key |-> k, client |-> client,
                         external |-> external, seen |-> pool, st |-> NoState, be |-> NoState]]
      PROVE  RoutingInv'
  <2> DEFINE r == [pc |-> "sticky", key |-> k, client |-> client,
                   external |-> external, seen |-> pool, st |-> NoState, be |-> NoState]
  <2>1. /\ r \in InPick /\ r.pc = "sticky" /\ r.key = k /\ r.external = external /\ r.seen = pool
    BY <1>2, Zenon DEF InPick
  <2>2. conn' = [conn EXCEPT ![c] = r]
    BY <1>5, Zenon
  <2> HIDE DEF r
  <2>3. conn'[c] = r /\ \A d \in Conns : d # c => conn'[d] = conn[d]
    BY <1>1, <2>2, Zenon DEF RoutingTypeOK
  <2>4. RoutingTypeOK'
    BY <1>1, <2>1, <2>2, Zenon DEF RoutingTypeOK, writeVars, affVars
  <2>5. Seen'
    BY <1>1, <2>1, <2>3, Zenon DEF Seen, Picking, Locked, writeVars
  <2>6. PickedWasEligible' /\ Holder' /\ Recording'
    BY <1>1, <2>1, <2>3, Zenon
       DEF PickedWasEligible, Holder, Recording, Locked, Sticks, writeVars, affVars
  <2>7. Pending'
    BY <1>1, <2>1, <2>3 DEF Pending, Locked, Bound, affVars
  <2>8. Purged' /\ Counted'
    BY <1>1, Zenon DEF Purged, Counted, Sticks, Bound, AllBound, writeVars, affVars
  <2> QED
    BY <2>4, <2>5, <2>6, <2>7, <2>8, Zenon
<1> QED
  BY <1>3, <1>4, <1>5, Zenon DEF Pick

LEMMA DialStep ==
  ASSUME RoutingInv, NEW c \in Conns, Dial(c)
  PROVE  RoutingInv'
  BY Unlocked, Zenon DEF Dial, Return, NoConnection

\* The pick is delivered without a record when the portState has been replaced.
LEMMA ValidateStep ==
  ASSUME RoutingInv, NEW c \in Conns, Validate(c)
  PROVE  RoutingInv'
<1> USE DEF RoutingInv
<1>1. /\ RoutingTypeOK /\ conn[c].pc = "validate" /\ Picking(c) /\ Locked(c) /\ affMu = c /\ conn[c] \in InPick
      /\ UNCHANGED <<writeVars, binds, count, caps, now>>
  <2>1. conn[c].pc = "validate" /\ UNCHANGED <<writeVars, binds, count, caps, now>>
    BY Zenon DEF Validate
  <2>2. Picking(c) /\ Locked(c)
    BY <2>1, Zenon DEF Picking, Locked
  <2> QED
    BY <2>1, <2>2, Shapes, Zenon DEF Holder, RoutingTypeOK
<1>2. \A d \in Conns : Locked(d) => d = c
  BY <1>1, Zenon DEF Holder
<1>3. CASE snap[conn[c].key] = conn[c].st /\ conn' = [conn EXCEPT ![c].pc = "record"] /\ UNCHANGED affMu
  <2>1. /\ conn'[c] = [conn[c] EXCEPT !.pc = "record"] /\ (\A d \in Conns : d # c => conn'[d] = conn[d])
    BY <1>1, <1>3, Zenon DEF RoutingTypeOK
  <2>2. /\ conn'[c] \in InPick /\ conn'[c].seen = conn[c].seen /\ conn'[c].pc = "record" /\ conn'[c].key = conn[c].key
        /\ conn'[c].client = conn[c].client /\ conn'[c].external = conn[c].external
        /\ conn'[c].st = conn[c].st /\ conn'[c].be = conn[c].be
    BY <1>1, <2>1, RecordField
  <2>3. RoutingTypeOK'
    <3>1. conn' = [d \in Conns |-> conn'[d]]
      BY <1>1, <1>3, Zenon DEF RoutingTypeOK
    <3>2. \A d \in Conns : conn'[d] \in {NoConnection} \cup Picked \cup InPick
      BY <1>1, <2>1, <2>2 DEF RoutingTypeOK
    <3>3. conn' \in [Conns -> {NoConnection} \cup Picked \cup InPick]
      BY <3>1, <3>2, Zenon
    <3> QED
      BY <1>1, <1>3, <3>3, Zenon DEF RoutingTypeOK, writeVars
  <2>4. Seen'
    BY <1>1, <2>1, <2>2, ZenonT(40) DEF Seen, Picking, Locked, writeVars
  <2>5. PickedWasEligible' /\ Holder'
    BY <1>1, <1>2, <1>3, <2>1, <2>2, Zenon DEF PickedWasEligible, Holder, Locked
  <2>6. Pending'
    <3>1. \A j : Bound(j)' = Bound(j)
      BY <1>1, Zenon DEF Bound
    <3>2. \A d \in Conns : Locked(d)' => d = c
      BY <1>2, <2>1, Zenon DEF Locked
    <3>3. Bound(conn[c].key)' = Bound(conn'[c].key)
      BY <1>1, Zenon DEF Bound
    <3>4. /\ binds[conn[c].key][conn[c].client] = NoBind
          /\ count < caps.total /\ Cardinality(Bound(conn[c].key)) < caps.port
          /\ conn[c].st # NoState /\ conn[c].st.mode = "ClientIP"
      BY <1>1, Zenon DEF Pending
    <3> QED
      BY <1>1, <2>2, <3>2, <3>3, <3>4, Zenon DEF Pending
  <2>7. Recording'
    <3>1. Sticks(conn[c].key)
      BY <1>1, <1>3, Zenon DEF Pending, Sticks
    <3>2. snap'[conn'[c].key] # NoState /\ snap'[conn'[c].key].mode = "ClientIP"
      BY <1>1, <2>2, <3>1, Zenon DEF Sticks, writeVars
    <3>3. \A d \in Conns : conn'[d].pc = "record" => d = c
      BY <1>2, <2>1, Zenon DEF Locked
    <3> QED
      BY <3>2, <3>3, Zenon DEF Recording, Sticks
  <2>8. Purged' /\ Counted'
    BY <1>1, Zenon DEF Purged, Counted, Sticks, Bound, AllBound, writeVars
  <2> QED
    BY <2>3, <2>4, <2>5, <2>6, <2>7, <2>8, Zenon
<1>4. CASE Deliver(c, conn[c].be, conn[c].seen) /\ affMu' = NoConn
  <2> DEFINE r == [pc |-> "picked", be |-> conn[c].be, seen |-> conn[c].seen]
  <2>1. conn[c].be \in conn[c].seen /\ conn[c].seen \in SUBSET Backends
    BY <1>1, Zenon DEF Seen, InPick
  <2>2. r \in Picked /\ r.be \in r.seen /\ conn' = [conn EXCEPT ![c] = r]
    BY <1>4, <2>1, Zenon DEF Picked, Deliver
  <2> HIDE DEF r
  <2>3. /\ conn' \in [Conns -> {NoConnection} \cup Picked \cup InPick]
        /\ Seen' /\ PickedWasEligible' /\ Recording'
        /\ \A d \in Conns : Locked(d)' => d # c /\ Locked(d)
    BY <1>1, <2>2, Finished, Zenon
  <2>4. Holder' /\ Pending'
    BY <1>2, <2>3, Zenon DEF Holder, Pending
  <2>5. RoutingTypeOK'
    BY <1>1, <1>4, <2>3, Zenon DEF RoutingTypeOK, writeVars
  <2>6. Purged' /\ Counted'
    BY <1>1 DEF Purged, Counted, Sticks, Bound, AllBound, writeVars
  <2> QED
    BY <2>3, <2>4, <2>5, <2>6, Zenon
<1> QED
  BY <1>3, <1>4, Zenon DEF Validate

\* The binding is new, and the caps leave room for it; if its port is about to lose its
\* affinity, the purge is still to come.
LEMMA RecordStep ==
  ASSUME RoutingInv, NEW c \in Conns, Record(c)
  PROVE  RoutingInv'
<1> USE DEF RoutingInv
<1>1. /\ RoutingTypeOK /\ conn[c].pc = "record" /\ Locked(c) /\ affMu = c /\ conn[c] \in InPick
      /\ UNCHANGED <<writeVars, caps, now>> /\ affMu' = NoConn /\ count' = count + 1
  <2>1. conn[c].pc = "record"
    BY Zenon DEF Record
  <2>2. Locked(c)
    BY <2>1, Zenon DEF Locked
  <2> QED
    BY <2>1, <2>2, Shapes, Zenon DEF Holder, RoutingTypeOK, Record
<1>2. PICK k \in TableKeys : k = conn[c].key
  BY <1>1, Zenon DEF InPick
<1>3. PICK x \in Clients : x = conn[c].client
  BY <1>1, Zenon DEF InPick
<1>4. conn[c].be \in conn[c].seen /\ conn[c].seen \in SUBSET Backends /\ conn[c].be \in Backends
  BY <1>1, Zenon DEF Seen, InPick
<1>5. /\ binds[k][x] = NoBind /\ count < caps.total /\ Cardinality(Bound(k)) < caps.port
      /\ purging = k \/ Sticks(k)
  BY <1>1, <1>2, <1>3, Zenon DEF Pending, Recording
<1> DEFINE b == [be |-> conn[c].be, seen |-> now]
<1>6. b \in AffinityBinding /\ b # NoBind
  BY <1>1, <1>4, RoutingAssumption DEF AffinityBinding, RoutingTypeOK
<1>7. binds' = [binds EXCEPT ![k][x] = b]
  BY <1>2, <1>3, Zenon DEF Record
<1> HIDE DEF b
<1>8. /\ binds \in [TableKeys -> Rows] /\ binds' \in [TableKeys -> Rows]
      /\ \A j \in TableKeys : j # k => binds'[j] = binds[j]
      /\ \A y \in Clients : binds'[k][y] = IF y = x THEN b ELSE binds[k][y]
  BY <1>1, <1>2, <1>3, <1>6, <1>7, Zenon DEF RoutingTypeOK, Rows
<1>9. Row(binds'[k]) = Row(binds[k]) \cup {x} /\ x \notin Row(binds[k])
  BY <1>3, <1>5, <1>6, <1>8 DEF Row
<1>10. Cardinality(Row(binds'[k])) = Cardinality(Row(binds[k])) + 1
  BY <1>9, PairsFinite, FS_AddElement, Zenon
<1>11. AllBound' = Pairs(binds') /\ (\A j : Bound(j)' = Row(binds'[j]))
  BY Zenon DEF AllBound, Bound, Pairs, Row
<1>12. Counted' /\ count' \in Nat
  <2>1. Cardinality(Pairs(binds')) = Cardinality(Pairs(binds)) - Cardinality(Row(binds[k])) + Cardinality(Row(binds'[k]))
    BY <1>2, <1>8, RowChanged, Zenon
  <2>2. Cardinality(Pairs(binds)) \in Nat /\ Cardinality(Row(binds[k])) \in Nat
    BY PairsFinite, Zenon
  <2>3. count = Cardinality(Pairs(binds)) /\ (\A j \in TableKeys : Cardinality(Row(binds[j])) <= caps.port)
    BY BoundRows, Zenon DEF Counted
  <2>4. caps.port \in Nat /\ caps.total \in Nat /\ caps' = caps
    BY <1>1, Zenon DEF RoutingTypeOK
  <2>5. count' = Cardinality(Pairs(binds')) /\ count' <= caps.total /\ count' \in Nat
    BY <1>1, <1>5, <1>10, <2>1, <2>2, <2>3, <2>4, SMTT(20)
  <2>6. Cardinality(Row(binds'[k])) <= caps.port
    BY <1>5, <1>10, <2>2, <2>4, BoundRows
  <2> QED
    BY <1>8, <1>11, <2>3, <2>4, <2>5, <2>6, Zenon DEF Counted
<1> DEFINE r == [pc |-> "picked", be |-> conn[c].be, seen |-> conn[c].seen]
<1>13. r \in Picked /\ r.be \in r.seen /\ conn' = [conn EXCEPT ![c] = r]
  BY <1>4, Zenon DEF Picked, Deliver, Record
<1> HIDE DEF r
<1>14. /\ conn' \in [Conns -> {NoConnection} \cup Picked \cup InPick]
       /\ Seen' /\ PickedWasEligible' /\ Recording'
       /\ \A d \in Conns : Locked(d)' => d # c /\ Locked(d)
  BY <1>1, <1>13, Finished, Zenon
<1>15. Holder' /\ Pending'
  BY <1>1, <1>14, Zenon DEF Holder, Pending
<1>16. RoutingTypeOK'
  BY <1>1, <1>8, <1>12, <1>14, Zenon DEF RoutingTypeOK, writeVars
<1>17. Purged'
  <2> SUFFICES ASSUME NEW j \in TableKeys, Bound(j)' # {}
               PROVE  purging = j \/ Sticks(j)
    BY <1>1, Zenon DEF Purged, Sticks, writeVars
  <2>1. CASE j # k
    BY <1>8, <2>1, Zenon DEF Purged, Bound
  <2>2. CASE j = k
    BY <1>5, <2>2, Zenon
  <2> QED
    BY <2>1, <2>2, Zenon
<1> QED
  BY <1>12, <1>14, <1>15, <1>16, <1>17, Zenon

\* The steps of Sticky that hold a ClientIP portState: a hit, and a miss.
ScopedPool(c) == Scoped(snap[conn[c].key], conn[c].external)

HitAct(c) ==
  /\ conn[c].pc = "sticky" /\ affMu = NoConn
  /\ Hit(conn[c].key, conn[c].client, ScopedPool(c))
  /\ Deliver(c, binds[conn[c].key][conn[c].client].be, conn[c].seen)
  /\ binds' = [binds EXCEPT ![conn[c].key][conn[c].client].seen = now]
  /\ UNCHANGED <<count, affMu, caps, snap, writes, purging, now>>

MissAct(c) ==
  /\ conn[c].pc = "sticky" /\ affMu = NoConn
  /\ ScopedPool(c) # {} /\ snap[conn[c].key].mode = "ClientIP"
  /\ StickyMiss(c, conn[c].key, snap[conn[c].key], ScopedPool(c))
  /\ UNCHANGED <<caps, snap, writes, purging, now>>

\* A pick that is about to lock.
LEMMA AtSticky ==
  ASSUME RoutingInv, NEW c \in Conns, conn[c].pc = "sticky"
  PROVE  /\ conn[c] \in InPick /\ conn[c].key \in TableKeys /\ conn[c].client \in Clients
         /\ conn[c].external \in BOOLEAN /\ conn[c].seen \in SUBSET Backends
         /\ ScopedPool(c) \subseteq conn[c].seen
<1>1. conn[c] \in InPick /\ Seen
  BY Shapes, Zenon DEF RoutingInv, RoutingTypeOK
<1> QED
  BY <1>1, Zenon DEF InPick, Seen, Picking, ScopedPool

\* A hit only moves its binding's time; the backend is still in the pool.
LEMMA HitStep ==
  ASSUME RoutingInv, NEW c \in Conns, HitAct(c)
  PROVE  RoutingInv'
<1> USE DEF RoutingInv
<1>1. affMu = NoConn /\ UNCHANGED <<count, affMu, caps, snap, writes, purging, now>>
  BY Zenon DEF HitAct
<1>2. \A d \in Conns : ~Locked(d)
  BY <1>1, NobodyLocked, Zenon
<1>3. /\ conn[c].key \in TableKeys /\ conn[c].client \in Clients
      /\ conn[c].seen \in SUBSET Backends /\ ScopedPool(c) \subseteq conn[c].seen
  BY AtSticky, Zenon DEF HitAct
<1>4. PICK k \in TableKeys, x \in Clients : k = conn[c].key /\ x = conn[c].client
  BY <1>3, Zenon
<1>5. binds[k][x] # NoBind /\ binds[k][x].be \in conn[c].seen /\ Deliver(c, binds[k][x].be, conn[c].seen)
  BY <1>3, <1>4, Zenon DEF HitAct, Hit
<1> DEFINE b == [binds[k][x] EXCEPT !.seen = now]
<1>6. binds \in [TableKeys -> Rows] /\ now \in Nat
  BY Zenon DEF RoutingTypeOK
<1>7. b \in AffinityBinding /\ b # NoBind
  <2>1. binds[k][x] \in AffinityBinding
    BY <1>4, <1>5, <1>6, Zenon DEF Rows
  <2>2. b \in AffinityBinding
    BY <1>6, <2>1, SMTT(30) DEF AffinityBinding
  <2> QED
    BY <2>2, RoutingAssumption, Zenon
<1>8. binds' = [binds EXCEPT ![k][x] = b]
  BY <1>4, Zenon DEF HitAct
<1> HIDE DEF b
<1>9. /\ binds' \in [TableKeys -> Rows]
      /\ \A j \in TableKeys : j # k => binds'[j] = binds[j]
      /\ \A y \in Clients : binds'[k][y] = IF y = x THEN b ELSE binds[k][y]
  BY <1>4, <1>6, <1>7, <1>8, ZenonT(40) DEF Rows
<1>10. \A j \in TableKeys, y \in Clients : binds'[j][y] # NoBind <=> binds[j][y] # NoBind
  BY <1>4, <1>5, <1>7, <1>9
<1>11. AllBound' = AllBound /\ (\A j \in TableKeys : Bound(j)' = Bound(j))
  BY <1>10, Zenon DEF AllBound, Bound
<1>12. Counted' /\ Purged'
  BY <1>1, <1>11, Zenon DEF Counted, Purged, Sticks
<1> DEFINE r == [pc |-> "picked", be |-> binds[k][x].be, seen |-> conn[c].seen]
<1>13. r \in Picked /\ r.be \in r.seen /\ conn' = [conn EXCEPT ![c] = r]
  BY <1>3, <1>5, Zenon DEF Picked, Deliver
<1> HIDE DEF r
<1>14. /\ conn' \in [Conns -> {NoConnection} \cup Picked \cup InPick]
       /\ Seen' /\ PickedWasEligible' /\ Recording'
       /\ \A d \in Conns : Locked(d)' => d # c /\ Locked(d)
  BY <1>1, <1>13, Finished, Zenon DEF writeVars
<1>15. Holder' /\ Pending'
  BY <1>2, <1>14, Zenon DEF Holder, Pending
<1>16. RoutingTypeOK'
  BY <1>1, <1>9, <1>14, Zenon DEF RoutingTypeOK
<1> QED
  BY <1>12, <1>14, <1>15, <1>16, Zenon

\* A miss drops the client's stale binding and makes room; the table is then full, or the
\* pick keeps the lock until it has recorded.
LEMMA MissStep ==
  ASSUME RoutingInv, NEW c \in Conns, MissAct(c)
  PROVE  RoutingInv'
<1> USE DEF RoutingInv
<1>0. affMu = NoConn /\ UNCHANGED <<caps, snap, writes, purging, now>>
  BY Zenon DEF MissAct
<1>1. RoutingTypeOK /\ (\A d \in Conns : ~Locked(d))
  BY <1>0, NobodyLocked, Zenon
<1>a. /\ conn[c] \in InPick /\ conn[c].key \in TableKeys /\ conn[c].client \in Clients
      /\ conn[c].external \in BOOLEAN /\ conn[c].seen \in SUBSET Backends
      /\ ScopedPool(c) \subseteq conn[c].seen
  BY AtSticky, Zenon DEF MissAct
<1>2. PICK k \in TableKeys : k = conn[c].key
  BY <1>a, Zenon
<1> DEFINE client == conn[c].client
           s == snap[k]
           pool == Scoped(s, conn[c].external)
           kept == Bound(k) \ {client}
<1>3. client \in Clients
  BY <1>a, Zenon
<1>4. s \in PortState \cup {NoState} /\ conn[c].external \in BOOLEAN /\ conn[c].seen \in SUBSET Backends
  BY <1>1, <1>2, <1>a, Zenon DEF RoutingTypeOK
<1>5. s \in PortState /\ s # NoState /\ s.mode = "ClientIP"
  BY <1>2, <1>4, ScopedTyped, Zenon DEF MissAct, ScopedPool
<1>6. pool \subseteq conn[c].seen
  BY <1>2, <1>a, Zenon DEF ScopedPool
<1>7. PICK victims \in SUBSET kept :
        /\ Cardinality(victims) = (IF Cardinality(kept) >= caps.port THEN 1 ELSE 0)
        /\ binds' = [binds EXCEPT ![k] = [y \in Clients |-> IF y \in victims \cup {client} THEN NoBind ELSE @[y]]]
        /\ count' = count - Cardinality(Bound(k)) + Cardinality(kept \ victims)
        /\ \E be \in pool :
             IF count' >= caps.total
             THEN Deliver(c, be, conn[c].seen) /\ UNCHANGED affMu
             ELSE /\ conn' = [conn EXCEPT ![c] = [@ EXCEPT !.pc = "validate", !.be = be, !.st = s]]
                  /\ affMu' = c
  <2>1. StickyMiss(c, k, s, pool)
    BY <1>2, Zenon DEF MissAct, ScopedPool
  <2> QED
    BY <2>1, Zenon DEF StickyMiss
<1> HIDE DEF client, pool, s
<1>8. /\ binds \in [TableKeys -> Rows] /\ binds' \in [TableKeys -> Rows]
      /\ \A j \in TableKeys : j # k => binds'[j] = binds[j]
      /\ \A y \in Clients : binds'[k][y] = IF y \in victims \cup {client} THEN NoBind ELSE binds[k][y]
  BY <1>1, <1>2, <1>7 DEF RoutingTypeOK, Rows
<1>9. Row(binds'[k]) = kept \ victims
  BY <1>8, Zenon DEF Row, Bound
<1>10. AllBound' = Pairs(binds') /\ (\A j : Bound(j)' = Row(binds'[j]))
  BY Zenon DEF AllBound, Bound, Pairs, Row
<1>11. /\ IsFiniteSet(Bound(k)) /\ IsFiniteSet(kept) /\ IsFiniteSet(victims)
       /\ Cardinality(Bound(k)) \in Nat /\ Cardinality(kept) \in Nat /\ Cardinality(kept) <= Cardinality(Bound(k))
  <2>1. IsFiniteSet(Bound(k)) /\ kept \subseteq Bound(k)
    BY BoundRows, PairsFinite, Zenon
  <2>2. IsFiniteSet(kept) /\ Cardinality(kept) <= Cardinality(Bound(k))
    BY <2>1, FS_Subset, Zenon
  <2>3. IsFiniteSet(victims)
    BY <1>7, <2>2, FS_Subset, Zenon
  <2> QED
    BY <2>1, <2>2, <2>3, FS_CardinalityType, Zenon
<1>12. Cardinality(kept \ victims) = Cardinality(kept) - Cardinality(victims)
  <2>1. kept \cap victims = victims
    BY <1>7, Zenon
  <2> QED
    BY <1>11, <2>1, FS_Difference, Zenon
<1> HIDE DEF kept
<1>13. caps.port \in Nat \ {0} /\ caps.total \in Nat \ {0} /\ caps' = caps
  BY <1>0, <1>1, Zenon DEF RoutingTypeOK
<1>14. Cardinality(Row(binds'[k])) < caps.port /\ Cardinality(Row(binds'[k])) <= Cardinality(Bound(k))
  <2>1. Cardinality(Bound(k)) <= caps.port
    BY <1>2, Zenon DEF Counted
  <2>2. Cardinality(victims) = (IF Cardinality(kept) >= caps.port THEN 1 ELSE 0)
    BY <1>7, Zenon
  <2>3. CASE Cardinality(kept) >= caps.port
    BY <1>9, <1>11, <1>12, <1>13, <2>1, <2>2, <2>3, SMTT(20)
  <2>4. CASE ~(Cardinality(kept) >= caps.port)
    BY <1>9, <1>11, <1>12, <1>13, <2>1, <2>2, <2>4, SMTT(20)
  <2> QED
    BY <2>3, <2>4, Zenon
<1>15. Counted' /\ count' \in Nat
  <2>1. Cardinality(Pairs(binds')) = Cardinality(Pairs(binds)) - Cardinality(Row(binds[k])) + Cardinality(Row(binds'[k]))
    BY <1>2, <1>8, RowChanged
  <2>2. Cardinality(Pairs(binds')) \in Nat /\ Cardinality(Pairs(binds)) \in Nat /\ Cardinality(Row(binds'[k])) \in Nat
    BY PairsFinite, Zenon
  <2>3. /\ count = Cardinality(Pairs(binds)) /\ count <= caps.total
        /\ (\A j \in TableKeys : Cardinality(Row(binds[j])) <= caps.port)
    BY BoundRows, Zenon DEF Counted
  <2>4. Bound(k) = Row(binds[k])
    BY BoundRows, Zenon
  <2>5. count' = Cardinality(Pairs(binds')) /\ count' <= caps.total
    <3>1. count' = count - Cardinality(Row(binds[k])) + Cardinality(Row(binds'[k]))
      BY <1>7, <1>9, <2>4, Zenon
    <3>2. Cardinality(Row(binds[k])) \in Nat /\ Cardinality(Row(binds'[k])) <= Cardinality(Row(binds[k]))
      BY <1>11, <1>14, <2>4, Zenon
    <3> QED
      BY <1>13, <2>1, <2>2, <2>3, <3>1, <3>2
  <2>6. \A j \in TableKeys : Cardinality(Row(binds'[j])) <= caps.port
    BY <1>8, <1>13, <1>14, <2>2, <2>3
  <2> QED
    BY <1>10, <1>13, <2>2, <2>5, <2>6, Zenon DEF Counted
<1>16. Purged'
  <2> SUFFICES ASSUME NEW j \in TableKeys, Bound(j)' # {}
               PROVE  purging = j \/ Sticks(j)
    BY <1>0, Zenon DEF Purged, Sticks
  <2>1. CASE j # k
    BY <1>8, <2>1, Zenon DEF Purged, Bound
  <2>2. CASE j = k
    BY <1>5, <2>2, Zenon DEF Sticks, s
  <2> QED
    BY <2>1, <2>2, Zenon
<1>17. PICK be \in pool :
             IF count' >= caps.total
             THEN Deliver(c, be, conn[c].seen) /\ UNCHANGED affMu
             ELSE /\ conn' = [conn EXCEPT ![c] = [@ EXCEPT !.pc = "validate", !.be = be, !.st = s]]
                  /\ affMu' = c
  BY <1>7, Zenon
<1>18. be \in conn[c].seen /\ be \in Backends
  BY <1>4, <1>6, <1>17, Zenon
<1>19. CASE count' >= caps.total
  <2> DEFINE r == [pc |-> "picked", be |-> be, seen |-> conn[c].seen]
  <2>1. r \in Picked /\ r.be \in r.seen /\ conn' = [conn EXCEPT ![c] = r] /\ UNCHANGED affMu
    BY <1>4, <1>17, <1>18, <1>19, Zenon DEF Picked, Deliver
  <2> HIDE DEF r
  <2>2. /\ conn' \in [Conns -> {NoConnection} \cup Picked \cup InPick]
        /\ Seen' /\ PickedWasEligible' /\ Recording'
        /\ \A d \in Conns : Locked(d)' => d # c /\ Locked(d)
    BY <1>0, <2>1, Finished, Zenon DEF writeVars
  <2>3. Holder' /\ Pending'
    BY <1>1, <2>2, Zenon DEF Holder, Pending
  <2>4. RoutingTypeOK'
    BY <1>0, <1>1, <1>8, <1>15, <2>1, <2>2, Zenon DEF RoutingTypeOK
  <2> QED
    BY <1>15, <1>16, <2>2, <2>3, <2>4, Zenon
<1>20. CASE ~(count' >= caps.total)
  <2> DEFINE r == [conn[c] EXCEPT !.pc = "validate", !.be = be, !.st = s]
  <2>1. conn' = [conn EXCEPT ![c] = r] /\ affMu' = c
    BY <1>17, <1>20, Zenon
  <2>a. r = [conn[c] EXCEPT !.pc = "validate", !.be = be, !.st = s]
    BY Zenon
  <2> HIDE DEF r
  <2>b. /\ r \in InPick /\ r.seen = conn[c].seen /\ r.pc = "validate" /\ r.key = conn[c].key /\ r.client = conn[c].client
        /\ r.external = conn[c].external /\ r.st = s /\ r.be = be
    BY <1>5, <1>18, <1>a, <2>a, Zenon DEF InPick
  <2>2. /\ r \in InPick /\ r.seen = conn[c].seen /\ r.pc = "validate" /\ r.key = k /\ r.client = client
        /\ r.external = conn[c].external /\ r.st = s /\ r.be = be
    BY <1>2, <2>b, Zenon DEF client
  <2>3. conn'[c] = r /\ \A d \in Conns : d # c => conn'[d] = conn[d]
    BY <1>1, <2>1, Zenon DEF RoutingTypeOK
  <2>4. RoutingTypeOK'
    BY <1>0, <1>1, <1>8, <1>15, <2>1, <2>2, Zenon DEF RoutingTypeOK
  <2>5. Seen'
    <3>1. Scoped(snap'[k], r.external) \subseteq r.seen /\ r.be \in r.seen
      BY <1>0, <1>6, <1>18, <2>2, ZenonT(30) DEF pool, s
    <3> QED
      BY <1>0, <2>2, <2>3, <3>1, ZenonT(30) DEF Seen, Picking, Locked
  <2>6. PickedWasEligible' /\ Holder' /\ Recording'
    BY <1>0, <1>1, <2>1, <2>2, <2>3, ZenonT(30) DEF PickedWasEligible, Holder, Recording, Locked
  <2>7. Pending'
    <3>1. \A d \in Conns : Locked(d)' => d = c
      BY <1>1, <2>3, Zenon DEF Locked
    <3>2. binds'[k][client] = NoBind
      BY <1>3, <1>8, Zenon
    <3>3. count' < caps'.total
      BY <1>13, <1>15, <1>20
    <3>4. Cardinality(Bound(k)') < caps'.port
      BY <1>10, <1>13, <1>14, Zenon
    <3>5. Bound(conn[c].key)' = Bound(k)'
      BY <2>2, <2>3, Zenon DEF Bound
    <3> QED
      BY <1>5, <2>2, <2>3, <3>1, <3>2, <3>3, <3>4, <3>5, Zenon DEF Pending
  <2> QED
    BY <1>15, <1>16, <2>4, <2>5, <2>6, <2>7, Zenon
<1> QED
  BY <1>19, <1>20, Zenon

LEMMA StickyStep ==
  ASSUME RoutingInv, NEW c \in Conns, Sticky(c)
  PROVE  RoutingInv'
<1>1. conn[c].pc = "sticky" /\ affMu = NoConn /\ UNCHANGED <<snap, writes, purging, now>>
  BY Zenon DEF Sticky, writeVars
<1>2. conn[c].seen \in SUBSET Backends /\ ScopedPool(c) \subseteq conn[c].seen
  BY <1>1, AtSticky, Zenon
<1>3. CASE Drop(c) /\ UNCHANGED affVars
  BY <1>1, <1>3, Unlocked, Zenon DEF Drop, Return, NoConnection, writeVars
<1>4. ASSUME NEW be \in ScopedPool(c), Deliver(c, be, conn[c].seen), UNCHANGED affVars
      PROVE  RoutingInv'
  <2> DEFINE r == [pc |-> "picked", be |-> be, seen |-> conn[c].seen]
  <2>1. r \in Picked /\ r.be \in r.seen /\ conn' = [conn EXCEPT ![c] = r]
    BY <1>2, <1>4, Zenon DEF Picked, Deliver
  <2> HIDE DEF r
  <2> QED
    BY <1>1, <1>4, <2>1, Unlocked, Zenon DEF writeVars
<1>5. CASE HitAct(c)
  BY <1>5, HitStep, Zenon
<1>6. CASE MissAct(c)
  BY <1>6, MissStep, Zenon
<1> QED
  BY <1>1, <1>3, <1>4, <1>5, <1>6, ZenonT(30) DEF Sticky, HitAct, MissAct, ScopedPool

LEMMA TickStep ==
  ASSUME RoutingInv, Tick
  PROVE  RoutingInv'
<1>1. now' \in Nat /\ UNCHANGED <<snap, writes, purging, binds, count, affMu, caps, conn>>
  BY DEF RoutingInv, RoutingTypeOK, Tick, writeVars, affVars
<1> QED
  BY <1>1, ZenonT(40)
     DEF RoutingInv, RoutingTypeOK, Seen, PickedWasEligible, Holder, Pending, Recording, Purged, Counted,
              Picking, Locked, Sticks, Bound, AllBound

-----------------------------------------------------------------------------
(* The invariant and what it says. *)

LEMMA Initial == RoutingInit => RoutingInv
<1> SUFFICES ASSUME RoutingInit PROVE RoutingInv
  BY Zenon
<1> USE DEF RoutingInit
<1>1. RoutingTypeOK
  BY RoutingAssumption, Zenon DEF RoutingTypeOK, Rows
<1>2. \A c \in Conns : conn[c].pc = "idle"
  BY Zenon DEF NoConnection
<1>3. Seen /\ PickedWasEligible /\ Holder /\ Pending /\ Recording
  BY <1>2, Zenon DEF Seen, PickedWasEligible, Holder, Pending, Recording, Picking, Locked
<1>4. (\A k \in TableKeys : Bound(k) = {}) /\ AllBound = {}
  BY Zenon DEF Bound, AllBound
<1>5. Purged /\ Counted
  <2>1. caps.port \in Nat /\ caps.total \in Nat
    BY <1>1, Zenon DEF RoutingTypeOK
  <2> QED
    BY <1>4, <2>1, FS_EmptySet, SMTT(20) DEF Purged, Counted
<1> QED
  BY <1>1, <1>3, <1>5, Zenon DEF RoutingInv

LEMMA Preserved == RoutingInv /\ [RoutingNext]_routingVars => RoutingInv'
<1> SUFFICES ASSUME RoutingInv, [RoutingNext]_routingVars PROVE RoutingInv'
  BY Zenon
<1>1. ASSUME NEW k \in TableKeys, Write(k) PROVE RoutingInv'
  BY <1>1, WriteStep, Zenon
<1>2. CASE Purge
  BY <1>2, PurgeStep, Zenon
<1>3. CASE SweepExpired
  BY <1>3, SweepStep, Zenon
<1>4. CASE Tick
  BY <1>4, TickStep
<1>5. ASSUME NEW c \in Conns, Step(c) PROVE RoutingInv'
  BY <1>5, PickStep, StickyStep, ValidateStep, RecordStep, DialStep, Zenon DEF Step
<1>6. CASE UNCHANGED routingVars
  BY <1>6, ZenonT(40)
     DEF routingVars, writeVars, affVars, RoutingInv, RoutingTypeOK, Seen, PickedWasEligible, Holder,
         Pending,
              Recording, Purged, Counted, Picking, Locked, Sticks, Bound, AllBound
<1> QED
  BY <1>1, <1>2, <1>3, <1>4, <1>5, <1>6, Zenon DEF RoutingNext

\* No binding outlives the affinity it was made under once the writer that ended it is done,
\* and affinityCount is the number of bindings, within both caps (purgeAffinity,
\* dropBinding, SweepExpired and pickStickyScoped, pkg/proxy/affinity.go),
\* for any ports, clients, backends, connections and caps.
THEOREM BindingsFollow == RoutingSpec => []BindingsAccounted
<1>1. RoutingInv => BindingsAccounted
  BY Zenon DEF RoutingInv, Purged, Counted, Sticks, BindingsAccounted
<1> QED
  BY Initial, Preserved, <1>1, PTL DEF RoutingSpec

\* Whatever the writers store while it runs, a pick (PickSticky, PickStickyCluster) gives a
\* backend that its scope allowed at some moment of the pick.
THEOREM EligiblePicks == RoutingSpec => []PickedWasEligible
<1>1. RoutingInv => PickedWasEligible
  BY Zenon DEF RoutingInv
<1> QED
  BY Initial, Preserved, <1>1, PTL DEF RoutingSpec

-----------------------------------------------------------------------------
(* The aliases. *)

\* An operation in progress: its address is one the server admits, and was granted to
\* nobody since the operation began; an EnsureAlias has allocated its pod address, and
\* reaches the utun with the alias on lo0; only a pod address is owed a blackhole.
OpInv ==
  /\ op # Idle => op.ip \notin granted
  /\ op.kind \in {"ensure", "remove"} => op.ip \in cidr \cup VIPs
  /\ op.kind = "ensure" /\ op.ip \in cidr => Allocated(op.ip)
  /\ At("ensure", "utun") => meshUp /\ host[op.ip] = "alias" /\ op.ip \in cidr
  /\ At("remove", "utun") => op.ip \in cidr
  /\ At("remove", "install") => op.ip \in cidr

MeshInv ==
  /\ synced => meshUp
  /\ ~meshUp => utun = {}

IInv ==
  /\ TypeOK /\ OpInv /\ MeshInv
  /\ LivePodAllocated /\ TrackedLiveOnLo0 /\ GrantKept

-----------------------------------------------------------------------------

\* The initial states satisfy the inductive invariant.
LEMMA InitIInv == Init => IInv
<1> SUFFICES ASSUME Init PROVE IInv
  BY Zenon
<1> USE DEF Init
<1>1. TypeOK
  BY Zenon DEF TypeOK, Addrs, HostState, TrackState
<1>2. OpInv
  BY Zenon DEF OpInv, At, Idle
<1>3. MeshInv /\ LivePodAllocated /\ TrackedLiveOnLo0 /\ GrantKept
  BY Zenon DEF MeshInv, LivePodAllocated, LivePods, Allocated, TrackedLiveOnLo0, GrantKept
<1> QED
  BY <1>1, <1>2, <1>3, Zenon DEF IInv

\* Every step of EnsureAlias keeps the invariant.
LEMMA EnsureKeepsIInv ==
  ASSUME IInv, (\E ip \in Addrs : EnsureAlias(ip)) \/ EnsureClear \/ EnsureLo0 \/ EnsureUtun
  PROVE  IInv'
<1> USE CidrAssumption DEF IInv, Addrs
<1>1. CASE \E ip \in Addrs : EnsureAlias(ip)
  <2>1. PICK ip \in Addrs : EnsureAlias(ip)
    BY <1>1, Zenon
  <2> USE <2>1 DEF EnsureAlias, Begin
  <2>2. TypeOK'
    BY Zenon DEF TypeOK, Ops, Steps, IsPod
  <2>3. OpInv'
    BY Zenon DEF OpInv, TypeOK, At, IsPod, Allocated, Idle
  <2>4. MeshInv'
    BY Zenon DEF MeshInv
  <2>5. LivePodAllocated'
    BY Zenon DEF LivePodAllocated, LivePods, Allocated, TypeOK
  <2>6. TrackedLiveOnLo0'
    BY Zenon DEF TrackedLiveOnLo0, Idle
  <2>7. GrantKept'
    BY Zenon DEF GrantKept, IsPod
  <2> QED
    BY <2>2, <2>3, <2>4, <2>5, <2>6, <2>7, Zenon
<1>2. CASE EnsureClear
  <2> USE <1>2 DEF EnsureClear, At, Goto, Cleared
  <2>2. TypeOK'
    BY DEF TypeOK, Ops, Steps, HostState, Idle
  <2>3. OpInv'
    BY DEF OpInv, TypeOK, Allocated, Idle, Ops
  <2>4. MeshInv'
    BY Zenon DEF MeshInv
  <2>5. LivePodAllocated'
    BY DEF LivePodAllocated, LivePods, Allocated, TypeOK
  <2>6. TrackedLiveOnLo0'
    BY ZenonT(40) DEF TrackedLiveOnLo0, Idle, TypeOK, Ops
  <2>7. GrantKept'
    BY DEF GrantKept, IsPod, TypeOK, OpInv, Idle
  <2> QED
    BY <2>2, <2>3, <2>4, <2>5, <2>6, <2>7, Zenon
<1>3. CASE EnsureLo0
  <2> USE <1>3 DEF EnsureLo0, At, Goto, Grant, IsPod
  <2>2. TypeOK'
    BY DEF TypeOK, Ops, Steps, HostState, TrackState, Idle, OpInv
  <2>3. OpInv'
    BY DEF OpInv, TypeOK, Allocated, Idle, Ops
  <2>4. MeshInv'
    BY Zenon DEF MeshInv
  <2>5. LivePodAllocated'
    BY DEF LivePodAllocated, LivePods, Allocated, TypeOK, OpInv
  <2>6. TrackedLiveOnLo0'
    BY Zenon DEF TrackedLiveOnLo0, Idle, TypeOK, Ops
  <2>7. GrantKept'
    BY DEF GrantKept, TypeOK, OpInv, Idle, MeshInv
  <2> QED
    BY <2>2, <2>3, <2>4, <2>5, <2>6, <2>7, Zenon
<1>4. CASE EnsureUtun
  <2> USE <1>4 DEF EnsureUtun, At, Grant, IsPod
  <2>2. TypeOK'
    BY DEF TypeOK, Ops, Steps, Idle, OpInv
  <2>3. OpInv'
    BY Zenon DEF OpInv, TypeOK, Allocated, Idle, Ops
  <2>4. MeshInv'
    BY Zenon DEF MeshInv, OpInv
  <2>5. LivePodAllocated'
    BY Zenon DEF LivePodAllocated, LivePods, Allocated, TypeOK
  <2>6. TrackedLiveOnLo0'
    BY Zenon DEF TrackedLiveOnLo0, Idle
  <2>7. GrantKept'
    BY DEF GrantKept, TypeOK, OpInv, Idle
  <2> QED
    BY <2>2, <2>3, <2>4, <2>5, <2>6, <2>7, Zenon
<1> QED
  BY <1>1, <1>2, <1>3, <1>4, Zenon

\* Every step of RemoveAlias keeps the invariant.
LEMMA RemoveKeepsIInv ==
  ASSUME IInv, (\E ip \in Addrs : RemoveAlias(ip)) \/ RemoveUtun \/ RemoveLo0 \/ RemoveInstall
  PROVE  IInv'
<1> USE CidrAssumption DEF IInv, Addrs
<1>1. CASE \E ip \in Addrs : RemoveAlias(ip)
  <2>1. PICK ip \in Addrs : RemoveAlias(ip)
    BY <1>1
  <2> USE <2>1 DEF RemoveAlias, Begin
  <2>2. TypeOK'
    BY Zenon DEF TypeOK, Ops, Steps, IsPod
  <2>3. OpInv'
    BY Zenon DEF OpInv, TypeOK, At, IsPod, Allocated, Idle
  <2>4. MeshInv'
    BY Zenon DEF MeshInv
  <2>5. LivePodAllocated'
    BY Zenon DEF LivePodAllocated, LivePods, Allocated, TypeOK
  <2>6. TrackedLiveOnLo0'
    BY Zenon DEF TrackedLiveOnLo0, Idle
  <2>7. GrantKept'
    BY Zenon DEF GrantKept, IsPod
  <2> QED
    BY <2>2, <2>3, <2>4, <2>5, <2>6, <2>7, Zenon
<1>2. CASE RemoveUtun
  <2> USE <1>2 DEF RemoveUtun, At, Goto
  <2>2. TypeOK'
    BY DEF TypeOK, Ops, Steps, Idle
  <2>3. OpInv'
    BY DEF OpInv, TypeOK, Allocated, Idle, Ops
  <2>4. MeshInv'
    BY Zenon DEF MeshInv
  <2>5. LivePodAllocated'
    BY Zenon DEF LivePodAllocated, LivePods, Allocated, TypeOK
  <2>6. TrackedLiveOnLo0'
    BY Zenon DEF TrackedLiveOnLo0, Idle, TypeOK, Ops
  <2>7. GrantKept'
    BY DEF GrantKept, IsPod, TypeOK, OpInv, Idle
  <2> QED
    BY <2>2, <2>3, <2>4, <2>5, <2>6, <2>7, Zenon
<1>3. CASE RemoveLo0
  <2>1. op.ip \in Addrs /\ op \in Ops
    BY <1>3 DEF RemoveLo0, At, OpInv, TypeOK, Idle
  <2>2. PICK removed \in BOOLEAN :
          /\ removed => host' = [host EXCEPT ![op.ip] = "none"]
          /\ ~removed => host' = host
          /\ AfterUnalias(removed)
    BY <1>3, Zenon DEF RemoveLo0
  <2> USE <1>3, <2>1, <2>2 DEF RemoveLo0, At, AfterUnalias, Goto, IsPod
  <2>3. TypeOK'
    BY DEF TypeOK, Ops, Steps, Idle, HostState, TrackState
  <2>4. OpInv'
    BY DEF OpInv, TypeOK, Allocated, Idle, Ops
  <2>5. MeshInv'
    BY Zenon DEF MeshInv
  <2>6. LivePodAllocated'
    BY DEF LivePodAllocated, LivePods, Allocated, TypeOK
  <2>7. TrackedLiveOnLo0'
    BY SMTT(20) DEF TrackedLiveOnLo0, Idle, TypeOK, Ops
  <2>8. GrantKept'
    BY DEF GrantKept, TypeOK, OpInv, Idle
  <2> QED
    BY <2>3, <2>4, <2>5, <2>6, <2>7, <2>8, Zenon
<1>4. CASE RemoveInstall
  <2>1. op.ip \in cidr /\ op.ip \in Addrs /\ op.ip \notin granted
    BY <1>4 DEF RemoveInstall, At, OpInv, TypeOK, Idle
  <2>2. PICK r \in InstallResults(host[op.ip]) :
          /\ host' = [host EXCEPT ![op.ip] = r[1]]
          /\ tracked' = [tracked EXCEPT ![op.ip] = IF r[2] THEN "pending" ELSE "no"]
          /\ served' = IF r[2] THEN served ELSE served \ {op.ip}
    BY <1>4, Zenon DEF RemoveInstall
  <2>3. /\ r[1] \in HostState
        /\ r[1] = "alias" => tracked'[op.ip] = "pending"
        /\ tracked'[op.ip] \in {"pending", "no"}
    <3>1. host[op.ip] \in HostState /\ op.ip \in DOMAIN tracked
      BY <2>1, Zenon DEF TypeOK
    <3>2. \/ r = <<host[op.ip], TRUE>>
          \/ r = <<"none", TRUE>>
          \/ r = <<"blackhole", FALSE>>
      BY <2>2, Zenon DEF InstallResults
    <3>3. CASE r = <<host[op.ip], TRUE>>
      BY <3>1, <3>3, <2>2, Zenon
    <3>4. CASE r = <<"none", TRUE>>
      BY <3>1, <3>4, <2>2, Zenon DEF HostState
    <3>5. CASE r = <<"blackhole", FALSE>>
      BY <3>1, <3>5, <2>2, Zenon DEF HostState
    <3> QED
      BY <3>2, <3>3, <3>4, <3>5, Zenon
  <2>4. op' = Idle /\ UNCHANGED <<cidr, utun, meshUp, known, pods, granted, synced>>
    BY <1>4, Zenon DEF RemoveInstall
  <2> USE <2>1, <2>2, <2>3, <2>4
  <2>5. TypeOK'
    BY Zenon DEF TypeOK, TrackState
  <2>6. OpInv'
    BY Zenon DEF OpInv, At, Idle
  <2>7. MeshInv'
    BY Zenon DEF MeshInv
  <2>8. LivePodAllocated'
    BY Zenon DEF LivePodAllocated, LivePods, Allocated, TypeOK
  <2>9. TrackedLiveOnLo0'
    BY Zenon DEF TrackedLiveOnLo0, TypeOK
  <2>10. GrantKept'
    BY ZenonT(40) DEF GrantKept, TypeOK, IsPod
  <2> QED
    BY <2>5, <2>6, <2>7, <2>8, <2>9, <2>10, Zenon
<1> QED
  BY <1>1, <1>2, <1>3, <1>4

\* A sweep of blackholes leaves every alias alone and every address in a known state.
LEMMA SweepEffect ==
  ASSUME TypeOK, NEW c \in Cidrs, SweepBlackholes(c)
  PROVE  /\ host' \in [Addrs -> HostState]
         /\ \A ip \in Addrs : host[ip] = "alias" <=> host'[ip] = "alias"
  BY Zenon DEF SweepBlackholes, TypeOK, HostState

\* The mesh operations, an adoption, a restart and the kernel keep the invariant.
LEMMA MeshKeepsIInv ==
  ASSUME IInv,
         \/ ConfigureMesh \/ ConfigureDevice \/ RemoveMesh \/ Restart
         \/ \E c \in Cidrs : SetNodePodCIDR(c)
         \/ \E ip \in Addrs : CloneRoute(ip)
  PROVE  IInv'
<1> USE CidrAssumption DEF IInv, Addrs
<1>1. CASE ConfigureMesh
  <2> USE <1>1 DEF ConfigureMesh, Begin, LivePods
  <2>1. TypeOK'
    BY Zenon DEF TypeOK, Ops, Steps
  <2>2. OpInv'
    BY Zenon DEF OpInv, At
  <2>3. MeshInv' /\ TrackedLiveOnLo0' /\ GrantKept'
    BY Zenon DEF MeshInv, TrackedLiveOnLo0, GrantKept, IsPod, Idle
  <2>4. LivePodAllocated'
    BY Zenon DEF LivePodAllocated, Allocated
  <2> QED
    BY <2>1, <2>2, <2>3, <2>4, Zenon
<1>2. CASE ConfigureDevice
  <2> USE <1>2 DEF ConfigureDevice, At, LivePods, ReconcileResults
  <2>1. TypeOK'
    BY Zenon DEF TypeOK
  <2>2. OpInv'
    BY Zenon DEF OpInv, Idle
  <2>3. MeshInv' /\ TrackedLiveOnLo0' /\ GrantKept'
    BY DEF MeshInv, TrackedLiveOnLo0, GrantKept, IsPod, TypeOK
  <2>4. LivePodAllocated'
    BY Zenon DEF LivePodAllocated, Allocated
  <2> QED
    BY <2>1, <2>2, <2>3, <2>4, Zenon
<1>3. CASE RemoveMesh
  <2> USE <1>3 DEF RemoveMesh, LivePods
  <2>1. TypeOK'
    BY Zenon DEF TypeOK
  <2>2. OpInv'
    BY Zenon DEF OpInv, Idle, At
  <2>3. MeshInv' /\ TrackedLiveOnLo0' /\ GrantKept'
    BY Zenon DEF MeshInv, TrackedLiveOnLo0, GrantKept, IsPod, TypeOK
  <2>4. LivePodAllocated'
    BY Zenon DEF LivePodAllocated, Allocated
  <2> QED
    BY <2>1, <2>2, <2>3, <2>4, Zenon
<1>4. CASE Restart
  <2>1. PICK c \in Cidrs : cidr' = c /\ SweepBlackholes(c)
    BY <1>4, Zenon DEF Restart
  <2>2. /\ host' \in [Addrs -> HostState]
        /\ \A ip \in Addrs : host[ip] = "alias" <=> host'[ip] = "alias"
    BY <2>1, SweepEffect, Zenon
  <2> USE <1>4, <2>1, <2>2 DEF Restart
  <2>3. TypeOK'
    BY Zenon DEF TypeOK, TrackState
  <2>4. OpInv'
    BY Zenon DEF OpInv, Idle, At
  <2>5. MeshInv' /\ TrackedLiveOnLo0' /\ GrantKept' /\ LivePodAllocated'
    BY Zenon DEF MeshInv, TrackedLiveOnLo0, GrantKept, TypeOK, LivePodAllocated, Allocated
  <2> QED
    BY <2>3, <2>4, <2>5, Zenon
<1>5. CASE \E c \in Cidrs : SetNodePodCIDR(c)
  <2>1. PICK c \in Cidrs : SetNodePodCIDR(c)
    BY <1>5, Zenon
  <2>2. /\ host' \in [Addrs -> HostState]
        /\ \A ip \in Addrs : host[ip] = "alias" <=> host'[ip] = "alias"
    BY <2>1, SweepEffect, Zenon DEF SetNodePodCIDR, TypeOK
  <2> USE <2>1, <2>2 DEF SetNodePodCIDR
  <2>3. TypeOK'
    BY Zenon DEF TypeOK, TrackState, MeshInv
  <2>4. OpInv'
    BY Zenon DEF OpInv, Idle, At
  <2>5. MeshInv' /\ TrackedLiveOnLo0' /\ GrantKept' /\ LivePodAllocated'
    BY Zenon DEF MeshInv, TrackedLiveOnLo0, GrantKept, TypeOK, LivePodAllocated, Allocated
  <2> QED
    BY <2>3, <2>4, <2>5, Zenon
<1>6. CASE \E ip \in Addrs : CloneRoute(ip)
  <2>1. PICK ip \in Addrs : CloneRoute(ip)
    BY <1>6, Zenon
  <2> USE <2>1 DEF CloneRoute, LivePods
  <2>2. TypeOK'
    BY Zenon DEF TypeOK, HostState
  <2>3. OpInv'
    BY Zenon DEF OpInv, At, Allocated, TypeOK
  <2>4. MeshInv' /\ TrackedLiveOnLo0' /\ GrantKept' /\ LivePodAllocated'
    BY DEF MeshInv, TrackedLiveOnLo0, GrantKept, TypeOK, LivePodAllocated, Allocated, IsPod
  <2> QED
    BY <2>2, <2>3, <2>4, Zenon
<1> QED
  BY <1>1, <1>2, <1>3, <1>4, <1>5, <1>6, Zenon

-----------------------------------------------------------------------------

\* IInv is inductive.
LEMMA NextKeepsIInv == IInv /\ [Next]_vars => IInv'
<1> SUFFICES ASSUME IInv, [Next]_vars PROVE IInv'
  BY Zenon
<1>1. CASE UNCHANGED vars
  BY <1>1, ZenonT(40)
     DEF vars, IInv, TypeOK, OpInv, MeshInv, LivePodAllocated, TrackedLiveOnLo0, GrantKept,
     LivePods, Allocated, At, IsPod
<1>2. CASE Next
  BY <1>2, EnsureKeepsIInv, RemoveKeepsIInv, MeshKeepsIInv, Zenon DEF Next, Commands
<1> QED
  BY <1>1, <1>2, Zenon

\* The inductive invariant holds in every reachable state of the executor.
THEOREM Invariance == Spec => []IInv
  BY InitIInv, NextKeepsIInv, PTL DEF Spec

\* The variables keep their types: no address outside the /24 is ever on the utun or
\* in the allocation, whatever identity changes happen.
THEOREM TypeCorrect == Spec => []TypeOK
<1>1. IInv => TypeOK
  BY Zenon DEF IInv
<1> QED
  BY <1>1, Invariance, PTL

\* At no step of any operation is a live pod address open to a SYN refusal, unless
\* its removal is pending.
THEOREM LivePodIsAllocated == Spec => []LivePodAllocated
<1>1. IInv => LivePodAllocated
  BY Zenon DEF IInv
<1> QED
  BY <1>1, Invariance, PTL

\* An alias tracked as live is on lo0.
THEOREM TrackedIsOnLo0 == Spec => []TrackedLiveOnLo0
<1>1. IInv => TrackedLiveOnLo0
  BY Zenon DEF IInv
<1> QED
  BY <1>1, Invariance, PTL

\* A granted alias survives everything but the client's next call for it.
THEOREM GrantIsKept == Spec => []GrantKept
<1>1. IInv => GrantKept
  BY Zenon DEF IInv
<1> QED
  BY <1>1, Invariance, PTL

\* A step that takes an address off lo0 is a step of its own RemoveAlias.
LEMMA UnaliasStep ==
  ASSUME IInv, [Next]_vars, NEW ip \in Addrs, host[ip] = "alias", host'[ip] # "alias"
  PROVE  op.kind = "remove" /\ op.ip = ip
<1> USE CidrAssumption DEF IInv
<1>1. CASE UNCHANGED vars
  BY <1>1, Zenon DEF vars
<1>2. CASE Restart \/ \E c \in Cidrs : SetNodePodCIDR(c)
  <2>1. PICK c \in Cidrs : SweepBlackholes(c)
    BY <1>2, Zenon DEF Restart, SetNodePodCIDR, TypeOK
  <2> QED
    BY <2>1, SweepEffect, Zenon
<1>3. CASE \E x \in Addrs : EnsureAlias(x) \/ RemoveAlias(x) \/ CloneRoute(x)
  BY <1>3 DEF EnsureAlias, RemoveAlias, CloneRoute, TypeOK
<1>4. CASE EnsureClear \/ EnsureLo0 \/ EnsureUtun
  <2>1. host \in [Addrs -> HostState]
    BY Zenon DEF TypeOK
  <2>2. CASE EnsureClear
    BY <2>1, <2>2, Zenon DEF EnsureClear, Cleared
  <2>3. CASE EnsureLo0
    BY <2>1, <2>3, Zenon DEF EnsureLo0
  <2>4. CASE EnsureUtun
    BY <2>4, Zenon DEF EnsureUtun
  <2> QED
    BY <1>4, <2>2, <2>3, <2>4, Zenon
<1>5. CASE RemoveUtun \/ RemoveLo0 \/ RemoveInstall
  <2>1. host \in [Addrs -> HostState]
    BY DEF TypeOK
  <2>2. op.kind = "remove"
    BY <1>5, Zenon DEF RemoveUtun, RemoveLo0, RemoveInstall, At
  <2>3. (\E x : host' = [host EXCEPT ![op.ip] = x]) \/ host' = host
    BY <1>5, Zenon DEF RemoveUtun, RemoveLo0, RemoveInstall
  <2> QED
    BY <2>1, <2>2, <2>3, Zenon
<1>6. CASE ConfigureMesh \/ ConfigureDevice \/ RemoveMesh
  BY <1>6, Zenon DEF ConfigureMesh, ConfigureDevice, RemoveMesh
<1> QED
  BY <1>1, <1>2, <1>3, <1>4, <1>5, <1>6, Zenon DEF Next, Commands

\* Only a RemoveAlias of the address takes an alias off lo0.
THEOREM OnlyRemove == Spec => OnlyRemoveUnaliases
<1>1. IInv /\ [Next]_vars =>
        [\A ip \in Addrs : host[ip] = "alias" /\ host'[ip] # "alias"
           => op.kind = "remove" /\ op.ip = ip]_vars
  BY UnaliasStep, Zenon
<1> QED
  BY <1>1, Invariance, PTL DEF Spec, OnlyRemoveUnaliases

=============================================================================
