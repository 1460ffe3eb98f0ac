----------------------------- MODULE NodePortSet -----------------------------
(***************************************************************************)
(* The addresses the NodePorts listen on (pkg/proxy/nodeportset.go), and   *)
(* how a spec selects them (pkg/proxy/nodeportaddrs.go).                   *)
(*                                                                         *)
(* One lock guards the set. An open binds address by address under it; a   *)
(* prepared swap keeps it until Commit or Abort. An address binds or       *)
(* fails; the kernel's listeners are the set lns.                          *)
(***************************************************************************)
EXTENDS Naturals, FiniteSets

CONSTANTS
  NodePorts,      \* the ports of the workers that open and close them
  Ifaces,         \* the host's interfaces: up, loopback, addrs
  NodeAddr,       \* this node's own address
  Loopback,       \* 127.0.0.1
  Wildcard,       \* the IPv4 wildcard
  NpSpecs,        \* address specs: CIDRs, as the addresses inside, and the preset
  NoGroup, Nobody,
  MaxNpFaults, MaxSwaps

VARIABLES
  npAddrs,    \* nodePortSet.addrs: empty is the wildcard
  groups,     \* of each port, the addresses of its group, or NoGroup
  lns,        \* the listeners that are open, by port and address
  npLock,     \* who holds the lock: Nobody, a worker, or "swap"
  todo,       \* what the holder has still to bind
  added,      \* what it has bound
  npWant,     \* the set a swap prepares
  npFaults, swaps

npVars == <<npAddrs, groups, lns, npLock, todo, added, npWant, npFaults, swaps>>

(* bindAddrs *)
BindAddrs(addrs) == IF addrs = {} THEN {Wildcard} ELSE addrs

(* HostAddrs *)
HostAddrs == {Loopback} \cup UNION {i.addrs : i \in {x \in Ifaces : x.up /\ ~x.loopback}}

(* ResolveNodePortAddresses: an empty spec is the wildcard. *)
ResolveNodePortAddresses(spec) ==
  (IF spec.local THEN {Loopback, NodeAddr} ELSE {})
    \cup {a \in {Loopback, NodeAddr} \cup HostAddrs : \E prefix \in spec.prefixes : a \in prefix}

(* What a group may listen on. *)
ListenAddrs == {Loopback, NodeAddr, Wildcard} \cup HostAddrs

(* The owners of the lock are told apart, and the absence of a group from a group. *)
ASSUME NodePortAssumption ==
  /\ Nobody \notin NodePorts \cup {"swap"} /\ "swap" \notin NodePorts
  /\ \A S \in SUBSET ListenAddrs : NoGroup # S

(* A spec that selects nothing is refused, unless it is empty. *)
Usable(spec) == (spec.local \/ spec.prefixes # {}) => ResolveNodePortAddresses(spec) # {}

NpInit ==
  /\ \E spec \in NpSpecs : Usable(spec) /\ npAddrs = ResolveNodePortAddresses(spec)
  /\ groups = [p \in NodePorts |-> NoGroup]
  /\ lns = {}
  /\ npLock = Nobody
  /\ todo = {} /\ added = {} /\ npWant = {}
  /\ npFaults = 0 /\ swaps = 0

Opened == {p \in NodePorts : groups[p] # NoGroup}
Unlocked == npLock' = Nobody /\ todo' = {} /\ added' = {} /\ npWant' = {}

-----------------------------------------------------------------------------
(* bindAll, of whoever holds the lock. *)

BindOne(x) ==
  /\ x \in todo
  /\ lns' = lns \cup {x}
  /\ todo' = todo \ {x}
  /\ added' = added \cup {x}
  /\ UNCHANGED <<npAddrs, groups, npLock, npWant, npFaults, swaps>>

(* Mutant: the listeners that were bound before the one that fails stay open. *)
BindFailsLeaks(x) ==
  /\ x \in todo /\ npFaults < MaxNpFaults
  /\ npFaults' = npFaults + 1
  /\ Unlocked
  /\ UNCHANGED <<npAddrs, groups, lns, swaps>>

(* One bind fails: all that were made are closed, and the old set stays. *)
BindOneFails(x) ==
  /\ x \in todo /\ npFaults < MaxNpFaults
  /\ npFaults' = npFaults + 1
  /\ lns' = lns \ added
  /\ Unlocked
  /\ UNCHANGED <<npAddrs, groups, swaps>>

-----------------------------------------------------------------------------
(* A worker opens and closes its group. *)

OpenGroup(p) ==
  /\ npLock = Nobody /\ groups[p] = NoGroup
  /\ npLock' = p
  /\ todo' = {p} \X BindAddrs(npAddrs)
  /\ UNCHANGED <<npAddrs, groups, lns, added, npWant, npFaults, swaps>>

GroupOpened(p) ==
  /\ npLock = p /\ todo = {}
  /\ groups' = [groups EXCEPT ![p] = {x[2] : x \in added}]
  /\ Unlocked
  /\ UNCHANGED <<npAddrs, lns, npFaults, swaps>>

CloseGroup(p) ==
  /\ npLock = Nobody /\ groups[p] # NoGroup
  /\ lns' = lns \ ({p} \X groups[p])
  /\ groups' = [groups EXCEPT ![p] = NoGroup]
  /\ UNCHANGED <<npAddrs, npLock, todo, added, npWant, npFaults, swaps>>

-----------------------------------------------------------------------------
(* The swap. *)

PrepareNodePortAddresses ==
  /\ npLock = Nobody /\ swaps < MaxSwaps
  /\ swaps' = swaps + 1
  /\ npLock' = "swap"
  /\ \E spec \in NpSpecs :
       /\ Usable(spec)
       /\ npWant' = ResolveNodePortAddresses(spec)
  /\ todo' = UNION {{p} \X (BindAddrs(npWant') \ groups[p]) : p \in Opened}
  /\ UNCHANGED <<npAddrs, groups, lns, added, npFaults>>

Commit ==
  LET kept(p) == groups[p] \cap BindAddrs(npWant)
  IN /\ npLock = "swap" /\ todo = {}
     /\ lns' = lns \ UNION {{p} \X (groups[p] \ kept(p)) : p \in Opened}
     /\ groups' = [p \in NodePorts |->
                     IF p \in Opened THEN kept(p) \cup {a \in BindAddrs(npWant) : <<p, a>> \in added}
                     ELSE NoGroup]
     /\ npAddrs' = npWant
     /\ Unlocked
     /\ UNCHANGED <<npFaults, swaps>>

Abort ==
  /\ npLock = "swap" /\ todo = {}
  /\ lns' = lns \ added
  /\ Unlocked
  /\ UNCHANGED <<npAddrs, groups, npFaults, swaps>>

-----------------------------------------------------------------------------
NpNext ==
  \/ \E p \in NodePorts : OpenGroup(p) \/ GroupOpened(p) \/ CloseGroup(p)
  \/ \E x \in todo : BindOne(x) \/ BindOneFails(x)
  \/ PrepareNodePortAddresses \/ Commit \/ Abort

-----------------------------------------------------------------------------
(* Through opens, closes and swaps that bind some addresses and fail on      *)
(* another, every NodePort that is open listens on the whole set in force,   *)
(* and on nothing else but what a swap under way has added; every listener   *)
(* belongs to a group or to the bind under way (nodeportset.go: a swap       *)
(* "never leaves a port unbound", and a failure changes nothing).            *)
NodePortsBound ==
  /\ \A p \in Opened : groups[p] = BindAddrs(npAddrs)
  /\ lns = added \cup UNION {{p} \X groups[p] : p \in Opened}

=============================================================================
