------------------------------- MODULE PodNet -------------------------------
(***************************************************************************)
(* The pod network of one node (pkg/podnet): the IPAM allocator, the       *)
(* Network that binds pods to addresses, the direct lo0 alias manager, and *)
(* the crash-reconcile surface, over the kernel's /32 state.               *)
(*                                                                         *)
(* allocated, next, byPod, inverse and tracked are the process's memory    *)
(* and are lost by a crash; host is kernel state and box is the runtime's  *)
(* record of the pods that run (PodBox.pod_ip): both survive. Every        *)
(* operation holds Network.mu, so it is one step; a crash may cut it after *)
(* any of its kernel requests.                                             *)
(***************************************************************************)
EXTENDS Integers, FiniteSets, Lo0Alias

CONSTANTS
  Pods,     \* pod identities
  First,    \* the first usable host of the node /24 (.2 in the code)
  Last,     \* the last usable host (.254)
  NoPod,    \* no pod
  NoIP      \* no address

ASSUME RangeAssumption == First \in Nat \ {0} /\ Last \in Nat /\ First <= Last
ASSUME NoneAssumption == NoPod \notin Pods /\ NoIP \notin Nat

Usable == First .. Last
NodeIP == First - 1                 \* the reserved mesh-egress host, .1
Addrs == NodeIP .. Last
Backends == {"host", "vm"}
NoEntry == [ip |-> NoIP, backend |-> "none"]
Entries == [ip : Usable, backend : Backends]

VARIABLES
  allocated,  \* Allocator.allocated
  next,       \* Allocator.next, the scan cursor
  byPod,      \* Network.byPod
  inverse,    \* Network.inverse
  tracked,    \* lo0AliasManager.aliased
  host,       \* the kernel's /32 state of each address
  granted,    \* the pods whose last call gave the runtime their address
  box,        \* the address recorded for each running pod
  phase,      \* the caller reconciles, then serves
  ret         \* what the last call returned

vars == <<allocated, next, byPod, inverse, tracked, host, granted, box, phase, ret>>

Calls == {"Setup", "Teardown", "Reattach", "Sweep", "none"}
Results == {"ok", "alias", "exhausted", "mismatch", "rebind", "in use", "range"}
NoRet == [call |-> "none", ip |-> NoIP, res |-> "ok"]
Return(c, a, r) == [call |-> c, ip |-> a, res |-> r]

Bound(p) == byPod[p] # NoEntry
Running(p) == box[p] # NoIP

TypeOK ==
  /\ allocated \in SUBSET Usable
  /\ next \in First .. (Last + 1)
  /\ byPod \in [Pods -> Entries \cup {NoEntry}]
  /\ inverse \in [Usable -> Pods \cup {NoPod}]
  /\ tracked \in [Addrs -> TrackState]
  /\ host \in [Addrs -> HostState]
  /\ granted \in SUBSET Pods
  /\ box \in [Pods -> Usable \cup {NoIP}]
  /\ phase \in {"reconciling", "serving"}
  /\ ret \in [call : Calls, ip : Addrs \cup {NoIP}, res : Results]

-----------------------------------------------------------------------------
(* Allocator. *)

\* The i-th address an Allocate probes: from the cursor, wrapping past Last.
Probe(i) ==
  LET start == IF next > Last THEN First ELSE next
      ip == start + i
  IN  IF ip > Last THEN ip - (Last - First + 1) ELSE ip

\* Allocate scans usableCount() addresses and takes the first free one: ip is free,
\* and every address probed before it is taken.
AllocateFinds(ip) ==
  \E i \in 0 .. (Last - First) :
    /\ Probe(i) = ip
    /\ ip \notin allocated
    /\ \A j \in 0 .. (i - 1) : Probe(j) \in allocated

\* The cursor after ip is taken: candidate.Next(), which may be one past Last.
NextCursor(ip) == ip + 1

\* Allocate finds nothing in a whole scan.
PoolExhausted == \A i \in 0 .. (Last - First) : Probe(i) \in allocated

-----------------------------------------------------------------------------
(* Network. *)

\* Mutant of Bind: the binding is recorded, the address is not reserved.
BindUnreserved(p, ip, b) ==
  /\ granted' = granted \cup {p}
  /\ allocated' = allocated
  /\ byPod' = [byPod EXCEPT ![p] = [ip |-> ip, backend |-> b]]
  /\ inverse' = [inverse EXCEPT ![ip] = p]

\* The reservation and the two maps, recorded together under mu.
Bind(p, ip, b) ==
  /\ granted' = granted \cup {p}
  /\ allocated' = allocated \cup {ip}
  /\ byPod' = [byPod EXCEPT ![p] = [ip |-> ip, backend |-> b]]
  /\ inverse' = [inverse EXCEPT ![ip] = p]

\* alias.Ensure(ip): o is the way it went.
Ensure(ip, o) ==
  /\ o \in EnsureOutcomes(host[ip], tracked[ip], ip \in Usable)
  /\ host' = [host EXCEPT ![ip] = o.h]
  /\ tracked' = [tracked EXCEPT ![ip] = o.t]

Remove(ip, o) ==
  /\ o \in RemoveOutcomes(host[ip], tracked[ip], ip \in Usable)
  /\ host' = [host EXCEPT ![ip] = o.h]
  /\ tracked' = [tracked EXCEPT ![ip] = o.t]

EnsureNodeAlias ==
  /\ \E o \in Outcome : Ensure(NodeIP, o)
  /\ ret' = NoRet
  /\ UNCHANGED <<allocated, next, byPod, inverse, granted, box, phase>>

\* A pod already bound keeps its address: its alias is ensured again.
SetupBound(p, b) ==
  /\ Bound(p)
  /\ IF byPod[p].backend # b
     THEN /\ ret' = Return("Setup", NoIP, "mismatch")
          /\ UNCHANGED <<host, tracked, granted>>
     ELSE \E o \in Outcome :
            /\ Ensure(byPod[p].ip, o)
            /\ ret' = IF o.err THEN Return("Setup", NoIP, "alias")
                               ELSE Return("Setup", byPod[p].ip, "ok")
            /\ granted' = IF o.err THEN granted ELSE granted \cup {p}
  /\ UNCHANGED <<allocated, next, byPod, inverse>>

\* A fresh pod is allocated an address and aliased; if the alias fails the address
\* is released, the cursor staying past it.
SetupFresh(p, b) ==
  /\ ~Bound(p)
  /\ \E ip \in Usable, o \in Outcome :
       /\ AllocateFinds(ip)
       /\ next' = NextCursor(ip)
       /\ Ensure(ip, o)
       /\ IF o.err
          THEN /\ ret' = Return("Setup", NoIP, "alias")
               /\ UNCHANGED <<allocated, byPod, inverse, granted>>
          ELSE /\ ret' = Return("Setup", ip, "ok")
               /\ Bind(p, ip, b)

SetupExhausted(p) ==
  /\ ~Bound(p)
  /\ PoolExhausted
  /\ ret' = Return("Setup", NoIP, "exhausted")
  /\ UNCHANGED <<allocated, next, byPod, inverse, tracked, host, granted>>

\* Setup and SetupGuest: setup under the backend b.
Setup(p, b) ==
  /\ phase = "serving"
  /\ SetupBound(p, b) \/ SetupFresh(p, b) \/ SetupExhausted(p)
  /\ UNCHANGED <<box, phase>>

\* The runtime removes the network of a pod once its processes are stopped. Only a
\* Remove that works releases the address; an unbound pod is a no-op success.
Teardown(p) ==
  /\ phase = "serving"
  /\ ~Running(p)
  /\ IF ~Bound(p)
     THEN /\ ret' = Return("Teardown", NoIP, "ok")
          /\ UNCHANGED <<allocated, byPod, inverse, host, tracked>>
     ELSE LET ip == byPod[p].ip IN
          \E o \in Outcome :
            /\ Remove(ip, o)
            /\ IF o.err
               THEN /\ ret' = Return("Teardown", ip, "alias")
                    /\ UNCHANGED <<allocated, byPod, inverse>>
               ELSE /\ ret' = Return("Teardown", ip, "ok")
                    /\ allocated' = allocated \ {ip}
                    /\ byPod' = [byPod EXCEPT ![p] = NoEntry]
                    /\ inverse' = [inverse EXCEPT ![ip] = NoPod]
  /\ granted' = granted \ {p}
  /\ UNCHANGED <<next, box, phase>>

-----------------------------------------------------------------------------
(* Crash reconcile. *)

\* What the caller may ask to reattach: the recorded address of a pod that runs, or
\* any other record that does not claim the address of a running pod not yet
\* reattached (the caller reads the records of the pods that still run).
Recorded(p, ip) ==
  /\ Running(p) /\ ~Bound(p) => ip = box[p]
  /\ \A q \in Pods \ {p} : box[q] = ip => Bound(q)

\* Why a reattach is refused, in the order of the code's checks ("ok": it is not).
Refusal(p, ip, b) ==
  IF Bound(p)
  THEN IF b = "vm" /\ byPod[p].backend # "vm" THEN "mismatch"
       ELSE IF byPod[p].ip # ip THEN "rebind" ELSE "ok"
  ELSE IF ip \notin Usable THEN "range"
       ELSE IF inverse[ip] # NoPod \/ ip \in allocated THEN "in use" ELSE "ok"

ReattachRefused(p, ip, b) ==
  /\ Refusal(p, ip, b) # "ok"
  /\ ret' = Return("Reattach", NoIP, Refusal(p, ip, b))
  /\ UNCHANGED <<allocated, byPod, inverse, tracked, host, granted>>

\* The same binding again: its alias is ensured again.
ReattachBound(p, ip, b) ==
  /\ Refusal(p, ip, b) = "ok"
  /\ Bound(p)
  /\ \E o \in Outcome :
       /\ Ensure(ip, o)
       /\ ret' = Return("Reattach", ip, IF o.err THEN "alias" ELSE "ok")
       /\ granted' = IF o.err THEN granted ELSE granted \cup {p}
  /\ UNCHANGED <<allocated, byPod, inverse>>

\* A new binding to exactly ip; if the alias fails the reservation is undone.
ReattachFresh(p, ip, b) ==
  /\ Refusal(p, ip, b) = "ok"
  /\ ~Bound(p)
  /\ \E o \in Outcome :
       /\ Ensure(ip, o)
       /\ ret' = Return("Reattach", ip, IF o.err THEN "alias" ELSE "ok")
       /\ IF o.err THEN UNCHANGED <<allocated, byPod, inverse, granted>> ELSE Bind(p, ip, b)

\* ReattachPod and ReattachGuest. The cursor does not move.
Reattach(p, ip, b) ==
  /\ phase = "reconciling"
  /\ Recorded(p, ip)
  /\ ReattachRefused(p, ip, b) \/ ReattachBound(p, ip, b) \/ ReattachFresh(p, ip, b)
  /\ UNCHANGED <<next, box, phase>>

\* Mutant of Stale: the keep set is ignored.
StaleAll == Usable
\* The addresses a SweepStale walks and removes: neither known nor bound here.
Stale == {ip \in Usable : inverse[ip] = NoPod /\ \A p \in Pods : box[p] # ip}

\* The ways the removals of a sweep may go, address by address.
SweepResults ==
  LET outs(ip) == RemoveOutcomes(host[ip], tracked[ip], TRUE)
  IN  {r \in [Stale -> UNION {outs(ip) : ip \in Stale}] : \A ip \in Stale : r[ip] \in outs(ip)}

Swept(r, ip) == IF ip \in Stale THEN r[ip].h ELSE host[ip]

\* SweepStale with the records of the running pods, all of them reattached: the last
\* thing the caller does before it serves. A failed removal does not stop it.
SweepStale ==
  /\ phase = "reconciling"
  /\ \A p \in Pods : Running(p) => Bound(p)
  /\ \E r \in SweepResults :
       /\ host' = [ip \in Addrs |-> Swept(r, ip)]
       /\ tracked' = [ip \in Addrs |-> IF ip \in Stale THEN r[ip].t ELSE tracked[ip]]
       /\ ret' = Return("Sweep", NoIP, IF \E ip \in Stale : r[ip].err THEN "alias" ELSE "ok")
  /\ phase' = "serving"
  /\ UNCHANGED <<allocated, next, byPod, inverse, granted, box>>

-----------------------------------------------------------------------------
(* The runtime, the kernel and the process around the Network. *)

\* The runtime starts the processes of a pod that has its address, and records it.
PodStart(p) ==
  /\ phase = "serving"
  /\ p \in granted /\ ~Running(p)
  /\ box' = [box EXCEPT ![p] = byPod[p].ip]
  /\ ret' = NoRet
  /\ UNCHANGED <<allocated, next, byPod, inverse, tracked, host, granted, phase>>

PodStop(p) ==
  /\ Running(p)
  /\ box' = [box EXCEPT ![p] = NoIP]
  /\ ret' = NoRet
  /\ UNCHANGED <<allocated, next, byPod, inverse, tracked, host, granted, phase>>

\* A packet to an address with no host route clones one from the aggregate.
CloneRoute(ip) ==
  /\ host[ip] = "none"
  /\ host' = [host EXCEPT ![ip] = "cloned"]
  /\ ret' = NoRet
  /\ UNCHANGED <<allocated, next, byPod, inverse, tracked, granted, box, phase>>

\* What a crash may leave of the kernel state: nothing was running, or an Ensure, a
\* Remove or a sweep had got as far as some of its requests.
CrashHost ==
  \/ UNCHANGED host
  \/ \E p \in Pods, ip \in Usable, o \in Outcome :
       /\ \/ phase = "serving" /\ Bound(p) /\ byPod[p].ip = ip
          \/ phase = "serving" /\ ~Bound(p) /\ AllocateFinds(ip)
          \/ phase = "reconciling" /\ Recorded(p, ip) /\ Refusal(p, ip, "host") = "ok"
       /\ o \in EnsureOutcomes(host[ip], tracked[ip], TRUE)
       /\ host' = [host EXCEPT ![ip] = o.h]
  \/ \E p \in Pods :
       /\ phase = "serving" /\ Bound(p) /\ ~Running(p)
       /\ \E o \in RemoveOutcomes(host[byPod[p].ip], tracked[byPod[p].ip], TRUE) :
            host' = [host EXCEPT ![byPod[p].ip] = o.h]
  \/ /\ phase = "reconciling"
     /\ \A p \in Pods : Running(p) => Bound(p)
     /\ \E r \in SweepResults : host' = [ip \in Addrs |-> Swept(r, ip)]

\* The process dies and starts again with an empty memory.
Crash ==
  /\ CrashHost
  /\ allocated' = {}
  /\ next' = First
  /\ byPod' = [p \in Pods |-> NoEntry]
  /\ inverse' = [ip \in Usable |-> NoPod]
  /\ tracked' = [ip \in Addrs |-> "no"]
  /\ granted' = {}
  /\ phase' = "reconciling"
  /\ ret' = NoRet
  /\ UNCHANGED box

Init ==
  /\ allocated = {}
  /\ next = First
  /\ byPod = [p \in Pods |-> NoEntry]
  /\ inverse = [ip \in Usable |-> NoPod]
  /\ tracked = [ip \in Addrs |-> "no"]
  /\ host = [ip \in Addrs |-> "none"]
  /\ granted = {}
  /\ box = [p \in Pods |-> NoIP]
  /\ phase = "reconciling"
  /\ ret = NoRet

Next ==
  \/ EnsureNodeAlias
  \/ \E p \in Pods, b \in Backends : Setup(p, b)
  \/ \E p \in Pods : Teardown(p)
  \/ \E p \in Pods, ip \in Addrs, b \in Backends : Reattach(p, ip, b)
  \/ SweepStale
  \/ \E p \in Pods : PodStart(p)
  \/ \E p \in Pods : PodStop(p)
  \/ \E ip \in Usable : CloneRoute(ip)
  \/ Crash

Spec == Init /\ [][Next]_vars

\* The caller finishes its reconcile and retries a teardown, and neither ifconfig nor
\* the routing socket fails it for ever.
TeardownDone(p) == Teardown(p) /\ Bound(p) /\ ~Bound(p)'
ReattachDone(p) == Reattach(p, box[p], "host") /\ ~Bound(p) /\ Bound(p)'
FairSpec ==
  /\ Spec
  /\ WF_vars(SweepStale)
  /\ \A p \in Pods : SF_vars(TeardownDone(p)) /\ SF_vars(ReattachDone(p))

-----------------------------------------------------------------------------
(* Properties. *)

\* The two maps of the Network and the allocator never disagree: an address is
\* reserved exactly when one pod is bound to it, and that pod is its inverse, so no
\* failed Setup, Reattach or Teardown leaks an address or shares one
\* (podnet.go: "cannot interleave into a leaked alias or a double allocation").
IPAMConsistent ==
  /\ \A p \in Pods : Bound(p) => byPod[p].ip \in allocated /\ inverse[byPod[p].ip] = p
  /\ \A ip \in Usable : inverse[ip] # NoPod => Bound(inverse[ip]) /\ byPod[inverse[ip]].ip = ip
  /\ \A ip \in allocated : inverse[ip] # NoPod

\* No pod is ever given the address of another pod that runs, before or after a
\* daemon restart (reconcile.go: "the new process would re-allocate addresses still
\* aliased for running pods" is what the reattach prevents).
NoCollision ==
  \A p, q \in Pods : p # q /\ Running(p) => box[q] # box[p] /\ byPod[q].ip # box[p]

\* The address a running pod is bound to stays on lo0 and is not blackholed, through
\* retried Setups, crashes at any point, reattaches and the startup sweep.
RunningPodOnLo0 == \A p \in Pods : Running(p) => host[box[p]] = "alias"

\* The alias manager's memory agrees with the kernel, and a bound address is either
\* on lo0 or owed nothing but its blackhole.
TrackingMatchesKernel ==
  /\ \A ip \in Usable : tracked[ip] = "live" => host[ip] = "alias"
  /\ \A ip \in Usable : tracked[ip] = "pending" => host[ip] \in {"none", "cloned"}
  /\ \A p \in Pods : Bound(p) => tracked[byPod[p].ip] # "no"

\* Allocate fails only when every usable address is allocated, wherever the cursor
\* stands (allocator.go: "It returns ErrPoolExhausted when every usable host is
\* allocated").
ExhaustedOnlyWhenFull == ret.res = "exhausted" => allocated = Usable

\* While the process lives, an address becomes free again only in a state where its
\* blackhole is in place: a teardown that could not install it keeps the address
\* (alias.go: "never handed to a new pod while a departed pod's connections could
\* still re-route").
FreedOnlyBlackholed ==
  [][\A ip \in allocated \ allocated' : phase' = "serving" => host'[ip] = "blackhole"]_vars

\* The node's own .1 alias, once plumbed, is never taken down by a pod operation, the
\* sweep or a restart (podnet.go: "SweepStale never reclaims it").
NodeAliasKept == [][host[NodeIP] = "alias" => host'[NodeIP] = "alias"]_vars

\* A pod that stopped and whose teardown is retried loses its address in the end (or
\* runs again): no failure of a teardown leaves the pod in a state that a retry cannot
\* complete.
TeardownCompletes == \A p \in Pods : Bound(p) /\ ~Running(p) ~> ~Bound(p) \/ Running(p)

\* What the restart promises the running pods, as a specification of its own: crashes
\* and reconciles are stuttering steps for them.
Promise == INSTANCE PodAddresses WITH addr <- box
KeepsPromise == Promise!Spec
=============================================================================
