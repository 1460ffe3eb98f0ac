------------------------------ MODULE NetdAlias ------------------------------
(***************************************************************************)
(* The privileged executor of netd (pkg/netd/applier.go): lo0 aliases and  *)
(* their blackholes, the mirror of the pod aliases on the mesh utun, and   *)
(* localPods, the allocation the mesh device consults before it refuses a  *)
(* peer's SYN. The device reads localPods at any moment, so an operation   *)
(* is a sequence of steps, one per command; aliasMu lets one operation run *)
(* at a time. The daemon may die between any two steps: the kernel's lo0   *)
(* and routes survive, the utun dies with the daemon.                      *)
(***************************************************************************)
EXTENDS FiniteSets, Lo0Alias

CONSTANTS
  Cidrs,    \* the node /24s the daemon may serve, each the set of its pod addresses
  VIPs,     \* other addresses it aliases: Service VIPs, the mesh-egress source
  NoIP

ASSUME CidrAssumption ==
  /\ \A c, d \in Cidrs : c # d => c \cap d = {}
  /\ \A c \in Cidrs : c \cap VIPs = {} /\ NoIP \notin c
  /\ NoIP \notin VIPs

Addrs == (UNION Cidrs) \cup VIPs
Idle == [kind |-> "idle", ip |-> NoIP, step |-> "none"]
Steps == {"clear", "lo0", "utun", "install", "device"}
Ops == [kind : {"ensure", "remove", "configure"}, ip : Addrs \cup {NoIP}, step : Steps]

VARIABLES
  cidr,     \* nodePodCIDR
  host,     \* the kernel's /32 state of each address
  tracked,  \* darwinApplier.aliased
  utun,     \* the pod addresses aliased on the mesh utun
  meshUp,   \* meshUp: the utun exists
  known,    \* localPods.known
  pods,     \* localPods.set
  served,   \* the server's own record of the aliases it granted (Server.aliases)
  granted,  \* history: the addresses whose last call was an EnsureAlias that succeeded
  op,       \* the operation that holds aliasMu, and its next command
  synced    \* the last ConfigureMesh of this utun returned no error

vars == <<cidr, host, tracked, utun, meshUp, known, pods, served, granted, op, synced>>

IsPod(ip) == ip \in cidr
LivePods == {ip \in cidr : host[ip] = "alias"}

\* localPods.allocated, as the device's SYN refusal reads it.
Allocated(ip) == ~known \/ ip \in pods

TypeOK ==
  /\ cidr \in Cidrs
  /\ host \in [Addrs -> HostState]
  /\ tracked \in [Addrs -> TrackState]
  /\ utun \in SUBSET cidr
  /\ pods \in SUBSET cidr
  /\ served \in SUBSET Addrs /\ granted \in SUBSET Addrs
  /\ op \in Ops \cup {Idle}
  /\ meshUp \in BOOLEAN /\ known \in BOOLEAN /\ synced \in BOOLEAN

Begin(kind, ip, step) ==
  /\ op = Idle
  /\ op' = [kind |-> kind, ip |-> ip, step |-> step]
  /\ granted' = granted \ {ip}

At(kind, step) == op.kind = kind /\ op.step = step

\* EnsureAlias returns success, and the server records the alias.
Grant == served' = served \cup {op.ip} /\ granted' = granted \cup {op.ip}

\* The operation goes on with its next command.
Goto(step) == op' = [op EXCEPT !.step = step]

-----------------------------------------------------------------------------
(* EnsureAlias. *)

\* The address is allocated before anything is plumbed.
EnsureAlias(ip) ==
  /\ IsPod(ip) \/ ip \in VIPs
  /\ Begin("ensure", ip, IF IsPod(ip) THEN "clear" ELSE "lo0")
  /\ pods' = IF IsPod(ip) /\ known THEN pods \cup {ip} ELSE pods
  /\ UNCHANGED <<cidr, host, tracked, utun, meshUp, known, served, synced>>

EnsureClear ==
  /\ At("ensure", "clear")
  /\ \/ host' = [host EXCEPT ![op.ip] = Cleared(@)] /\ Goto("lo0")
     \/ UNCHANGED host /\ op' = Idle
  /\ UNCHANGED <<cidr, tracked, utun, meshUp, known, pods, served, granted, synced>>

EnsureLo0 ==
  /\ At("ensure", "lo0")
  /\ \/ /\ host' = [host EXCEPT ![op.ip] = "alias"]
        /\ tracked' = [tracked EXCEPT ![op.ip] = "live"]
        /\ IF IsPod(op.ip) /\ meshUp
           THEN Goto("utun") /\ UNCHANGED <<served, granted>>
           ELSE op' = Idle /\ Grant
     \/ op' = Idle /\ UNCHANGED <<host, tracked, served, granted>>
  /\ UNCHANGED <<cidr, utun, meshUp, known, pods, synced>>

\* Mutant of EnsureUtun: a failed utun alias is only logged.
EnsureUtunTolerated ==
  /\ At("ensure", "utun")
  /\ utun' \in {utun, utun \cup {op.ip}} /\ Grant
  /\ op' = Idle
  /\ UNCHANGED <<cidr, host, tracked, meshUp, known, pods, synced>>

\* A refusal is returned to the client; the lo0 alias stays for its retry.
EnsureUtun ==
  /\ At("ensure", "utun")
  /\ \/ utun' = utun \cup {op.ip} /\ Grant
     \/ UNCHANGED <<utun, served, granted>>
  /\ op' = Idle
  /\ UNCHANGED <<cidr, host, tracked, meshUp, known, pods, synced>>

-----------------------------------------------------------------------------
(* RemoveAlias. *)

\* Mutant of RemoveAlias: the address leaves the allocation before its alias is gone.
RemoveAliasDeallocatesFirst(ip) ==
  /\ IsPod(ip) \/ ip \in VIPs
  /\ Begin("remove", ip, IF IsPod(ip) /\ meshUp THEN "utun" ELSE "lo0")
  /\ pods' = pods \ {ip}
  /\ UNCHANGED <<cidr, host, tracked, utun, meshUp, known, served, synced>>

RemoveAlias(ip) ==
  /\ IsPod(ip) \/ ip \in VIPs
  /\ Begin("remove", ip, IF IsPod(ip) /\ meshUp THEN "utun" ELSE "lo0")
  /\ UNCHANGED <<cidr, host, tracked, utun, meshUp, known, pods, served, synced>>

\* The utun alias goes first; a failure is tolerated.
RemoveUtun ==
  /\ At("remove", "utun")
  /\ utun' \in {utun, utun \ {op.ip}}
  /\ Goto("lo0")
  /\ UNCHANGED <<cidr, host, tracked, meshUp, known, pods, served, granted, synced>>

\* What follows the -alias: a plain address is done; a pod address known gone leaves
\* the allocation; an untracked one that was not on lo0 is done; the others are owed
\* their blackhole.
AfterUnalias(removed) ==
  LET gone == removed \/ tracked[op.ip] = "pending"
      done == ~IsPod(op.ip) \/ (tracked[op.ip] = "no" /\ ~removed)
  IN  /\ pods' = IF IsPod(op.ip) /\ gone THEN pods \ {op.ip} ELSE pods
      /\ tracked' = IF IsPod(op.ip) THEN tracked ELSE [tracked EXCEPT ![op.ip] = "no"]
      /\ IF done THEN op' = Idle /\ served' = served \ {op.ip}
                 ELSE Goto("install") /\ UNCHANGED served

\* The -alias, skipped for a pending address; a failure is tolerated.
RemoveLo0 ==
  /\ At("remove", "lo0")
  /\ \/ /\ tracked[op.ip] # "pending" /\ host[op.ip] = "alias"
        /\ host' = [host EXCEPT ![op.ip] = "none"]
        /\ AfterUnalias(TRUE)
     \/ UNCHANGED host /\ AfterUnalias(FALSE)
  /\ UNCHANGED <<cidr, utun, meshUp, known, granted, synced>>

RemoveInstall ==
  /\ At("remove", "install")
  /\ \E r \in InstallResults(host[op.ip]) :
       /\ host' = [host EXCEPT ![op.ip] = r[1]]
       /\ tracked' = [tracked EXCEPT ![op.ip] = IF r[2] THEN "pending" ELSE "no"]
       /\ served' = IF r[2] THEN served ELSE served \ {op.ip}
  /\ op' = Idle
  /\ UNCHANGED <<cidr, utun, meshUp, known, pods, granted, synced>>

-----------------------------------------------------------------------------
(* The mesh device and the node identity. *)

\* ConfigureMesh reads the allocation from lo0 before the device can come up; a
\* failed read forgets it.
ConfigureMesh ==
  /\ Begin("configure", NoIP, "device")
  /\ \/ known' = TRUE /\ pods' = LivePods \cup {ip \in cidr : tracked[ip] = "live"}
     \/ known' = FALSE /\ pods' = {}
  /\ UNCHANGED <<cidr, host, tracked, utun, meshUp, served, synced>>

\* The utun aliases a reconcile may leave: every removal of a stale one and every
\* addition of a missing one may fail.
ReconcileResults(want) == {u \in SUBSET (utun \cup want) : utun \cap want \subseteq u}

\* Mutant of ConfigureDevice: the aliases are plumbed only onto a new utun.
ConfigureDeviceOnce ==
  /\ At("configure", "device")
  /\ \/ meshUp' = TRUE /\ utun' = (IF meshUp THEN utun ELSE LivePods) /\ synced' = TRUE
     \/ meshUp' = TRUE /\ utun' \in ReconcileResults(LivePods) /\ synced' = FALSE
     \/ ~meshUp /\ UNCHANGED <<meshUp, utun, synced>>
  /\ op' = Idle
  /\ UNCHANGED <<cidr, host, tracked, known, pods, served, granted>>

\* The device comes up if it is not, the plan is applied and the utun aliases are
\* reconciled with lo0. A failed Up ends the call; the later failures are returned.
ConfigureDevice ==
  /\ At("configure", "device")
  /\ \/ meshUp' = TRUE /\ utun' = LivePods /\ synced' = TRUE
     \/ meshUp' = TRUE /\ utun' \in ReconcileResults(LivePods) /\ synced' = FALSE
     \/ ~meshUp /\ UNCHANGED <<meshUp, utun, synced>>
  /\ op' = Idle
  /\ UNCHANGED <<cidr, host, tracked, known, pods, served, granted>>

\* RemoveMesh destroys the utun and, with it, its aliases; a failed Down leaves the
\* mesh up.
RemoveMesh ==
  /\ op = Idle /\ meshUp
  /\ meshUp' = FALSE /\ utun' = {} /\ synced' = FALSE
  /\ UNCHANGED <<cidr, host, tracked, known, pods, served, granted, op>>

\* sweepBlackholes: only blackholes are cleared, and each Clear may fail.
SweepBlackholes(c) ==
  \E swept \in SUBSET {ip \in c : host[ip] = "blackhole"} :
    host' = [ip \in Addrs |-> IF ip \in swept THEN "none" ELSE host[ip]]

\* The server adopts another /24 only when no pod alias it granted and no mesh is
\* live; the applier drops what it knew of the old one.
SetNodePodCIDR(c) ==
  /\ op = Idle /\ ~meshUp /\ c # cidr
  /\ served \cap cidr = {}
  /\ cidr' = c
  /\ known' = FALSE /\ pods' = {}
  /\ tracked' = [ip \in Addrs |-> IF ip \in cidr THEN "no" ELSE tracked[ip]]
  /\ SweepBlackholes(cidr)
  /\ UNCHANGED <<utun, meshUp, served, op, granted, synced>>

\* The daemon dies, wherever it stands, and starts again: the utun is gone, nothing
\* is tracked, and the stale blackholes of the /24 it restored are swept.
Restart ==
  /\ \E c \in Cidrs : cidr' = c /\ SweepBlackholes(c)
  /\ tracked' = [ip \in Addrs |-> "no"]
  /\ utun' = {} /\ meshUp' = FALSE /\ synced' = FALSE
  /\ known' = FALSE /\ pods' = {} /\ served' = {}
  /\ op' = Idle
  /\ UNCHANGED granted

\* The kernel clones a host route for an address that falls to the aggregate.
CloneRoute(ip) ==
  /\ host[ip] = "none" /\ ip \notin VIPs
  /\ host' = [host EXCEPT ![ip] = "cloned"]
  /\ UNCHANGED <<cidr, tracked, utun, meshUp, known, pods, served, op, granted, synced>>

-----------------------------------------------------------------------------

Init ==
  /\ cidr \in Cidrs
  /\ host = [ip \in Addrs |-> "none"]
  /\ tracked = [ip \in Addrs |-> "no"]
  /\ utun = {} /\ pods = {} /\ served = {} /\ granted = {}
  /\ meshUp = FALSE /\ known = FALSE /\ synced = FALSE
  /\ op = Idle

Commands ==
  \/ EnsureClear \/ EnsureLo0 \/ EnsureUtun
  \/ RemoveUtun \/ RemoveLo0 \/ RemoveInstall
  \/ ConfigureDevice

Next ==
  \/ \E ip \in Addrs : EnsureAlias(ip) \/ RemoveAlias(ip) \/ CloneRoute(ip)
  \/ Commands
  \/ ConfigureMesh \/ RemoveMesh
  \/ \E c \in Cidrs : SetNodePodCIDR(c)
  \/ Restart

Spec == Init /\ [][Next]_vars

-----------------------------------------------------------------------------
(* Properties. *)

\* The mesh never refuses a SYN to an address that is live on lo0, at any step of any
\* operation (EnsureAlias adds to localPods first, RemoveAlias removes last, a seed
\* reads lo0), save for an address whose removal is already pending.
LivePodAllocated ==
  \A ip \in LivePods : Allocated(ip) \/ tracked[ip] = "pending"

\* An alias the executor tracks as live is on lo0: no sweep, identity change or stale
\* blackhole ever shadows it.
TrackedLiveOnLo0 ==
  \A ip \in Addrs :
    tracked[ip] = "live" => host[ip] = "alias" \/ (op.kind = "remove" /\ op.ip = ip)

\* An alias granted to a client stays on lo0 until the client's next call for it,
\* whatever the daemon does or wherever it restarts; and once a ConfigureMesh has
\* succeeded, a pod alias granted before or after it is on the utun too.
GrantKept ==
  \A ip \in granted :
    host[ip] = "alias" /\ (synced /\ IsPod(ip) => ip \in utun)

\* Only a RemoveAlias of the address takes an alias off lo0: neither a restart, nor a
\* sweep, nor an adoption, nor an operation on another address does.
OnlyRemoveUnaliases ==
  [][\A ip \in Addrs : host[ip] = "alias" /\ host'[ip] # "alias"
       => op.kind = "remove" /\ op.ip = ip]_vars

\* A granted pod alias reaches the mesh utun: whatever failed, the resync repairs it.
GrantReachesUtun ==
  \A ip \in Addrs : (ip \in granted /\ IsPod(ip)) ~> (ip \in utun \/ ip \notin granted \/ ~IsPod(ip))

\* The client retries a removal for ever, and a command that keeps being tried, and
\* can succeed, succeeds in the end.
RetrySpec ==
  /\ Spec
  /\ WF_vars(Commands)
  /\ \A ip \in Addrs :
       /\ SF_vars(RemoveAlias(ip))
       /\ SF_vars(RemoveLo0 /\ op.ip = ip /\ host'[ip] # "alias")
       /\ SF_vars(RemoveInstall /\ op.ip = ip /\ tracked'[ip] = "no")

\* What Teardown documents: a failed removal can be completed by its retry. An
\* address whose -alias failed once is never taken off lo0 again.
RetryCompletes == \A ip \in Addrs : tracked[ip] = "pending" ~> tracked[ip] # "pending"
=============================================================================
