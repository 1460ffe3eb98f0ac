---------------------------- MODULE NetdIdentity ----------------------------
(***************************************************************************)
(* The server half of netd (pkg/netd/server.go, interconnect.go): the node *)
(* identity it adopts from a ConfigureMesh, and the verbs whose policy     *)
(* derives from it. Every connection has its own goroutine, so a handler   *)
(* is split where it drops the locks: the identity is read in one step and *)
(* used in a later one. The identity and the interconnect ledger are files *)
(* whose writes may fail; the daemon may die at any point.                 *)
(*                                                                         *)
(* An address is named by what it derives from: the pod address of a /24   *)
(* by the /24, an interconnect address by its /24 and slot.                *)
(***************************************************************************)
EXTENDS Naturals, FiniteSets

CONSTANTS
  Cidrs,       \* the /24s of the cluster aggregate
  Default,     \* Config.NodePodCIDR: the identity of a daemon that restored none
  Slots,       \* the interconnect slots; slot 0 carries the connected /24
  AliasConns, MeshConns, IcConns,   \* the connections, by the verbs they carry
  None

VerbConns == AliasConns \cup MeshConns \cup IcConns

ASSUME IdentityAssumption ==
  /\ Default \in Cidrs /\ None \notin Cidrs
  /\ Slots \subseteq Nat /\ 0 \in Slots

VARIABLES
  node,       \* Server.nodePodCIDR, which the executor follows
  confirmed,  \* Server.identityConfirmed
  idFile,     \* the identity file
  lo0,        \* the pod addresses aliased on lo0
  aliases,    \* Server.aliases
  dev,        \* the identity the executor's device was built from
  devUp,      \* the executor's meshUp
  meshUp,     \* Server.meshUp
  bridge,     \* each interconnect address on bridge0: absent, present, or slot 0
              \* present with a netmask that is not the /24
  owned,      \* Server.icOwned: the identity a slot's alias was derived from
  ledger,     \* the interconnect ledger file
  pc          \* each connection's handler: its next step, and what it has read

idVars == <<node, confirmed, idFile>>
podVars == <<lo0, aliases>>
meshVars == <<dev, devUp, meshUp>>
icVars == <<bridge, owned, ledger>>
identityVars == <<idVars, podVars, meshVars, icVars, pc>>

NoneOwned == [s \in Slots |-> None]
Idle == [step |-> "idle", cidr |-> None, slot |-> 0]
Begin(k, step, c, s) ==
  /\ pc[k] = Idle
  /\ pc' = [pc EXCEPT ![k] = [step |-> step, cidr |-> c, slot |-> s]]
At(k, step) == pc[k].step = step
Goto(k, step) == pc' = [pc EXCEPT ![k].step = step]
Done(k) == pc' = [pc EXCEPT ![k] = Idle]

-----------------------------------------------------------------------------
(* EnsureAlias and RemoveAlias of a pod address. *)

\* validateAliasIP admits an address of the identity in force.
ValidateAlias(k, c, step) ==
  /\ k \in AliasConns /\ c = node
  /\ Begin(k, step, c, 0)
  /\ UNCHANGED <<idVars, podVars, meshVars, icVars>>

EnsureAlias(k) ==
  /\ At(k, "ensure")
  /\ \/ lo0' = lo0 \cup {pc[k].cidr} /\ Goto(k, "track")
     \/ UNCHANGED lo0 /\ Done(k)
  /\ UNCHANGED <<aliases, idVars, meshVars, icVars>>

TrackAlias(k) ==
  /\ At(k, "track")
  /\ aliases' = aliases \cup {pc[k].cidr}
  /\ Done(k)
  /\ UNCHANGED <<lo0, idVars, meshVars, icVars>>

RemoveAlias(k) ==
  /\ At(k, "remove")
  /\ \/ lo0' = lo0 \ {pc[k].cidr} /\ Goto(k, "untrack")
     \/ UNCHANGED lo0 /\ Done(k)
  /\ UNCHANGED <<aliases, idVars, meshVars, icVars>>

UntrackAlias(k) ==
  /\ At(k, "untrack")
  /\ aliases' = aliases \ {pc[k].cidr}
  /\ Done(k)
  /\ UNCHANGED <<lo0, idVars, meshVars, icVars>>

-----------------------------------------------------------------------------
(* ConfigureMesh and RemoveMesh. *)

\* The identity already in force is confirmed, and recorded if the file says otherwise.
Confirm(k, want) ==
  /\ want = node
  /\ confirmed' = TRUE
  /\ idFile' \in {idFile, want}
  /\ UNCHANGED <<node, dev>>

\* Mutant of Adopt: the server's own record of the mesh is trusted.
AdoptTrustsRecord(k, want) ==
  /\ want # node
  /\ node \notin aliases /\ ~meshUp /\ owned = NoneOwned
  /\ node' = want /\ confirmed' = TRUE /\ dev' = None
  /\ idFile' \in {idFile, want}

\* Another identity is adopted when the server holds nothing live under the current
\* one and the executor's mesh is down; the device of the old one is dropped.
Adopt(k, want) ==
  /\ want # node
  /\ node \notin aliases /\ ~meshUp /\ owned = NoneOwned
  /\ ~devUp
  /\ node' = want /\ confirmed' = TRUE /\ dev' = None
  /\ idFile' \in {idFile, want}

ConfigureMesh(k, want) ==
  /\ k \in MeshConns
  /\ Begin(k, "plan", None, 0)
  /\ Confirm(k, want) \/ Adopt(k, want)
  /\ UNCHANGED <<devUp, meshUp, podVars, icVars>>

\* The plan is validated against the identity then in force; a rejected plan, a cap or
\* an unresolved key ends the call.
ValidatePlan(k) ==
  /\ At(k, "plan")
  /\ Done(k) \/ pc' = [pc EXCEPT ![k].step = "apply", ![k].cidr = node]
  /\ UNCHANGED <<idVars, podVars, meshVars, icVars>>

\* The executor builds its device once, brings it up and applies the plan; any of
\* these may fail, the device staying as far as it got.
ApplyPlan(k) ==
  /\ At(k, "apply")
  /\ dev' = IF dev = None THEN node ELSE dev
  /\ \/ ~devUp /\ UNCHANGED devUp /\ Done(k)
     \/ devUp' = TRUE /\ (Done(k) \/ Goto(k, "trackMesh"))
  /\ UNCHANGED <<meshUp, idVars, podVars, icVars>>

TrackMesh(k) ==
  /\ At(k, "trackMesh")
  /\ meshUp' = TRUE
  /\ Done(k)
  /\ UNCHANGED <<dev, devUp, idVars, podVars, icVars>>

RemoveMesh(k) ==
  /\ k \in MeshConns
  /\ Begin(k, "untrackMesh", None, 0)
  /\ devUp' = FALSE
  /\ UNCHANGED <<dev, meshUp, idVars, podVars, icVars>>

UntrackMesh(k) ==
  /\ At(k, "untrackMesh")
  /\ meshUp' = FALSE
  /\ Done(k)
  /\ UNCHANGED <<dev, devUp, idVars, podVars, icVars>>

-----------------------------------------------------------------------------
(* EnsureInterconnectAlias and RemoveInterconnectAlias. *)

\* interconnectTarget derives the address from a confirmed identity, before icMu is
\* taken.
InterconnectTarget(k, s, step) ==
  /\ k \in IcConns /\ confirmed
  /\ Begin(k, step, node, s)
  /\ UNCHANGED <<idVars, podVars, meshVars, icVars>>

Target(k) == <<pc[k].cidr, pc[k].slot>>

\* The pairs <<state, success>> an ensure may leave for an address in state b. A
\* wrong netmask is repaired by a removal and an addition; any command may fail.
EnsureResults(b) ==
  {<<b, FALSE>>, <<"present", TRUE>>}
    \cup (IF b = "wrong" THEN {<<"absent", FALSE>>} ELSE {})

\* persistInterconnect: a failed write is logged.
Persist(o) == owned' = o /\ ledger' \in {ledger, o}

EnsureInterconnectAlias(k) ==
  /\ At(k, "icEnsure")
  /\ \E r \in EnsureResults(bridge[Target(k)]) :
       /\ bridge' = [bridge EXCEPT ![Target(k)] = r[1]]
       /\ IF r[2] THEN Persist([owned EXCEPT ![pc[k].slot] = pc[k].cidr])
                  ELSE UNCHANGED <<owned, ledger>>
  /\ Done(k)
  /\ UNCHANGED <<idVars, podVars, meshVars>>

\* Slot 0 stays while any rider is owned.
MayRemove(k) ==
  /\ owned[pc[k].slot] = pc[k].cidr
  /\ pc[k].slot = 0 => \A s \in Slots \ {0} : owned[s] = None

\* An alias the daemon does not own is left alone; ownership is dropped only on a
\* verified absence.
RemoveInterconnectAlias(k) ==
  /\ At(k, "icRemove")
  /\ \/ UNCHANGED icVars
     \/ /\ MayRemove(k)
        /\ bridge' = [bridge EXCEPT ![Target(k)] = "absent"]
        /\ Persist([owned EXCEPT ![pc[k].slot] = None])
  /\ Done(k)
  /\ UNCHANGED <<idVars, podVars, meshVars>>

-----------------------------------------------------------------------------
(* Restart. *)

\* bridge0 as a daemon that dies inside an interconnect handler may leave it.
Interrupted ==
  {bridge}
    \cup (UNION {{[bridge EXCEPT ![Target(k)] = r[1]] : r \in EnsureResults(bridge[Target(k)])} :
                 k \in {j \in VerbConns : At(j, "icEnsure")}})
    \cup {[bridge EXCEPT ![Target(k)] = "absent"] : k \in {j \in VerbConns : At(j, "icRemove") /\ MayRemove(j)}}

\* restoreInterconnect keeps the entries that derive from the restored identity.
Restored(c) == [s \in Slots |-> IF ledger[s] = c THEN c ELSE None]

\* Mutant of StaleSlots: slot 0 is removed like any other.
StaleAllSlots(b, c) == {s \in Slots : b[<<c, s>>] # "absent" /\ Restored(c)[s] = None}

\* The slots of the restored identity on bridge0 that the reconcile removes: those
\* not owned, slot 0 only when no owned rider is present.
StaleSlots(b, c) ==
  {s \in Slots :
     /\ b[<<c, s>>] # "absent" /\ Restored(c)[s] = None
     /\ s = 0 => \A r \in Slots \ {0} : Restored(c)[r] = c => b[<<c, r>>] = "absent"}

\* reconcileInterconnectAtStart; a removal may fail, or bridge0 be unreadable.
ReconcileInterconnect(b, c) ==
  /\ Persist(Restored(c))
  /\ \E gone \in SUBSET StaleSlots(b, c) :
       bridge' = [a \in Cidrs \X Slots |-> IF a[1] = c /\ a[2] \in gone THEN "absent" ELSE b[a]]

\* NewServer: the identity comes from the file, or is the unconfirmed default, with
\* which nothing is reconciled.
Restart ==
  /\ node' = IF idFile = None THEN Default ELSE idFile
  /\ confirmed' = (idFile # None)
  /\ \E b \in Interrupted :
       IF idFile = None THEN bridge' = b /\ Persist(NoneOwned)
                        ELSE ReconcileInterconnect(b, idFile)
  /\ aliases' = {} /\ dev' = None /\ devUp' = FALSE /\ meshUp' = FALSE
  /\ pc' = [k \in VerbConns |-> Idle]
  /\ UNCHANGED <<idFile, lo0>>

\* macOS drops an address from bridge0, or gives slot 0 another netmask.
Disturb(a, b) ==
  /\ bridge[a] # "absent"
  /\ b = "wrong" => a[2] = 0
  /\ bridge' = [bridge EXCEPT ![a] = b]
  /\ UNCHANGED <<owned, ledger, idVars, podVars, meshVars, pc>>

-----------------------------------------------------------------------------

IdentityInit ==
  /\ node = Default /\ confirmed = FALSE /\ idFile = None
  /\ lo0 = {} /\ aliases = {}
  /\ dev = None /\ devUp = FALSE /\ meshUp = FALSE
  /\ bridge = [a \in Cidrs \X Slots |-> "absent"]
  /\ owned = NoneOwned /\ ledger = NoneOwned
  /\ pc = [k \in VerbConns |-> Idle]

Handler(k) ==
  \/ \E c \in Cidrs : ValidateAlias(k, c, "ensure") \/ ValidateAlias(k, c, "remove")
  \/ EnsureAlias(k) \/ TrackAlias(k) \/ RemoveAlias(k) \/ UntrackAlias(k)
  \/ \E c \in Cidrs : ConfigureMesh(k, c)
  \/ ValidatePlan(k) \/ ApplyPlan(k) \/ TrackMesh(k) \/ RemoveMesh(k) \/ UntrackMesh(k)
  \/ \E s \in Slots : InterconnectTarget(k, s, "icEnsure") \/ InterconnectTarget(k, s, "icRemove")
  \/ EnsureInterconnectAlias(k) \/ RemoveInterconnectAlias(k)

\* Steps of the connections K, of macOS and of launchd.
IdentityNext(K) ==
  \/ \E k \in K : Handler(k)
  \/ \E a \in Cidrs \X Slots, b \in {"absent", "wrong"} : Disturb(a, b)
  \/ Restart

-----------------------------------------------------------------------------
(* Properties. *)

\* The wireguard device carries the identity the daemon believes in, and one that is up
\* stays: an adoption neither leaves a device of the old identity behind nor takes a live
\* one away, although the server's own record of the mesh is behind the executor's.
DeviceCarriesNode == (dev # None => dev = node) /\ (devUp => dev = node)

\* A connection is inside an interconnect verb for slot s.
InVerb(s) == \E k \in IcConns : pc[k] # Idle /\ pc[k].slot = s

\* The address stays on bridge0 as it was, unless the daemon died inside a verb for its slot.
Stays(a) == bridge'[a] = bridge[a] \/ InVerb(a[2])

\* However stale the two files are when the daemon dies, its restart leaves alone every
\* interconnect address that does not derive from the identity on file; and of that
\* identity's it keeps what the ledger records, as owned and on bridge0, and under a
\* recorded rider that is present also the /24 of slot 0, recorded or not.
RestartKeepsOwned ==
  [][Restart =>
       /\ \A a \in Cidrs \X Slots : a[1] # idFile => Stays(a)
       /\ \A s \in Slots : idFile # None /\ ledger[s] = idFile =>
            /\ owned'[s] = idFile /\ Stays(<<idFile, s>>)
            /\ s # 0 /\ bridge'[<<idFile, s>>] # "absent" => Stays(<<idFile, 0>>)]_identityVars

=============================================================================
