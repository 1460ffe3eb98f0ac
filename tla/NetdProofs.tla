----------------------------- MODULE NetdProofs -----------------------------
(***************************************************************************)
(* The safety of netd's identity, and of its self-update.                  *)
(*                                                                         *)
(* The identity, for any number of /24s, slots and connections: the device *)
(* never outlives the identity it was built from, and a restart keeps what *)
(* the ledger records, however stale it is. The second is about a daemon   *)
(* that dies inside a handler: the invariant says which connections an     *)
(* interconnect handler can be running on, and so which addresses of       *)
(* bridge0 a death may leave half done.                                    *)
(*                                                                         *)
(* The self-update, for any number of connections, requests, archives and  *)
(* releases, through crashes of the daemon, lost clients and changes of    *)
(* the archive under the daemon's hands. InstallerUndisturbed needs to     *)
(* know for whom the staging lock is held (OneRequest): a handler, the     *)
(* installer it started, or both, and always for one request.              *)
(* OnlyVerifiedInstalled needs what each check of a handler found to hold  *)
(* still when the installer starts (Checked), which rests on the lock:     *)
(* while it is held no other installer replaces the release the checks     *)
(* compared with. ReplyTrue needs the truth of every frame still on its    *)
(* way, in the order of the frames (FramesTrue), and that nothing changes  *)
(* the outcome of a request once reported (Settled); of a stream that ends *)
(* too soon, that what its client was not told of was not begun            *)
(* (SilentInv).                                                            *)
(***************************************************************************)
EXTENDS NetdIdentity, NetdUpdate, TLAPS

-----------------------------------------------------------------------------
(* The identity. *)

Steps == {"idle", "ensure", "track", "remove", "untrack", "plan", "apply", "trackMesh",
          "untrackMesh", "icEnsure", "icRemove"}
States == {"absent", "present", "wrong"}
Handlers == [step : Steps, cidr : Cidrs \cup {None}, slot : Slots]

TypeOK ==
  /\ node \in Cidrs /\ confirmed \in BOOLEAN /\ idFile \in Cidrs \cup {None}
  /\ lo0 \in SUBSET (Cidrs \cup {None}) /\ aliases \in SUBSET (Cidrs \cup {None})
  /\ dev \in Cidrs \cup {None} /\ devUp \in BOOLEAN /\ meshUp \in BOOLEAN
  /\ bridge \in [Cidrs \X Slots -> States]
  /\ owned \in [Slots -> Cidrs \cup {None}] /\ ledger \in [Slots -> Cidrs \cup {None}]
  /\ pc \in [VerbConns -> Handlers]

\* An interconnect handler runs on an interconnect connection, with an identity it read.
IcHandlers ==
  \A k \in VerbConns : pc[k].step \in {"icEnsure", "icRemove"} => k \in IcConns /\ pc[k].cidr \in Cidrs

IInv == TypeOK /\ IcHandlers /\ DeviceCarriesNode

\* The daemon with the connections K open.
IdentitySpec(K) == IdentityInit /\ [][IdentityNext(K)]_identityVars

-----------------------------------------------------------------------------
LEMMA Initial == IdentityInit => IInv
<1>. SUFFICES ASSUME IdentityInit PROVE IInv
  BY Zenon
<1>1. Idle \in Handlers
  BY IdentityAssumption, Zenon DEF Idle, Handlers, Steps
<1>2. TypeOK
  BY <1>1, IdentityAssumption, Zenon DEF IdentityInit, TypeOK, NoneOwned, States
<1>. QED  BY <1>2, Zenon DEF IdentityInit, IInv, IcHandlers, DeviceCarriesNode, Idle

\* A handler's move, to a record that is a handler's and is not an interconnect one
\* unless the connection is.
LEMMA Moves ==
  ASSUME IInv, NEW k \in VerbConns, NEW h \in Handlers, pc' = [pc EXCEPT ![k] = h],
         h.step \in {"icEnsure", "icRemove"} => k \in IcConns /\ h.cidr \in Cidrs
  PROVE  pc' \in [VerbConns -> Handlers] /\ IcHandlers'
<1>1. pc \in [VerbConns -> Handlers]
  BY Zenon DEF IInv, TypeOK
<1>2. pc' \in [VerbConns -> Handlers] /\ pc'[k] = h /\ \A j \in VerbConns \ {k} : pc'[j] = pc[j]
  BY <1>1, Zenon
<1>. QED  BY <1>2, Zenon DEF IInv, IcHandlers

\* Done, Goto and Begin are such moves.
LEMMA Finishes ==
  ASSUME IInv, NEW k \in VerbConns, Done(k)
  PROVE  pc' \in [VerbConns -> Handlers] /\ IcHandlers'
<1>1. Idle \in Handlers /\ Idle.step = "idle"
  BY IdentityAssumption, Zenon DEF Idle, Handlers, Steps
<1>. QED  BY <1>1, Moves, Zenon DEF Done

LEMMA GoesTo ==
  ASSUME IInv, NEW k \in VerbConns, NEW s \in Steps \ {"icEnsure", "icRemove"}, Goto(k, s)
  PROVE  pc' \in [VerbConns -> Handlers] /\ IcHandlers'
<1>1. pc[k] \in Handlers
  BY Zenon DEF IInv, TypeOK
<1>2. [pc[k] EXCEPT !.step = s] \in Handlers /\ [pc[k] EXCEPT !.step = s].step = s
  BY <1>1, Zenon DEF Handlers
<1>3. pc' = [pc EXCEPT ![k] = [pc[k] EXCEPT !.step = s]]
  BY Zenon DEF Goto
<1>. QED  BY <1>2, <1>3, Moves, Zenon

LEMMA Begins ==
  ASSUME IInv, NEW k \in VerbConns, NEW step \in Steps, NEW c \in Cidrs \cup {None}, NEW s \in Slots,
         Begin(k, step, c, s),
         step \in {"icEnsure", "icRemove"} => k \in IcConns /\ c \in Cidrs
  PROVE  pc' \in [VerbConns -> Handlers] /\ IcHandlers'
<1>. DEFINE h == [step |-> step, cidr |-> c, slot |-> s]
<1>1. h \in Handlers /\ h.step = step /\ h.cidr = c
  BY Zenon DEF Handlers
<1>2. pc' = [pc EXCEPT ![k] = h]
  BY Zenon DEF Begin
<1>. HIDE DEF h
<1>. QED  BY <1>1, <1>2, Moves, Zenon

-----------------------------------------------------------------------------
LEMMA AliasSteps ==
  ASSUME IInv, NEW k \in VerbConns,
         \/ \E c \in Cidrs : ValidateAlias(k, c, "ensure") \/ ValidateAlias(k, c, "remove")
         \/ EnsureAlias(k) \/ TrackAlias(k) \/ RemoveAlias(k) \/ UntrackAlias(k)
  PROVE  IInv'
<1>1. pc[k].cidr \in Cidrs \cup {None}
  BY Zenon DEF IInv, TypeOK, Handlers
<1>2. /\ UNCHANGED <<idVars, meshVars, icVars>>
      /\ lo0' \in SUBSET (Cidrs \cup {None}) /\ aliases' \in SUBSET (Cidrs \cup {None})
  BY <1>1, Zenon
     DEF ValidateAlias, EnsureAlias, TrackAlias, RemoveAlias, UntrackAlias, podVars, IInv,
         TypeOK
<1>3. \/ Done(k) \/ Goto(k, "track") \/ Goto(k, "untrack")
      \/ \E c \in Cidrs : Begin(k, "ensure", c, 0) \/ Begin(k, "remove", c, 0)
  BY Zenon DEF ValidateAlias, EnsureAlias, TrackAlias, RemoveAlias, UntrackAlias
<1>4. pc' \in [VerbConns -> Handlers] /\ IcHandlers'
  BY <1>3, Finishes, GoesTo, Begins, IdentityAssumption, Zenon DEF Steps
<1>5. TypeOK'
  BY <1>2, <1>4, Zenon DEF IInv, TypeOK, idVars, meshVars, icVars
<1>. QED  BY <1>2, <1>4, <1>5, Zenon DEF IInv, DeviceCarriesNode, idVars, meshVars

LEMMA MeshSteps ==
  ASSUME IInv, NEW k \in VerbConns,
         \/ \E c \in Cidrs : ConfigureMesh(k, c)
         \/ ValidatePlan(k) \/ ApplyPlan(k) \/ TrackMesh(k) \/ RemoveMesh(k) \/ UntrackMesh(k)
  PROVE  IInv'
<1>1. UNCHANGED <<podVars, icVars>>
  BY Zenon DEF ConfigureMesh, ValidatePlan, ApplyPlan, TrackMesh, RemoveMesh, UntrackMesh
<1>2. /\ node' \in Cidrs /\ confirmed' \in BOOLEAN /\ idFile' \in Cidrs \cup {None}
      /\ dev' \in Cidrs \cup {None} /\ devUp' \in BOOLEAN /\ meshUp' \in BOOLEAN
      /\ (dev' # None => dev' = node') /\ (devUp' => dev' = node')
  <2>1. CASE \E c \in Cidrs : ConfigureMesh(k, c)
    <3>1. PICK c \in Cidrs : Confirm(k, c) \/ Adopt(k, c)
      BY <2>1, Zenon DEF ConfigureMesh
    <3>2. UNCHANGED <<devUp, meshUp>>
      BY <2>1, Zenon DEF ConfigureMesh
    <3>3. CASE Confirm(k, c)
      BY <3>2, <3>3, Zenon DEF Confirm, IInv, TypeOK, DeviceCarriesNode
    <3>4. CASE Adopt(k, c)
      BY <3>2, <3>4, Zenon DEF Adopt, IInv, TypeOK, DeviceCarriesNode
    <3>. QED  BY <3>1, <3>3, <3>4, Zenon
  <2>2. CASE ApplyPlan(k)
    BY <2>2, Zenon DEF ApplyPlan, idVars, IInv, TypeOK, DeviceCarriesNode
  <2>3. CASE ValidatePlan(k) \/ TrackMesh(k) \/ RemoveMesh(k) \/ UntrackMesh(k)
    <3>1. UNCHANGED <<node, confirmed, idFile, dev>>
      BY <2>3, Zenon DEF ValidatePlan, TrackMesh, RemoveMesh, UntrackMesh, idVars, meshVars
    <3>2. (devUp' => devUp) /\ devUp' \in BOOLEAN /\ meshUp' \in BOOLEAN
      <4>1. devUp \in BOOLEAN /\ meshUp \in BOOLEAN
        BY Zenon DEF IInv, TypeOK
      <4>2. CASE ValidatePlan(k)
        BY <4>1, <4>2, Zenon DEF ValidatePlan, meshVars
      <4>3. CASE TrackMesh(k)
        BY <4>1, <4>3, Zenon DEF TrackMesh
      <4>4. CASE RemoveMesh(k)
        BY <4>1, <4>4, Zenon DEF RemoveMesh
      <4>5. CASE UntrackMesh(k)
        BY <4>1, <4>5, Zenon DEF UntrackMesh
      <4>. QED  BY <2>3, <4>2, <4>3, <4>4, <4>5, Zenon
    <3>. QED  BY <3>1, <3>2, Zenon DEF IInv, TypeOK, DeviceCarriesNode
  <2>. QED  BY <2>1, <2>2, <2>3, Zenon
<1>3. pc' \in [VerbConns -> Handlers] /\ IcHandlers'
  <2>1. CASE ValidatePlan(k) /\ ~Done(k)
    <3>. DEFINE h == [[pc[k] EXCEPT !.step = "apply"] EXCEPT !.cidr = node]
    <3>1. pc[k] \in Handlers /\ node \in Cidrs
      BY Zenon DEF IInv, TypeOK
    <3>2. h \in Handlers /\ h.step = "apply"
      BY <3>1, Zenon DEF Handlers, Steps
    <3>3. pc' = [pc EXCEPT ![k].step = "apply", ![k].cidr = node]
      BY <2>1, Zenon DEF ValidatePlan
    <3>4. pc' = [pc EXCEPT ![k] = h]
      BY <3>3, Zenon DEF IInv, TypeOK
    <3>. HIDE DEF h
    <3>. QED  BY <3>2, <3>4, Moves, Zenon
  <2>2. CASE ~(ValidatePlan(k) /\ ~Done(k))
    <3>1. \/ Done(k) \/ Goto(k, "trackMesh") \/ Begin(k, "plan", None, 0)
          \/ Begin(k, "untrackMesh", None, 0)
      BY <2>2, Zenon
         DEF ConfigureMesh, ValidatePlan, ApplyPlan, TrackMesh, RemoveMesh, UntrackMesh
    <3>. QED  BY <3>1, Finishes, GoesTo, Begins, IdentityAssumption, Zenon DEF Steps
  <2>. QED  BY <2>1, <2>2, Zenon
<1>4. TypeOK'
  BY <1>1, <1>2, <1>3, Zenon DEF IInv, TypeOK, podVars, icVars
<1>. QED  BY <1>2, <1>3, <1>4, Zenon DEF IInv, DeviceCarriesNode

\* An ensure leaves an address in one of its states.
LEMMA ResultStates ==
  ASSUME NEW b \in States, NEW r \in EnsureResults(b)
  PROVE  r[1] \in States
<1>1. r = <<b, FALSE>> \/ r = <<"present", TRUE>> \/ r = <<"absent", FALSE>>
  BY Zenon DEF EnsureResults
<1>2. CASE r = <<b, FALSE>>
  BY <1>2, Zenon
<1>3. CASE r = <<"present", TRUE>>
  BY <1>3, Zenon DEF States
<1>4. CASE r = <<"absent", FALSE>>
  BY <1>4, Zenon DEF States
<1>. QED  BY <1>1, <1>2, <1>3, <1>4, Zenon

LEMMA InterconnectSteps ==
  ASSUME IInv, NEW k \in VerbConns,
         \/ \E s \in Slots : \/ InterconnectTarget(k, s, "icEnsure")
                             \/ InterconnectTarget(k, s, "icRemove")
         \/ EnsureInterconnectAlias(k) \/ RemoveInterconnectAlias(k)
  PROVE  IInv'
<1>1. UNCHANGED <<idVars, podVars, meshVars>>
  BY Zenon DEF InterconnectTarget, EnsureInterconnectAlias, RemoveInterconnectAlias
<1>2. pc[k] \in Handlers /\ node \in Cidrs
  BY Zenon DEF IInv, TypeOK
<1>3. pc' \in [VerbConns -> Handlers] /\ IcHandlers'
  <2>1. \/ Done(k)
        \/ /\ k \in IcConns
           /\ \E s \in Slots : Begin(k, "icEnsure", node, s) \/ Begin(k, "icRemove", node, s)
    BY Zenon DEF InterconnectTarget, EnsureInterconnectAlias, RemoveInterconnectAlias
  <2>. QED  BY <1>2, <2>1, Finishes, Begins, Zenon DEF Steps
<1>4. /\ bridge' \in [Cidrs \X Slots -> States]
      /\ owned' \in [Slots -> Cidrs \cup {None}] /\ ledger' \in [Slots -> Cidrs \cup {None}]
  <2>1. CASE \E s \in Slots : \/ InterconnectTarget(k, s, "icEnsure")
                              \/ InterconnectTarget(k, s, "icRemove")
    BY <2>1, Zenon DEF InterconnectTarget, icVars, IInv, TypeOK
  <2>2. CASE EnsureInterconnectAlias(k)
    <3>1. Target(k) \in Cidrs \X Slots
      BY <1>2, <2>2, Zenon DEF EnsureInterconnectAlias, At, Target, IInv, IcHandlers, Handlers
    <3>2. bridge[Target(k)] \in States
      BY <3>1, Zenon DEF IInv, TypeOK
    <3>3. \A r \in EnsureResults(bridge[Target(k)]) : r[1] \in States
      BY <3>2, ResultStates, Zenon
    <3>4. bridge' \in [Cidrs \X Slots -> States]
      BY <2>2, <3>3, Zenon DEF EnsureInterconnectAlias, IInv, TypeOK
    <3>5. [owned EXCEPT ![pc[k].slot] = pc[k].cidr] \in [Slots -> Cidrs \cup {None}]
      BY <1>2, Zenon DEF IInv, TypeOK, Handlers
    <3>6. \/ UNCHANGED <<owned, ledger>>
          \/ Persist([owned EXCEPT ![pc[k].slot] = pc[k].cidr])
      BY <2>2, Zenon DEF EnsureInterconnectAlias
    <3>. QED  BY <3>4, <3>5, <3>6, Zenon DEF Persist, IInv, TypeOK
  <2>3. CASE RemoveInterconnectAlias(k)
    <3>1. [owned EXCEPT ![pc[k].slot] = None] \in [Slots -> Cidrs \cup {None}]
      BY Zenon DEF IInv, TypeOK
    <3>2. [bridge EXCEPT ![Target(k)] = "absent"] \in [Cidrs \X Slots -> States]
      BY Zenon DEF IInv, TypeOK, States
    <3>. QED  BY <2>3, <3>1, <3>2, Zenon
                 DEF RemoveInterconnectAlias, Persist, icVars, IInv, TypeOK
  <2>. QED  BY <2>1, <2>2, <2>3, Zenon
<1>5. TypeOK'
  BY <1>1, <1>3, <1>4, Zenon DEF IInv, TypeOK, idVars, podVars, meshVars
<1>. QED  BY <1>1, <1>3, <1>5, Zenon DEF IInv, DeviceCarriesNode, idVars, meshVars

\* What a death inside a handler leaves of an address that none was working on.
LEMMA InterruptedKeeps ==
  ASSUME IInv, NEW b \in Interrupted
  PROVE  /\ b \in [Cidrs \X Slots -> States]
         /\ \A c \in Cidrs, s \in Slots : b[<<c, s>>] = bridge[<<c, s>>] \/ InVerb(s)
<1>0. bridge \in [Cidrs \X Slots -> States]
  BY Zenon DEF IInv, TypeOK
<1>1. CASE b = bridge
  BY <1>0, <1>1, Zenon
<1>2. ASSUME NEW k \in VerbConns, At(k, "icEnsure") \/ At(k, "icRemove"),
             NEW x \in States, b = [bridge EXCEPT ![Target(k)] = x]
      PROVE  /\ b \in [Cidrs \X Slots -> States]
             /\ \A c \in Cidrs, s \in Slots : b[<<c, s>>] = bridge[<<c, s>>] \/ InVerb(s)
  <2>1. k \in IcConns /\ pc[k] # Idle
    BY <1>2 DEF At, Idle, IInv, IcHandlers
  <2>2. ASSUME NEW c \in Cidrs, NEW s \in Slots
        PROVE  b[<<c, s>>] = bridge[<<c, s>>] \/ InVerb(s)
    <3>1. CASE Target(k) = <<c, s>>
      <4>1. pc[k].slot = s
        BY <3>1, Zenon DEF Target
      <4>. QED  BY <2>1, <4>1, Zenon DEF InVerb
    <3>2. CASE Target(k) # <<c, s>>
      <4>1. <<c, s>> \in Cidrs \X Slots
        BY Zenon
      <4>. QED  BY <1>0, <1>2, <3>2, <4>1, Zenon
    <3>. QED  BY <3>1, <3>2, Zenon
  <2>. QED  BY <1>0, <1>2, <2>2, Zenon
<1>3. ASSUME NEW k \in VerbConns, At(k, "icEnsure"), NEW r \in EnsureResults(bridge[Target(k)]),
             b = [bridge EXCEPT ![Target(k)] = r[1]]
      PROVE  /\ b \in [Cidrs \X Slots -> States]
             /\ \A c \in Cidrs, s \in Slots : b[<<c, s>>] = bridge[<<c, s>>] \/ InVerb(s)
  <2>1. pc[k].cidr \in Cidrs /\ pc[k].slot \in Slots
    BY <1>3, Zenon DEF At, IInv, IcHandlers, TypeOK, Handlers
  <2>2. bridge[Target(k)] \in States
    BY <1>0, <2>1, Zenon DEF Target
  <2>3. r[1] \in States
    BY <2>2, ResultStates, Zenon
  <2>. QED  BY <1>2, <1>3, <2>3, Zenon
<1>4. \/ b = bridge
      \/ \E k \in VerbConns : At(k, "icEnsure") /\ \E r \in EnsureResults(bridge[Target(k)]) :
                            b = [bridge EXCEPT ![Target(k)] = r[1]]
      \/ \E k \in VerbConns : At(k, "icRemove") /\ b = [bridge EXCEPT ![Target(k)] = "absent"]
  <2>. DEFINE Ensured(k) ==
         {[bridge EXCEPT ![Target(k)] = r[1]] : r \in EnsureResults(bridge[Target(k)])}
  <2>1. \/ b = bridge
        \/ b \in UNION {Ensured(k) : k \in {j \in VerbConns : At(j, "icEnsure")}}
        \/ b \in {[bridge EXCEPT ![Target(k)] = "absent"] :
                   k \in {j \in VerbConns : At(j, "icRemove") /\ MayRemove(j)}}
    BY Zenon DEF Interrupted
  <2>2. CASE b \in UNION {Ensured(k) : k \in {j \in VerbConns : At(j, "icEnsure")}}
    <3>1. PICK k \in VerbConns : At(k, "icEnsure") /\ b \in Ensured(k)
      BY <2>2, Zenon
    <3>2. \E r \in EnsureResults(bridge[Target(k)]) : b = [bridge EXCEPT ![Target(k)] = r[1]]
      BY <3>1, Zenon
    <3>. QED  BY <3>1, <3>2, Zenon
  <2>3. CASE b \in {[bridge EXCEPT ![Target(k)] = "absent"] :
                     k \in {j \in VerbConns : At(j, "icRemove") /\ MayRemove(j)}}
    BY <2>3, Zenon
  <2>. QED  BY <2>1, <2>2, <2>3, Zenon
<1>. QED  BY <1>1, <1>2, <1>3, <1>4, Zenon DEF States

\* The slots of the restored identity, from a ledger that is current.
LEMMA RestartStep ==
  ASSUME IInv, Restart
  PROVE  IInv'
<1>1. /\ node' \in Cidrs /\ confirmed' \in BOOLEAN /\ aliases' = {} /\ dev' = None
      /\ devUp' = FALSE /\ meshUp' = FALSE /\ idFile' = idFile /\ lo0' = lo0
      /\ pc' = [k \in VerbConns |-> Idle]
  BY IdentityAssumption, Zenon DEF Restart, IInv, TypeOK
<1>2. Idle \in Handlers /\ Idle.step = "idle"
  BY IdentityAssumption, Zenon DEF Idle, Handlers, Steps
<1>3. pc' \in [VerbConns -> Handlers] /\ IcHandlers'
  BY <1>1, <1>2, Zenon DEF IcHandlers
<1>4. PICK b \in Interrupted :
        IF idFile = None THEN bridge' = b /\ Persist(NoneOwned) ELSE ReconcileInterconnect(b, idFile)
  BY Zenon DEF Restart
<1>5. b \in [Cidrs \X Slots -> States]
  BY InterruptedKeeps, Zenon
<1>6. bridge' \in [Cidrs \X Slots -> States]
  BY <1>4, <1>5, Zenon DEF ReconcileInterconnect, States
<1>7. idFile # None => Restored(idFile) \in [Slots -> Cidrs \cup {None}]
  BY Zenon DEF Restored, IInv, TypeOK
<1>8. Persist(NoneOwned) \/ (idFile # None /\ Persist(Restored(idFile)))
  BY <1>4, Zenon DEF ReconcileInterconnect
<1>9. owned' \in [Slots -> Cidrs \cup {None}] /\ ledger' \in [Slots -> Cidrs \cup {None}]
  BY <1>7, <1>8, Zenon DEF Persist, NoneOwned, IInv, TypeOK
<1>10. TypeOK'
  BY <1>1, <1>3, <1>6, <1>9, Zenon DEF IInv, TypeOK
<1>. QED  BY <1>1, <1>3, <1>10, Zenon DEF IInv, DeviceCarriesNode

LEMMA DisturbStep ==
  ASSUME IInv, NEW a \in Cidrs \X Slots, NEW b \in {"absent", "wrong"}, Disturb(a, b)
  PROVE  IInv'
<1>1. UNCHANGED <<owned, ledger, idVars, podVars, meshVars, pc>>
  BY Zenon DEF Disturb
<1>2. bridge' \in [Cidrs \X Slots -> States]
  BY Zenon DEF Disturb, IInv, TypeOK, States
<1>3. TypeOK'
  BY <1>1, <1>2, Zenon DEF IInv, TypeOK, idVars, podVars, meshVars
<1>. QED  BY <1>1, <1>3, Zenon DEF IInv, IcHandlers, DeviceCarriesNode, idVars, meshVars

LEMMA Preserved ==
  ASSUME NEW K \in SUBSET VerbConns, IInv, [IdentityNext(K)]_identityVars
  PROVE  IInv'
<1>1. ASSUME NEW k \in K, Handler(k) PROVE IInv'
  BY <1>1, AliasSteps, MeshSteps, InterconnectSteps, Zenon DEF Handler
<1>2. CASE Restart
  BY <1>2, RestartStep, Zenon
<1>3. CASE UNCHANGED identityVars
  <2>1. TypeOK'
    BY <1>3, Zenon DEF IInv, TypeOK, identityVars, idVars, podVars, meshVars, icVars
  <2>. QED  BY <1>3, <2>1, Zenon
               DEF IInv, IcHandlers, DeviceCarriesNode, identityVars, idVars, meshVars
<1>. QED  BY <1>1, <1>2, <1>3, DisturbStep, Zenon DEF IdentityNext

LEMMA Invariance ==
  ASSUME NEW CONSTANT K \in SUBSET VerbConns
  PROVE  IdentitySpec(K) => []IInv
<1>1. IInv /\ [IdentityNext(K)]_identityVars => IInv'
  BY Preserved, Zenon
<1>. QED  BY <1>1, Initial, PTL DEF IdentitySpec

-----------------------------------------------------------------------------
\* The WireGuard device carries the identity the daemon believes in, and no adoption takes
\* away one that is up, whichever connections configure and remove the mesh at once
\* (handleConfigureMesh, adoptNodePodCIDR).
THEOREM DeviceIdentity ==
  ASSUME NEW CONSTANT K \in SUBSET VerbConns
  PROVE  IdentitySpec(K) => []DeviceCarriesNode
<1>1. IInv => DeviceCarriesNode
  BY Zenon DEF IInv
<1>. QED  BY <1>1, Invariance, PTL

\* A restart leaves alone every interconnect address that does not derive from the identity
\* on file, and of that identity's keeps what the ledger records, owned and on bridge0, and
\* the /24 of slot 0 under a recorded rider, unless the daemon died inside a verb for that
\* slot (restoreInterconnect, reconcileInterconnectAtStart).
THEOREM OwnedSurvivesRestart ==
  ASSUME NEW CONSTANT K \in SUBSET VerbConns
  PROVE  IdentitySpec(K) => RestartKeepsOwned
<1>. DEFINE Others == \A a \in Cidrs \X Slots : a[1] # idFile => Stays(a)
            Kept(s) == /\ owned'[s] = idFile /\ Stays(<<idFile, s>>)
                       /\ s # 0 /\ bridge'[<<idFile, s>>] # "absent" => Stays(<<idFile, 0>>)
            Keeps == Restart => Others /\ \A s \in Slots : idFile # None /\ ledger[s] = idFile => Kept(s)
<1>1. ASSUME IInv, Restart PROVE Others
  <2>1. PICK b \in Interrupted : \A a \in Cidrs \X Slots : a[1] # idFile => bridge'[a] = b[a]
    BY <1>1, InterruptedKeeps, Zenon DEF Restart, ReconcileInterconnect
  <2>2. \A a \in Cidrs \X Slots : b[a] = bridge[a] \/ InVerb(a[2])
    <3>1. \A a \in Cidrs \X Slots : a[1] \in Cidrs /\ a[2] \in Slots /\ a = <<a[1], a[2]>>
      OBVIOUS
    <3>. QED  BY <1>1, <3>1, InterruptedKeeps, Zenon
  <2>. QED  BY <2>1, <2>2, Zenon DEF Stays
<1>2. ASSUME IInv, Restart, NEW s \in Slots, idFile # None, ledger[s] = idFile PROVE Kept(s)
  <2>1. idFile \in Cidrs /\ <<idFile, s>> \in Cidrs \X Slots /\ <<idFile, 0>> \in Cidrs \X Slots
    BY <1>2, IdentityAssumption, Zenon DEF IInv, TypeOK
  <2>2. PICK b \in Interrupted : ReconcileInterconnect(b, idFile)
    BY <1>2, Zenon DEF Restart
  <2>3. Restored(idFile)[s] = idFile
    BY <1>2, Zenon DEF Restored
  <2>4. owned'[s] = idFile
    BY <2>2, <2>3, Zenon DEF ReconcileInterconnect, Persist
  <2>5. PICK gone \in SUBSET StaleSlots(b, idFile) :
          bridge' = [a \in Cidrs \X Slots |-> IF a[1] = idFile /\ a[2] \in gone THEN "absent" ELSE b[a]]
    BY <2>2, Zenon DEF ReconcileInterconnect
  <2>6. \A r \in {s, 0} : r \notin gone => Stays(<<idFile, r>>)
    <3>1. \A r \in {s, 0} : r \notin gone => bridge'[<<idFile, r>>] = b[<<idFile, r>>]
      BY <2>1, <2>5, Zenon
    <3>2. \A r \in {s, 0} : b[<<idFile, r>>] = bridge[<<idFile, r>>] \/ InVerb(r)
      BY <1>2, <2>1, InterruptedKeeps, IdentityAssumption, Zenon
    <3>. QED  BY <3>1, <3>2, Zenon DEF Stays
  <2>7. s \notin gone
    BY <1>2, <2>3, Zenon DEF StaleSlots
  <2>8. s # 0 /\ bridge'[<<idFile, s>>] # "absent" => 0 \notin gone
    <3>1. bridge'[<<idFile, s>>] = b[<<idFile, s>>]
      BY <2>1, <2>5, <2>7, Zenon
    <3>. QED  BY <2>3, <3>1, Zenon DEF StaleSlots
  <2>. QED  BY <2>4, <2>6, <2>7, <2>8, Zenon
<1>3. IInv => Keeps
  BY <1>1, <1>2, Zenon
<1>4. RestartKeepsOwned <=> [][Keeps]_identityVars
  BY PTL DEF RestartKeepsOwned
<1>. QED  BY <1>3, <1>4, Invariance, PTL DEF IdentitySpec


-----------------------------------------------------------------------------
(* The self-update. *)

\* What the state holds; a handler that is not resting has its request's fields.
Phases == {"Verifying", "Installing", "Done", "Failed"}
Progress == {"admit", "verify", "lock", "copy", "extract", "inspect", "compare", "ack", "wait", "abandoned"}
Holding == Progress \ {"admit", "verify", "lock"}
Unpacked == Holding \ {"copy", "extract"}
Launched == {"wait", "abandoned"}
Updates == [pc : Progress, id : Requests, req : UpdateRequests, copy : Digests,
            run : {"none", "starting", "running", "ok", "err"}]
Calls == [pc : {"reading", "returned"}, id : Requests, installing : BOOLEAN,
          last : Phases \cup {"", "error", "cancelled", "Restarting"}]
Installers == [id : Requests, digest : Digests, req : UpdateRequests]
Active(h) == handler[h] # Resting

UpdateTypeOK ==
  /\ asked \in 0..MaxRequests /\ archive \in Digests
  /\ lock \subseteq Clients \cup Requests /\ installers \subseteq Installers
  /\ handler \in [Clients -> Updates \cup {Resting}]

\* A request has one handler, and an installer whose handler is still there is the one
\* that handler started and waits for, or has left.
OwnIds ==
  /\ \A h \in Clients : Active(h) => handler[h].id <= asked
  /\ \A g, h \in Clients : Active(g) /\ Active(h) /\ handler[g].id = handler[h].id => g = h
  /\ \A i \in installers : i.id <= asked
  /\ \A i \in installers, h \in Clients :
       Active(h) /\ handler[h].id = i.id => handler[h].pc \in Launched /\ handler[h].run = "running"
  /\ \A h \in Clients : Active(h) => (handler[h].pc \in Launched <=> handler[h].run # "none")

\* The staging lock is held for one request: by its handler, its installer, or both.
OneRequest ==
  /\ \A h \in Clients : h \in lock <=> handler[h].pc \in Holding
  /\ \A g, h \in Clients : g \in lock /\ h \in lock => g = h
  /\ \A n \in lock \ Clients : \E i \in installers : i.id = n
  /\ \A i \in installers, h \in Clients : h \in lock => handler[h].id = i.id

\* The directory is there as long as the request that unpacked it holds the lock.
DirKept == \A h \in Clients : handler[h].pc \in Unpacked => handler[h].id \in dirs

\* What each check has found still holds when the installer is started.
Signed(c) ==
  \A f \in MachOs(c) :
    f.sig.valid /\ (team(InstalledSig(installed)) # "" => team(f.sig) = team(InstalledSig(installed)))
NotBelow(r) == r.payload.allow \/ NotDowngrade(r.payload.version, installedVersion)
Vetted(u) ==
  /\ u.pc \in Holding \cup {"lock"} => verifyUpdatePayload(u.req, TRUE)
  /\ u.pc \in Holding \ {"copy"} => u.copy = u.req.payload.sha256
  /\ u.pc \in {"compare", "ack"} => Signed(u.copy)
  /\ u.pc = "ack" => NotBelow(u.req)
  /\ u.pc \in Launched /\ u.run = "starting" => Signed(u.copy) /\ NotBelow(u.req)
Checked == \A h \in Clients : Active(h) => Vetted(handler[h])
NoneBelow == \A i \in installers : NotBelow(i.req)

UpdateInv ==
  /\ UpdateTypeOK /\ OwnIds /\ OneRequest /\ DirKept /\ InstallerUndisturbed
  /\ Checked /\ OnlyVerifiedInstalled /\ NoneBelow

-----------------------------------------------------------------------------
(* The frames of a reply. *)

\* The frames on their way, with what became of their request and whether the client
\* has read an Installing, tell the truth in their order.
Announced(fs) == \E k \in 1..Len(fs) : fs[k] = "Installing"
Truthful(fs, what, read) ==
  \A k \in 1..Len(fs) :
    /\ fs[k] = "Done" => what = "ok"
    /\ fs[k] = "Failed" => what = "refused" \/ read \/ \E j \in 1..(k - 1) : fs[j] = "Installing"

\* A frame at the end, and one taken from the front.
LEMMA TruthfulAppend ==
  ASSUME NEW fs \in Seq(Phases), NEW phase \in Phases, NEW what, NEW read \in BOOLEAN, Truthful(fs, what, read),
         phase = "Done" => what = "ok",
         phase = "Failed" => what = "refused" \/ read \/ Announced(fs)
  PROVE  Truthful(Append(fs, phase), what, read)
<1>1. Len(fs) \in Nat /\ Len(Append(fs, phase)) = Len(fs) + 1 /\ Append(fs, phase)[Len(fs) + 1] = phase
      /\ \A k \in 1..Len(fs) : Append(fs, phase)[k] = fs[k]
  OBVIOUS
<1> DEFINE gs == Append(fs, phase)
<1> HIDE DEF gs
<1> SUFFICES ASSUME NEW k \in 1..Len(gs)
             PROVE  /\ gs[k] = "Done" => what = "ok"
                    /\ gs[k] = "Failed" => what = "refused" \/ read \/ \E j \in 1..(k - 1) : gs[j] = "Installing"
  BY Zenon DEF Truthful, gs
<1>2. CASE k \in 1..Len(fs)
  <2>1. \A j \in 1..(k - 1) : j \in 1..Len(fs)
    BY <1>1, <1>2
  <2>2. /\ fs[k] = "Done" => what = "ok"
        /\ fs[k] = "Failed" => what = "refused" \/ read \/ \E j \in 1..(k - 1) : fs[j] = "Installing"
    BY <1>2, Zenon DEF Truthful
  <2> QED
    BY <1>1, <1>2, <2>1, <2>2, Zenon DEF gs
<1>3. CASE k = Len(fs) + 1
  <2>1. gs[k] = phase /\ \A j \in 1..Len(fs) : j \in 1..(k - 1) /\ gs[j] = fs[j]
    BY <1>1, <1>3 DEF gs
  <2> QED
    BY <2>1, Zenon DEF Announced
<1> QED
  BY <1>1, <1>2, <1>3, SMTT(30) DEF gs

LEMMA AnnouncedAppend ==
  ASSUME NEW fs \in Seq(Phases), NEW phase \in Phases, Announced(fs) \/ phase = "Installing"
  PROVE  Announced(Append(fs, phase))
<1>1. Len(fs) \in Nat /\ Len(Append(fs, phase)) = Len(fs) + 1 /\ Append(fs, phase)[Len(fs) + 1] = phase
      /\ \A k \in 1..Len(fs) : Append(fs, phase)[k] = fs[k] /\ k \in 1..(Len(fs) + 1)
  OBVIOUS
<1>2. Len(fs) + 1 \in 1..(Len(fs) + 1)
  BY <1>1
<1> QED
  BY <1>1, <1>2, Zenon DEF Announced

LEMMA TruthfulTail ==
  ASSUME NEW fs \in Seq(Phases), fs # <<>>, NEW what, NEW read \in BOOLEAN, Truthful(fs, what, read),
         NEW seen \in BOOLEAN, read => seen, Head(fs) = "Installing" => seen
  PROVE  /\ Truthful(Tail(fs), what, seen)
         /\ Head(fs) = "Done" => what = "ok"
         /\ Head(fs) = "Failed" => what = "refused" \/ read
         /\ Announced(fs) => seen \/ Announced(Tail(fs))
<1>1. Len(fs) \in Nat /\ Len(fs) > 0 /\ Tail(fs) \in Seq(Phases) /\ Len(Tail(fs)) = Len(fs) - 1 /\ Head(fs) = fs[1]
  OBVIOUS
<1>2. \A k \in 1..(Len(fs) - 1) : Tail(fs)[k] = fs[k + 1]
  OBVIOUS
<1>3. 1 \in 1..Len(fs) /\ 1..(1 - 1) = {}
  BY <1>1
<1>4. /\ Head(fs) = "Done" => what = "ok"
      /\ Head(fs) = "Failed" => what = "refused" \/ read
  BY <1>1, <1>3, Zenon DEF Truthful
<1>5. ASSUME NEW k \in 2..Len(fs), fs[k] = "Installing" PROVE \E j \in 1..(Len(fs) - 1) : j = k - 1 /\ Tail(fs)[j] = "Installing"
  <2>1. k - 1 \in 1..(Len(fs) - 1) /\ (k - 1) + 1 = k
    BY <1>1
  <2> QED
    BY <1>2, <1>5, <2>1, Zenon
<1>6. Announced(fs) => seen \/ Announced(Tail(fs))
  <2> SUFFICES ASSUME NEW k \in 1..Len(fs), fs[k] = "Installing" PROVE seen \/ Announced(Tail(fs))
    BY Zenon DEF Announced
  <2>1. k = 1 \/ k \in 2..Len(fs)
    BY <1>1
  <2> QED
    BY <1>1, <1>5, <2>1, Zenon DEF Announced
<1>7. ASSUME NEW k \in 1..(Len(fs) - 1)
      PROVE  /\ Tail(fs)[k] = "Done" => what = "ok"
             /\ Tail(fs)[k] = "Failed" => what = "refused" \/ seen \/ \E j \in 1..(k - 1) : Tail(fs)[j] = "Installing"
  <2>1. k + 1 \in 1..Len(fs) /\ Tail(fs)[k] = fs[k + 1] /\ (k + 1) - 1 = k
    BY <1>1, <1>2
  <2>2. /\ fs[k + 1] = "Done" => what = "ok"
        /\ fs[k + 1] = "Failed" => what = "refused" \/ read \/ \E j \in 1..k : fs[j] = "Installing"
    BY <2>1, Zenon DEF Truthful
  <2>3. ASSUME NEW j \in 1..k, fs[j] = "Installing", ~seen PROVE \E m \in 1..(k - 1) : Tail(fs)[m] = "Installing"
    <3>1. j # 1
      BY <1>1, <2>3, Zenon
    <3>2. j - 1 \in 1..(k - 1) /\ j - 1 \in 1..(Len(fs) - 1) /\ (j - 1) + 1 = j
      BY <1>1, <3>1
    <3> QED
      BY <1>2, <2>3, <3>2, Zenon
  <2> QED
    BY <2>1, <2>2, <2>3, Zenon
<1> QED
  BY <1>1, <1>4, <1>6, <1>7, Zenon DEF Truthful

-----------------------------------------------------------------------------
LEMMA UpdateInitial == UpdateInit => UpdateInv
<1> SUFFICES ASSUME UpdateInit PROVE UpdateInv
  BY Zenon
<1> USE UpdateAssumption DEF UpdateInit
<1>1. UpdateTypeOK /\ \A h \in Clients : ~Active(h) /\ handler[h].pc = "idle"
  BY DEF UpdateTypeOK, Active, Resting
<1>2. OwnIds /\ OneRequest /\ DirKept /\ Checked
  BY <1>1, Zenon DEF OwnIds, OneRequest, DirKept, Checked, Holding, Unpacked, Progress
<1>3. InstallerUndisturbed /\ OnlyVerifiedInstalled /\ NoneBelow
  BY Zenon DEF InstallerUndisturbed, OnlyVerifiedInstalled, NoneBelow
<1> QED
  BY <1>1, <1>2, <1>3, Zenon DEF UpdateInv

\* A handler that is somewhere in its work.
LEMMA Working ==
  ASSUME UpdateInv, NEW h \in Clients, NEW p, p # "idle", Doing(h, p)
  PROVE  Active(h) /\ handler[h] \in Updates /\ handler[h].pc = p
BY DEF UpdateInv, UpdateTypeOK, Active, Doing, Resting

\* The rest of the system may do what it likes with what the staging does not read.
LEMMA Elsewhere ==
  ASSUME UpdateInv, archive' \in Digests, UNCHANGED <<lock, dirs, handler, installers, installed, asked>>
  PROVE  UpdateInv'
<1>1. UpdateTypeOK' /\ OwnIds' /\ OneRequest' /\ DirKept' /\ InstallerUndisturbed'
  BY DEF UpdateInv, UpdateTypeOK, OwnIds, OneRequest, DirKept, InstallerUndisturbed, Active
<1>2. Checked' /\ OnlyVerifiedInstalled' /\ NoneBelow'
  BY Zenon
     DEF UpdateInv, Checked, OnlyVerifiedInstalled, NoneBelow, Active, Vetted, Signed,
         NotBelow, installedVersion
<1> QED
  BY <1>1, <1>2, Zenon DEF UpdateInv

\* A handler goes on with its request, which has no installer.
LEMMA Advance ==
  ASSUME UpdateInv, NEW h \in Clients, Active(h), NEW u \in Updates, handler' = [handler EXCEPT ![h] = u],
         u.id = handler[h].id, \A i \in installers : i.id # u.id,
         u.pc \in Holding <=> handler[h].pc \in Holding, u.pc \in Unpacked => u.id \in dirs',
         u.pc \in Launched <=> u.run # "none", Vetted(u), dirs \subseteq dirs',
         UNCHANGED <<lock, installers, installed, asked, archive>>
  PROVE  UpdateInv'
<1>1. handler' \in [Clients -> Updates \cup {Resting}] /\ handler'[h] = u /\ u # Resting
      /\ \A g \in Clients \ {h} : handler'[g] = handler[g]
  BY DEF UpdateInv, UpdateTypeOK, Updates, Resting, Progress
<1>2. UpdateTypeOK'
  BY <1>1, Zenon DEF UpdateInv, UpdateTypeOK
<1>3. OwnIds'
  BY <1>1 DEF UpdateInv, OwnIds, Active
<1>4. OneRequest' /\ DirKept' /\ InstallerUndisturbed'
  BY <1>1 DEF UpdateInv, OneRequest, DirKept, InstallerUndisturbed
<1>5. \A v : Vetted(v) => Vetted(v)'
  BY Zenon DEF Vetted, Signed, NotBelow, installedVersion
<1>6. Checked'
  BY <1>1, <1>5, Zenon DEF UpdateInv, Checked, Active
<1>7. OnlyVerifiedInstalled' /\ NoneBelow'
  BY Zenon DEF UpdateInv, OnlyVerifiedInstalled, NoneBelow, NotBelow, installedVersion
<1> QED
  BY <1>2, <1>3, <1>4, <1>6, <1>7, Zenon DEF UpdateInv

\* A handler returns, with no installer of its request left.
LEMMA Leave ==
  ASSUME UpdateInv, NEW h \in Clients, Active(h), handler' = [handler EXCEPT ![h] = Resting],
         \A i \in installers : i.id # handler[h].id,
         dirs' = dirs \ {handler[h].id}, lock' = lock \ {h},
         UNCHANGED <<installers, installed, asked, archive>>
  PROVE  UpdateInv'
<1>1. handler' \in [Clients -> Updates \cup {Resting}] /\ handler'[h] = Resting
      /\ \A g \in Clients \ {h} : handler'[g] = handler[g]
  BY Zenon DEF UpdateInv, UpdateTypeOK
<1>2. UpdateTypeOK'
  BY <1>1, Zenon DEF UpdateInv, UpdateTypeOK
<1>3. OwnIds'
  BY <1>1 DEF UpdateInv, OwnIds, Active
<1>4. h \notin Requests /\ Resting.pc \notin Holding \cup Unpacked
  BY UpdateAssumption, Zenon DEF Requests, Resting, Holding, Unpacked, Progress
<1>5. \A i \in installers : i.id \in Requests
  BY Zenon DEF UpdateInv, UpdateTypeOK, Installers
<1>6. OneRequest'
  BY <1>1, <1>4 DEF UpdateInv, OneRequest
<1>7. InstallerUndisturbed'
  BY <1>4, <1>5, Zenon DEF UpdateInv, InstallerUndisturbed
<1>8. DirKept'
  <2>1. \A g \in Clients \ {h} : handler[g].pc \in Unpacked => Active(g)
    BY DEF Active, Resting, Unpacked, Holding, Progress
  <2> QED
    BY <1>1, <1>4, <2>1, Zenon DEF UpdateInv, OwnIds, DirKept
<1>9. Checked' /\ OnlyVerifiedInstalled' /\ NoneBelow'
  <2>1. \A v : Vetted(v) => Vetted(v)'
    BY Zenon DEF Vetted, Signed, NotBelow, installedVersion
  <2>2. Checked'
    BY <1>1, <2>1, Zenon DEF UpdateInv, Checked, Active
  <2> QED
    BY <2>2, Zenon DEF UpdateInv, OnlyVerifiedInstalled, NoneBelow, NotBelow, installedVersion
<1> QED
  BY <1>2, <1>3, <1>6, <1>7, <1>8, <1>9, Zenon DEF UpdateInv

-----------------------------------------------------------------------------
\* A refusal before the installer is started.
LEMMA Refused ==
  ASSUME UpdateInv, NEW h \in Clients, Active(h), handler[h].pc \notin Launched,
         NEW phase, NEW what, Return(h, phase, what), UNCHANGED <<installers, installed, asked, archive>>
  PROVE  UpdateInv'
<1>1. \A i \in installers : i.id # handler[h].id
  BY Zenon DEF UpdateInv, OwnIds
<1> QED
  BY <1>1, Leave, Zenon DEF Return

\* A handler moves on within its checks.
LEMMA Moved ==
  ASSUME UpdateInv, NEW h \in Clients, Active(h), handler[h].pc \notin Launched,
         NEW p \in Progress \ Launched, Then(h, p),
         p \in Holding <=> handler[h].pc \in Holding, p \in Unpacked => handler[h].id \in dirs',
         Vetted([handler[h] EXCEPT !.pc = p]), dirs \subseteq dirs',
         UNCHANGED <<lock, installers, installed, asked, archive>>
  PROVE  UpdateInv'
<1> DEFINE u == [handler[h] EXCEPT !.pc = p]
<1>1. handler[h] \in Updates /\ handler[h].run = "none"
  BY Zenon DEF UpdateInv, UpdateTypeOK, OwnIds, Active
<1>2. u \in Updates /\ u.pc = p /\ u.id = handler[h].id /\ u.run = "none"
  BY <1>1, Zenon DEF Updates
<1>3. handler' = [handler EXCEPT ![h] = u]
  BY Zenon DEF Then
<1>4. \A i \in installers : i.id # u.id
  BY <1>2, Zenon DEF UpdateInv, OwnIds
<1> HIDE DEF u
<1>5. Vetted(u)
  BY Zenon DEF u
<1> QED
  BY <1>2, <1>3, <1>4, <1>5, Advance, Zenon

\* What a record of a handler says of its checks.
LEMMA VettedFields ==
  ASSUME NEW v \in Updates, NEW p \in Progress \ Launched,
         p \in Holding \cup {"lock"} => verifyUpdatePayload(v.req, TRUE),
         p \in Holding \ {"copy"} => v.copy = v.req.payload.sha256,
         p \in {"compare", "ack"} => Signed(v.copy), p = "ack" => NotBelow(v.req)
  PROVE  Vetted([v EXCEPT !.pc = p])
<1> DEFINE u == [v EXCEPT !.pc = p]
<1>1. u.pc = p /\ u.req = v.req /\ u.copy = v.copy
  BY Zenon DEF Updates
<1> HIDE DEF u
<1>2. Vetted(u)
  BY <1>1, Zenon DEF Vetted
<1> QED
  BY <1>2, Zenon DEF u

LEMMA AdmitStep ==
  ASSUME UpdateInv, NEW h \in Clients, Admit(h) PROVE UpdateInv'
<1>1. Active(h) /\ handler[h] \in Updates /\ handler[h].pc = "admit"
  BY Working, Zenon DEF Admit
<1>2. CASE updateFailed(h)
  BY <1>1, <1>2, Refused, Zenon DEF Admit, updateFailed, diskVars, Launched
<1>3. CASE Then(h, "verify") /\ UNCHANGED <<lock, dirs>>
  <2>1. Vetted([handler[h] EXCEPT !.pc = "verify"])
    BY <1>1, VettedFields, Zenon DEF Progress, Holding, Launched
  <2> QED
    BY <1>1, <1>3, <2>1, Moved, Zenon DEF Admit, diskVars, Progress, Holding, Unpacked, Launched
<1> QED
  BY <1>2, <1>3, Zenon DEF Admit

LEMMA VerifyStep ==
  ASSUME UpdateInv, NEW h \in Clients, Verify(h) PROVE UpdateInv'
<1>1. Active(h) /\ handler[h] \in Updates /\ handler[h].pc = "verify"
  BY Working, Zenon DEF Verify
<1>2. CASE updateFailed(h)
  BY <1>1, <1>2, Refused, Zenon DEF Verify, updateFailed, diskVars, Launched
<1>3. CASE verifyUpdatePayload(handler[h].req, clusterCA') /\ Then(h, "lock") /\ UNCHANGED <<lock, dirs>>
  <2>1. verifyUpdatePayload(handler[h].req, TRUE)
    BY <1>3, Zenon DEF verifyUpdatePayload
  <2>2. Vetted([handler[h] EXCEPT !.pc = "lock"])
    BY <1>1, <2>1, VettedFields, Zenon DEF Progress, Holding, Launched
  <2> QED
    BY <1>1, <1>3, <2>2, Moved, Zenon DEF Verify, diskVars, Progress, Holding, Unpacked, Launched
<1> QED
  BY <1>2, <1>3, Zenon DEF Verify

\* The lock is free, so no installer runs: the sweep takes nothing from one.
LEMMA LockStep ==
  ASSUME UpdateInv, NEW h \in Clients, LockStaging(h) PROVE UpdateInv'
<1>1. Active(h) /\ handler[h] \in Updates /\ handler[h].pc = "lock"
  BY Working, Zenon DEF LockStaging
<1>2. CASE updateFailed(h)
  BY <1>1, <1>2, Refused, Zenon DEF LockStaging, updateFailed, diskVars, Launched
<1>3. CASE lock = {} /\ lock' = {h} /\ dirs' = {} /\ Then(h, "copy")
  <2> DEFINE u == [handler[h] EXCEPT !.pc = "copy"]
  <2>1. u \in Updates /\ u.pc = "copy" /\ u.id = handler[h].id /\ u.run = handler[h].run /\ u # Resting
    BY <1>1, Zenon DEF Updates, Progress, Resting
  <2>2. handler' = [handler EXCEPT ![h] = u]
    BY <1>3, Zenon DEF Then
  <2>3. Vetted(u)
    BY <1>1, VettedFields, Zenon DEF UpdateInv, Checked, Vetted, Progress, Holding, Launched
  <2> HIDE DEF u
  <2>4. handler' \in [Clients -> Updates \cup {Resting}] /\ handler'[h] = u
        /\ \A g \in Clients \ {h} : handler'[g] = handler[g]
    BY <2>1, <2>2, Zenon DEF UpdateInv, UpdateTypeOK
  <2>5. UNCHANGED <<installers, installed, asked, archive>>
    BY Zenon DEF LockStaging, diskVars
  <2>6. installers = {} /\ \A g \in Clients : handler[g].pc \notin Holding
    BY <1>3, Zenon DEF UpdateInv, InstallerUndisturbed, OneRequest
  <2>7. UpdateTypeOK'
    BY <1>3, <2>4, <2>5, Zenon DEF UpdateInv, UpdateTypeOK
  <2>8. OwnIds'
    BY <1>1, <2>1, <2>4, <2>5, <2>6 DEF UpdateInv, OwnIds, Active, Launched
  <2>9. OneRequest' /\ DirKept'
    BY <1>3, <2>1, <2>4, <2>5, <2>6, ZenonT(40)
       DEF UpdateInv, OneRequest, DirKept, Holding, Progress, Unpacked
  <2>10. InstallerUndisturbed' /\ OnlyVerifiedInstalled' /\ NoneBelow'
    BY <2>5, <2>6, Zenon DEF InstallerUndisturbed, OnlyVerifiedInstalled, NoneBelow
  <2>11. \A v : Vetted(v) => Vetted(v)'
    BY <2>5, Zenon DEF Vetted, Signed, NotBelow, installedVersion
  <2>12. Checked'
    BY <2>3, <2>4, <2>11, Zenon DEF UpdateInv, Checked, Active
  <2> QED
    BY <2>7, <2>8, <2>9, <2>10, <2>12, Zenon DEF UpdateInv
<1> QED
  BY <1>2, <1>3, Zenon DEF LockStaging, lockStaging, sweepUpdateDirs

LEMMA CopyStep ==
  ASSUME UpdateInv, NEW h \in Clients, CopyArchive(h) PROVE UpdateInv'
<1>1. Active(h) /\ handler[h] \in Updates /\ handler[h].pc = "copy"
  BY Working, Zenon DEF CopyArchive
<1>2. CASE updateFailed(h)
  BY <1>1, <1>2, Refused, Zenon DEF CopyArchive, updateFailed, diskVars, Launched
<1>3. CASE /\ archive = handler[h].req.payload.sha256
           /\ handler' = [handler EXCEPT ![h].pc = "extract", ![h].copy = archive]
           /\ UNCHANGED <<lock, dirs>>
  <2> DEFINE u == [handler[h] EXCEPT !.pc = "extract", !.copy = archive]
  <2>1. u \in Updates /\ u.pc = "extract" /\ u.id = handler[h].id /\ u.run = handler[h].run
        /\ u.copy = archive /\ u.req = handler[h].req
    BY <1>1, Zenon DEF Updates, Progress, UpdateInv, UpdateTypeOK
  <2>2. handler' = [handler EXCEPT ![h] = u]
    BY <1>3, Zenon
  <2> HIDE DEF u
  <2>3. verifyUpdatePayload(handler[h].req, TRUE)
    BY <1>1, Zenon DEF UpdateInv, Checked, Vetted, Progress, Holding
  <2>4. Vetted(u)
    BY <1>3, <2>1, <2>3, Zenon DEF Vetted, Launched
  <2>5. u.run = "none" /\ \A i \in installers : i.id # u.id
    BY <1>1, <2>1, Zenon DEF UpdateInv, OwnIds, Launched
  <2> QED
    BY <1>1, <1>3, <2>1, <2>2, <2>4, <2>5, Advance, Zenon
       DEF CopyArchive, diskVars, Progress, Holding, Unpacked, Launched
<1> QED
  BY <1>2, <1>3, Zenon DEF CopyArchive

\* What the handler's record says while it is past its copy.
LEMMA Copied ==
  ASSUME UpdateInv, NEW h \in Clients, Active(h), handler[h].pc \in Holding \ {"copy"}
  PROVE  /\ verifyUpdatePayload(handler[h].req, TRUE) /\ handler[h].copy = handler[h].req.payload.sha256
         /\ handler[h].pc \in {"compare", "ack"} => Signed(handler[h].copy)
BY Zenon DEF UpdateInv, Checked, Vetted

LEMMA ExtractStep ==
  ASSUME UpdateInv, NEW h \in Clients, Extract(h) PROVE UpdateInv'
<1>1. Active(h) /\ handler[h] \in Updates /\ handler[h].pc = "extract"
  BY Working, Zenon DEF Extract
<1>2. CASE updateFailed(h)
  BY <1>1, <1>2, Refused, Zenon DEF Extract, updateFailed, diskVars, Launched
<1>3. CASE dirs' = dirs \cup {handler[h].id} /\ Then(h, "inspect") /\ UNCHANGED lock
  <2>1. Vetted([handler[h] EXCEPT !.pc = "inspect"])
    BY <1>1, Copied, VettedFields, Zenon DEF Progress, Holding, Launched
  <2> QED
    BY <1>1, <1>3, <2>1, Moved, Zenon DEF Extract, diskVars, Progress, Holding, Unpacked, Launched
<1> QED
  BY <1>2, <1>3, Zenon DEF Extract

\* The policy of checkCodeSigning, for each staged Mach-O.
LEMMA SigningSigned ==
  ASSUME NEW c, NEW required, SigningAccepts(installed, c, required)
  PROVE  Signed(c)
BY Zenon DEF SigningAccepts, checkCodeSigning, Signed

LEMMA InspectStep ==
  ASSUME UpdateInv, NEW h \in Clients, Inspect(h) PROVE UpdateInv'
<1>1. Active(h) /\ handler[h] \in Updates /\ handler[h].pc = "inspect"
  BY Working, Zenon DEF Inspect
<1>2. CASE updateFailed(h)
  BY <1>1, <1>2, Refused, Zenon DEF Inspect, updateFailed, diskVars, Launched
<1>3. CASE /\ SigningAccepts(installed, handler[h].copy, handler[h].req.payload.required)
           /\ Then(h, "compare") /\ UNCHANGED <<lock, dirs>>
  <2>1. Signed(handler[h].copy)
    BY <1>3, SigningSigned, Zenon
  <2>2. Vetted([handler[h] EXCEPT !.pc = "compare"])
    BY <1>1, <2>1, Copied, VettedFields, Zenon DEF Progress, Holding, Launched
  <2>3. handler[h].id \in dirs'
    BY <1>1, <1>3, Zenon DEF UpdateInv, DirKept, Progress, Holding, Unpacked
  <2> QED
    BY <1>1, <1>3, <2>2, <2>3, Moved, Zenon
       DEF Inspect, diskVars, Progress, Holding, Unpacked, Launched
<1> QED
  BY <1>2, <1>3, Zenon DEF Inspect

LEMMA CompareStep ==
  ASSUME UpdateInv, NEW h \in Clients, CheckNotDowngrade(h) PROVE UpdateInv'
<1>1. Active(h) /\ handler[h] \in Updates /\ handler[h].pc = "compare"
  BY Working, Zenon DEF CheckNotDowngrade
<1>2. CASE updateFailed(h)
  BY <1>1, <1>2, Refused, Zenon DEF CheckNotDowngrade, updateFailed, diskVars, Launched
<1>3. CASE NotBelow(handler[h].req) /\ Then(h, "ack") /\ UNCHANGED <<lock, dirs>>
  <2>1. Vetted([handler[h] EXCEPT !.pc = "ack"])
    BY <1>1, <1>3, Copied, VettedFields, Zenon DEF Progress, Holding, Launched
  <2>2. handler[h].id \in dirs'
    BY <1>1, <1>3, Zenon DEF UpdateInv, DirKept, Progress, Holding, Unpacked
  <2> QED
    BY <1>1, <1>3, <2>1, <2>2, Moved, Zenon
       DEF CheckNotDowngrade, diskVars, Progress, Holding, Unpacked, Launched
<1> QED
  BY <1>2, <1>3, Zenon DEF CheckNotDowngrade, NotBelow

LEMMA AckStep ==
  ASSUME UpdateInv, NEW h \in Clients, AwaitAck(h) PROVE UpdateInv'
<1>1. Active(h) /\ handler[h] \in Updates /\ handler[h].pc = "ack"
  BY Working, Zenon DEF AwaitAck
<1>2. CASE Return(h, "Failed", "stopped")
  BY <1>1, <1>2, Refused, Zenon DEF AwaitAck, diskVars, Launched
<1>3. CASE handler' = [handler EXCEPT ![h].pc = "wait", ![h].run = "starting"] /\ UNCHANGED <<lock, dirs>>
  <2> DEFINE u == [handler[h] EXCEPT !.pc = "wait", !.run = "starting"]
  <2>1. u \in Updates /\ u.pc = "wait" /\ u.id = handler[h].id /\ u.run = "starting"
        /\ u.copy = handler[h].copy /\ u.req = handler[h].req
    BY <1>1, Zenon DEF Updates, Progress
  <2>2. handler' = [handler EXCEPT ![h] = u]
    BY <1>3, Zenon
  <2> HIDE DEF u
  <2>3. Vetted(handler[h])
    BY <1>1, Zenon DEF UpdateInv, Checked
  <2>4. Vetted(u)
    BY <1>1, <2>1, <2>3, Zenon DEF Vetted, Launched, Progress, Holding
  <2>5. \A i \in installers : i.id # u.id
    BY <1>1, <2>1, Zenon DEF UpdateInv, OwnIds, Launched
  <2>6. u.id \in dirs'
    BY <1>1, <1>3, <2>1, Zenon DEF UpdateInv, DirKept, Progress, Holding, Unpacked
  <2> QED
    BY <1>1, <1>3, <2>1, <2>2, <2>4, <2>5, <2>6, Advance, Zenon
       DEF AwaitAck, diskVars, Progress, Holding, Unpacked, Launched
<1> QED
  BY <1>2, <1>3, Zenon DEF AwaitAck

\* The installer's end leaves its handler to answer, with the directory to remove.
LEMMA DoneStep ==
  ASSUME UpdateInv, NEW h \in Clients, InstallerDone(h) PROVE UpdateInv'
<1>1. Active(h) /\ handler[h] \in Updates /\ handler[h].pc = "wait"
  BY Working, Zenon DEF InstallerDone
<1>2. \A i \in installers : i.id # handler[h].id
  BY <1>1, Zenon DEF InstallerDone, UpdateInv, OwnIds
<1> QED
  BY <1>1, <1>2, Leave, Zenon DEF InstallerDone, Return, diskVars

\* An abandoned handler is still the one its installer belongs to.
LEMMA AbandonStep ==
  ASSUME UpdateInv, NEW h \in Clients, Abandon(h) PROVE UpdateInv'
<1>1. Active(h) /\ handler[h] \in Updates /\ handler[h].pc = "wait"
  BY Working, Zenon DEF Abandon
<1> DEFINE u == [handler[h] EXCEPT !.pc = "abandoned"]
<1>2. u \in Updates /\ u.pc = "abandoned" /\ u.id = handler[h].id /\ u.run = handler[h].run
      /\ u.copy = handler[h].copy /\ u.req = handler[h].req /\ u # Resting
  BY <1>1, Zenon DEF Updates, Progress, Resting
<1>3. handler' = [handler EXCEPT ![h] = u] /\ UNCHANGED <<lock, dirs, installers, installed, asked, archive>>
  BY Zenon DEF Abandon, diskVars
<1> HIDE DEF u
<1>4. handler' \in [Clients -> Updates \cup {Resting}] /\ handler'[h] = u
      /\ \A g \in Clients \ {h} : handler'[g] = handler[g]
  BY <1>2, <1>3, Zenon DEF UpdateInv, UpdateTypeOK
<1>5. UpdateTypeOK'
  BY <1>3, <1>4, Zenon DEF UpdateInv, UpdateTypeOK
<1>6. OwnIds'
  BY <1>1, <1>2, <1>3, <1>4 DEF UpdateInv, OwnIds, Active, Launched
<1>7. OneRequest' /\ DirKept' /\ InstallerUndisturbed'
  BY <1>1, <1>2, <1>3, <1>4
     DEF UpdateInv, OneRequest, DirKept, InstallerUndisturbed, Progress, Holding, Unpacked
<1>8. \A v : Vetted(v) => Vetted(v)'
  BY <1>3, Zenon DEF Vetted, Signed, NotBelow, installedVersion
<1>9. Vetted(u)
  BY <1>1, <1>2, Zenon DEF UpdateInv, Checked, Vetted, Launched, Progress, Holding
<1>10. Checked'
  BY <1>4, <1>8, <1>9, Zenon DEF UpdateInv, Checked, Active
<1>11. OnlyVerifiedInstalled' /\ NoneBelow'
  BY <1>3, Zenon DEF UpdateInv, OnlyVerifiedInstalled, NoneBelow, NotBelow, installedVersion
<1> QED
  BY <1>5, <1>6, <1>7, <1>10, <1>11, Zenon DEF UpdateInv

\* The installer is started with the lock and the directory its handler holds.
LEMMA RunStep ==
  ASSUME UpdateInv, NEW h \in Clients, RunInstaller(h) PROVE UpdateInv'
<1>1. Active(h) /\ handler[h] \in Updates /\ handler[h].run = "starting" /\ handler[h].pc \in Launched
  BY DEF RunInstaller, Doing, Resting, Active, UpdateInv, UpdateTypeOK, OwnIds
<1>2. handler[h].pc \in Holding /\ handler[h].pc \in Unpacked /\ handler[h].pc \in Holding \ {"copy"}
  BY <1>1, Zenon DEF Launched, Holding, Unpacked, Progress
<1>3. h \in lock /\ handler[h].id \in dirs /\ handler[h].id \in Requests
  BY <1>1, <1>2, Zenon DEF UpdateInv, OneRequest, DirKept, Updates
<1>4. installers = {}
  BY <1>1, <1>3 DEF UpdateInv, OneRequest, OwnIds
<1>5. Vetted(handler[h])
  BY <1>1, Zenon DEF UpdateInv, Checked
<1>6. UNCHANGED <<dirs, installed, asked, archive>>
  BY Zenon DEF RunInstaller, diskVars
<1>7. ASSUME NEW r \in {"running", "err"}, handler' = [handler EXCEPT ![h].run = r]
      PROVE  \E u \in Updates :
               /\ u.pc = handler[h].pc /\ u.id = handler[h].id /\ u.run = r
               /\ u.copy = handler[h].copy /\ u.req = handler[h].req
               /\ handler' = [handler EXCEPT ![h] = u]
  <2> DEFINE u == [handler[h] EXCEPT !.run = r]
  <2>1. u \in Updates /\ u.pc = handler[h].pc /\ u.id = handler[h].id /\ u.run = r
        /\ u.copy = handler[h].copy /\ u.req = handler[h].req
    BY <1>1, <1>7, Zenon DEF Updates
  <2>2. handler' = [handler EXCEPT ![h] = u]
    BY <1>7, Zenon
  <2> HIDE DEF u
  <2> QED
    BY <2>1, <2>2, Zenon
<1>8. CASE handler' = [handler EXCEPT ![h].run = "err"] /\ UNCHANGED <<installers, lock>>
  <2>1. PICK u \in Updates :
          /\ u.pc = handler[h].pc /\ u.id = handler[h].id /\ u.run = "err"
          /\ u.copy = handler[h].copy /\ u.req = handler[h].req
          /\ handler' = [handler EXCEPT ![h] = u]
    BY <1>7, <1>8, Zenon
  <2>2. Vetted(u)
    BY <1>1, <1>5, <2>1, Zenon DEF Vetted, Launched
  <2> QED
    BY <1>1, <1>3, <1>4, <1>6, <1>8, <2>1, <2>2, Advance, Zenon
<1>9. CASE /\ installers' = installers \cup {[id |-> handler[h].id, digest |-> handler[h].copy,
                                              req |-> handler[h].req]}
           /\ handler' = [handler EXCEPT ![h].run = "running"]
           /\ lock' = lock \cup {handler[h].id}
  <2>1. PICK u \in Updates :
          /\ u.pc = handler[h].pc /\ u.id = handler[h].id /\ u.run = "running"
          /\ u.copy = handler[h].copy /\ u.req = handler[h].req
          /\ handler' = [handler EXCEPT ![h] = u]
    BY <1>7, <1>9, Zenon
  <2>2. PICK i \in Installers :
          i.id = u.id /\ i.digest = u.copy /\ i.req = u.req /\ installers' = {i}
    <3> DEFINE j == [id |-> handler[h].id, digest |-> handler[h].copy, req |-> handler[h].req]
    <3>1. j \in Installers /\ j.id = u.id /\ j.digest = u.copy /\ j.req = u.req
      BY <1>1, <2>1, Zenon DEF Updates, Installers
    <3>2. installers' = {j}
      BY <1>4, <1>9, Zenon
    <3> HIDE DEF j
    <3> QED
      BY <3>1, <3>2, Zenon
  <2>3. handler' \in [Clients -> Updates \cup {Resting}] /\ handler'[h] = u /\ u # Resting
        /\ \A g \in Clients \ {h} : handler'[g] = handler[g]
    BY <2>1 DEF UpdateInv, UpdateTypeOK, Updates, Resting
  <2>4. UpdateTypeOK'
    BY <1>3, <1>6, <1>9, <2>2, <2>3, Zenon DEF UpdateInv, UpdateTypeOK
  <2>5. OwnIds'
    BY <1>1, <1>6, <2>1, <2>2, <2>3 DEF UpdateInv, OwnIds, Active
  <2>6. u.id \notin Clients
    BY <1>3, <2>1, UpdateAssumption, Zenon DEF Requests
  <2>7. OneRequest' /\ DirKept'
    BY <1>2, <1>3, <1>4, <1>6, <1>9, <2>1, <2>2, <2>3, <2>6 DEF UpdateInv, OneRequest, DirKept
  <2>8. InstallerUndisturbed'
    BY <1>3, <1>6, <1>9, <2>1, <2>2, Zenon DEF InstallerUndisturbed
  <2>9. \A v : Vetted(v) => Vetted(v)'
    BY <1>6, Zenon DEF Vetted, Signed, NotBelow, installedVersion
  <2>10. Vetted(u)
    BY <1>1, <1>5, <2>1, Zenon DEF Vetted
  <2>11. Checked'
    BY <2>3, <2>9, <2>10, Zenon DEF UpdateInv, Checked, Active
  <2>12. verifyUpdatePayload(u.req, TRUE) /\ u.copy = u.req.payload.sha256 /\ Signed(u.copy) /\ NotBelow(u.req)
    BY <1>1, <1>2, <1>5, <2>1, Zenon DEF Vetted
  <2>13. OnlyVerifiedInstalled' /\ NoneBelow'
    BY <1>6, <2>2, <2>12, Zenon
       DEF OnlyVerifiedInstalled, Signed, NoneBelow, NotBelow, installedVersion
  <2> QED
    BY <2>4, <2>5, <2>7, <2>8, <2>11, <2>13, Zenon DEF UpdateInv
<1> QED
  BY <1>8, <1>9, Zenon DEF RunInstaller

\* An installer's end changes what is installed when nobody has checked against it.
LEMMA ExitStep ==
  ASSUME UpdateInv, NEW i \in installers, NEW ok \in BOOLEAN, NEW did \in BOOLEAN, InstallerExit(i, ok, did)
  PROVE  UpdateInv'
<1>1. installers' = {} /\ lock' = lock \ {i.id} /\ UNCHANGED <<dirs, asked, archive>> /\ i.id \in Requests
  BY Zenon DEF InstallerExit, diskVars, UpdateInv, InstallerUndisturbed, UpdateTypeOK, Installers
<1>2. \A h \in Clients : handler'[h] = IF Active(h) /\ handler[h].id = i.id
                                      THEN [handler[h] EXCEPT !.run = IF ok THEN "ok" ELSE "err"]
                                      ELSE handler[h]
  BY Zenon DEF InstallerExit, Doing, Resting, Active, UpdateInv, UpdateTypeOK, Updates, Progress
<1>3. \A h \in Clients : Active(h) => handler[h] \in Updates
  BY Zenon DEF UpdateInv, UpdateTypeOK, Active
<1>4. ASSUME NEW h \in Clients, Active(h)
      PROVE  /\ handler'[h] \in Updates /\ handler'[h].pc = handler[h].pc /\ handler'[h].id = handler[h].id
             /\ handler'[h].req = handler[h].req /\ handler'[h].copy = handler[h].copy
             /\ IF handler[h].id = i.id THEN handler'[h].run \in {"ok", "err"}
                ELSE handler'[h].run = handler[h].run
  BY <1>2, <1>3, <1>4, ZenonT(40) DEF Updates
<1>5. \A h \in Clients : ~Active(h) => handler'[h] = Resting
  BY <1>2, Zenon DEF Active
<1>6. \A h \in Clients : Active(h)' <=> Active(h)
  BY <1>4, <1>5 DEF Active, Updates, Progress, Resting
<1>7. \A h \in Clients : handler'[h].pc = handler[h].pc
  BY <1>4, <1>5, Zenon DEF Active
<1>8. UpdateTypeOK'
  <2>1. handler' = [h \in Clients |-> handler'[h]]
    BY Zenon DEF InstallerExit
  <2> QED
    BY <1>1, <1>4, <1>5, <2>1, Zenon DEF UpdateInv, UpdateTypeOK
<1>9. OwnIds'
  <2>1. ASSUME NEW h \in Clients, Active(h)
        PROVE  handler'[h].pc \in Launched <=> handler'[h].run # "none"
    BY <1>4, <2>1, ZenonT(40) DEF UpdateInv, OwnIds
  <2> QED
    BY <1>1, <1>4, <1>6, <2>1, ZenonT(40) DEF UpdateInv, OwnIds
<1>10. OneRequest' /\ DirKept'
  <2>1. i.id \notin Clients
    BY <1>1, UpdateAssumption, Zenon DEF Requests
  <2>2. \A n \in lock \ Clients : n = i.id
    BY DEF UpdateInv, OneRequest, InstallerUndisturbed
  <2>3. OneRequest'
    BY <1>1, <1>7, <2>1, <2>2, Zenon DEF UpdateInv, OneRequest
  <2>4. \A h \in Clients : handler[h].pc \in Unpacked => Active(h)
    BY DEF Active, Resting, Unpacked, Holding, Progress
  <2> QED
    BY <1>1, <1>4, <1>7, <2>3, <2>4, Zenon DEF UpdateInv, DirKept
<1>11. InstallerUndisturbed' /\ OnlyVerifiedInstalled' /\ NoneBelow'
  BY <1>1, Zenon DEF InstallerUndisturbed, OnlyVerifiedInstalled, NoneBelow
<1>12. Checked'
  <2> SUFFICES ASSUME NEW h \in Clients, Active(h) PROVE Vetted(handler[h])'
    BY <1>6, Zenon DEF Checked
  <2>1. Vetted(handler[h])
    BY Zenon DEF UpdateInv, Checked
  <2>2. CASE handler[h].pc \in Holding
    <3>1. handler[h].id = i.id /\ handler[h].pc \in Launched
      BY <2>2, ZenonT(40) DEF UpdateInv, OneRequest, OwnIds
    <3> QED
      BY <1>4, <2>1, <3>1, Zenon DEF Vetted, Launched
  <2>3. CASE handler[h].pc \notin Holding
    BY <1>4, <2>1, <2>3, Zenon DEF Vetted, Launched, Holding, Progress
  <2> QED
    BY <2>2, <2>3, Zenon
<1> QED
  BY <1>8, <1>9, <1>10, <1>11, <1>12, Zenon DEF UpdateInv

\* The daemon's end closes its descriptors; what an installer holds stays.
LEMMA DieStep ==
  ASSUME UpdateInv, Die PROVE UpdateInv'
<1>1. lock' = lock \ Clients /\ UNCHANGED <<dirs, installers, installed, asked, archive>>
  BY Zenon DEF Die, diskVars
<1>2. handler' \in [Clients -> {Resting}] /\ \A h \in Clients : ~Active(h)' /\ handler'[h].pc = "idle"
  BY Zenon DEF Die, Active, Resting
<1>3. \A i \in installers : i.id \notin Clients
  BY UpdateAssumption, Zenon DEF UpdateInv, UpdateTypeOK, Installers, Requests
<1>4. UpdateTypeOK' /\ OwnIds'
  BY <1>1, <1>2, Zenon DEF UpdateInv, UpdateTypeOK, OwnIds
<1>5. OneRequest' /\ DirKept'
  BY <1>1, <1>2, Zenon DEF UpdateInv, OneRequest, DirKept, Holding, Unpacked, Progress
<1>6. InstallerUndisturbed'
  BY <1>1, <1>3, Zenon DEF UpdateInv, InstallerUndisturbed
<1>7. Checked' /\ OnlyVerifiedInstalled' /\ NoneBelow'
  BY <1>1, <1>2, Zenon
     DEF UpdateInv, Checked, OnlyVerifiedInstalled, NoneBelow, NotBelow, installedVersion
<1> QED
  BY <1>4, <1>5, <1>6, <1>7, Zenon DEF UpdateInv

\* A new request has a number of its own.
LEMMA ApplyStep ==
  ASSUME UpdateInv, NEW h \in Clients, NEW r \in UpdateRequests, ApplyUpdate(h, r) PROVE UpdateInv'
<1> DEFINE u == [pc |-> "admit", id |-> asked', req |-> r, copy |-> FirstInstalled, run |-> "none"]
<1>1. asked \in Nat /\ asked < MaxRequests /\ asked' = asked + 1 /\ asked' \in Requests /\ asked' \in 0..MaxRequests
  <2>1. asked \in 0..MaxRequests /\ asked < MaxRequests /\ asked' = asked + 1 /\ MaxRequests \in Nat
    BY UpdateAssumption, Zenon DEF ApplyUpdate, UpdateInv, UpdateTypeOK
  <2> QED
    BY <2>1 DEF Requests
<1>2. u \in Updates /\ u.pc = "admit" /\ u.id = asked' /\ u.run = "none" /\ u # Resting
  BY <1>1, UpdateAssumption, Zenon DEF Updates, Progress, Resting
<1>3. handler' = [handler EXCEPT ![h] = u] /\ handler[h].pc = "idle"
      /\ UNCHANGED <<lock, dirs, installers, installed>>
  BY Zenon DEF ApplyUpdate, Doing
<1>4. archive' \in Digests
  BY UpdateAssumption, Zenon DEF ApplyUpdate, Payloads
<1> HIDE DEF u
<1>5. handler' \in [Clients -> Updates \cup {Resting}] /\ handler'[h] = u
      /\ \A g \in Clients \ {h} : handler'[g] = handler[g]
  BY <1>2, <1>3, Zenon DEF UpdateInv, UpdateTypeOK
<1>6. UpdateTypeOK'
  BY <1>1, <1>3, <1>4, <1>5, Zenon DEF UpdateInv, UpdateTypeOK
<1>7. \A g \in Clients : Active(g) => handler[g].id \in Nat /\ handler[g].id <= asked
  BY DEF UpdateInv, UpdateTypeOK, OwnIds, Active, Updates, Requests
<1>8. \A i \in installers : i.id \in Nat /\ i.id <= asked
  BY DEF UpdateInv, UpdateTypeOK, OwnIds, Installers, Requests
<1>9. \A n \in Nat : n <= asked => n <= asked' /\ n # asked'
  BY <1>1
<1>10. OwnIds'
  BY <1>1, <1>2, <1>3, <1>5, <1>7, <1>8, <1>9, SMTT(20) DEF UpdateInv, OwnIds, Active, Launched
<1>11. OneRequest' /\ DirKept' /\ InstallerUndisturbed'
  BY <1>2, <1>3, <1>5, SMTT(30)
     DEF UpdateInv, OneRequest, DirKept, InstallerUndisturbed, Holding, Unpacked, Progress
<1>12. \A v : Vetted(v) => Vetted(v)'
  BY <1>3, Zenon DEF Vetted, Signed, NotBelow, installedVersion
<1>13. Vetted(u)
  BY <1>2, Zenon DEF Vetted, Holding, Progress, Launched
<1>14. Checked'
  BY <1>5, <1>12, <1>13, Zenon DEF UpdateInv, Checked, Active
<1>15. OnlyVerifiedInstalled' /\ NoneBelow'
  BY <1>3, Zenon DEF UpdateInv, OnlyVerifiedInstalled, NoneBelow, NotBelow, installedVersion
<1> QED
  BY <1>6, <1>10, <1>11, <1>14, <1>15, Zenon DEF UpdateInv

\* An operator's own install takes the lock, so no handler is between its check and its run.
LEMMA DiskStep ==
  ASSUME UpdateInv, DiskChanges PROVE UpdateInv'
<1>1. UNCHANGED <<lock, dirs, handler, installers, asked>>
  BY Zenon DEF DiskChanges
<1>2. archive' \in Digests
  BY Zenon DEF DiskChanges, UpdateInv, UpdateTypeOK, diskVars
<1>3. CASE UNCHANGED installed
  BY <1>1, <1>2, <1>3, Elsewhere, Zenon
<1>4. CASE lock = {}
  <2>1. installers = {} /\ \A h \in Clients : handler[h].pc \notin Holding
    BY <1>4, Zenon DEF UpdateInv, InstallerUndisturbed, OneRequest
  <2>2. UpdateTypeOK' /\ OwnIds' /\ OneRequest' /\ DirKept'
    BY <1>1, <1>2 DEF UpdateInv, UpdateTypeOK, OwnIds, OneRequest, DirKept, Active
  <2>3. InstallerUndisturbed' /\ OnlyVerifiedInstalled' /\ NoneBelow'
    BY <1>1, <2>1, Zenon DEF InstallerUndisturbed, OnlyVerifiedInstalled, NoneBelow
  <2>4. \A h \in Clients : Active(h) => Vetted(handler[h])
    BY Zenon DEF UpdateInv, Checked
  <2>5. Checked'
    BY <1>1, <2>1, <2>4, Zenon DEF Checked, Active, Vetted, Launched, Holding, Progress
  <2> QED
    BY <2>2, <2>3, <2>5, Zenon DEF UpdateInv
<1> QED
  BY <1>3, <1>4, Zenon DEF DiskChanges

LEMMA UpdatePreserved ==
  UpdateInv /\ [UpdateNext]_updateVars => UpdateInv'
<1> SUFFICES ASSUME UpdateInv, [UpdateNext]_updateVars PROVE UpdateInv'
  BY Zenon
<1>1. ASSUME NEW h \in Clients, HandleApplyUpdate(h) PROVE UpdateInv'
  BY <1>1, AdmitStep, VerifyStep, LockStep, CopyStep, ExtractStep, InspectStep, CompareStep, AckStep,
     RunStep, DoneStep, AbandonStep, Zenon DEF HandleApplyUpdate
<1>2. ASSUME NEW h \in Clients, NEW r \in UpdateRequests, ApplyUpdate(h, r) PROVE UpdateInv'
  BY <1>2, ApplyStep, Zenon
<1>3. archive \in Digests
  BY Zenon DEF UpdateInv, UpdateTypeOK
<1>4. ASSUME NEW h \in Clients, CloseConn(h) \/ ReadFrame(h) \/ ReadEOF(h) \/ Cancel(h) PROVE UpdateInv'
  BY <1>3, <1>4, Elsewhere, Zenon DEF CloseConn, ReadFrame, ReadEOF, Cancel, diskVars
<1>5. ASSUME NEW i \in installers, NEW ok \in BOOLEAN, NEW did \in BOOLEAN, InstallerExit(i, ok, did)
      PROVE  UpdateInv'
  BY <1>5, ExitStep, Zenon
<1>6. CASE Stop \/ Start \/ UNCHANGED updateVars
  BY <1>3, <1>6, Elsewhere, Zenon DEF Stop, Start, updateVars, diskVars
<1>7. CASE Exit \/ Crash
  BY <1>7, DieStep, Zenon DEF Exit, Crash
<1>8. CASE DiskChanges
  BY <1>8, DiskStep, Zenon
<1> QED
  BY <1>1, <1>2, <1>4, <1>5, <1>6, <1>7, <1>8, Zenon DEF UpdateNext

UpdateSpec == UpdateInit /\ [][UpdateNext]_updateVars

LEMMA UpdateInvariance == UpdateSpec => []UpdateInv
BY UpdateInitial, UpdatePreserved, PTL DEF UpdateSpec

\* A running installer is the only one, and keeps its staging directory and the lock
\* (execInstaller's inherited descriptor, sweepUpdateDirs), whatever becomes of the daemon,
\* for any number of connections and requests.
THEOREM InstallerAlone == UpdateSpec => []InstallerUndisturbed
<1>1. UpdateInv => InstallerUndisturbed
  BY Zenon DEF UpdateInv
<1> QED
  BY <1>1, UpdateInvariance, PTL

\* What an installer puts in place is the archive its signed payload names and carries the
\* signatures checkCodeSigning asks for, against the release it replaces, whatever the
\* archive's owner or an operator does meanwhile.
THEOREM VerifiedInstalls == UpdateSpec => []OnlyVerifiedInstalled
<1>1. UpdateInv => OnlyVerifiedInstalled
  BY Zenon DEF UpdateInv
<1> QED
  BY <1>1, UpdateInvariance, PTL

\* While an installer runs, its payload is no release below the one installed, as
\* checkNotDowngrade found, unless it allows a downgrade.
THEOREM NoInstallBelow == UpdateSpec => []NoneBelow
<1>1. UpdateInv => NoneBelow
  BY Zenon DEF UpdateInv
<1> QED
  BY <1>1, UpdateInvariance, PTL

-----------------------------------------------------------------------------
(* The reply. *)

Outcomes == {"none", "refused", "stopped", "ran", "ok", "failed"}
ReplyTypeOK ==
  /\ conn \in [Clients -> [open : BOOLEAN, frames : Seq(Phases)]]
  /\ client \in [Clients -> Calls \cup {[pc |-> "idle"]}]
  /\ outcome \in [Requests -> Outcomes]

FramesTrue ==
  \A h \in Clients : client[h].pc # "idle" =>
    Truthful(conn[h].frames, outcome[client[h].id], client[h].installing)

\* A handler answers its own call, and announces an installer before it starts one.
Answering ==
  \A h \in Clients : Active(h) =>
    /\ client[h].pc # "idle" /\ client[h].id = handler[h].id
    /\ handler[h].pc \in {"ack", "wait", "abandoned"} /\ conn[h].open =>
         client[h].installing \/ Announced(conn[h].frames)

\* Nothing changes what became of a request that is refused, or whose installer is done.
Settled ==
  /\ \A n \in Requests : n > asked => outcome[n] = "none"
  /\ \A n \in Requests : outcome[n] \in {"refused", "ok"} => \A i \in installers : i.id # n
  /\ \A h \in Clients : Active(h) =>
       /\ outcome[handler[h].id] # "refused"
       /\ handler[h].run = "ok" <=> outcome[handler[h].id] = "ok"

ReplyInv == ReplyTypeOK /\ Answering /\ Settled /\ FramesTrue /\ FinalTrue

-----------------------------------------------------------------------------
-----------------------------------------------------------------------------
\* A frame is sent, or dropped with its connection.
LEMMA Emitted ==
  ASSUME ReplyTypeOK, NEW h \in Clients, NEW phase \in Phases, Emit(h, phase)
  PROVE  /\ conn' \in [Clients -> [open : BOOLEAN, frames : Seq(Phases)]]
         /\ \A g \in Clients \ {h} : conn'[g] = conn[g]
         /\ conn'[h].open = conn[h].open
         /\ conn'[h].frames = IF conn[h].open THEN Append(conn[h].frames, phase) ELSE conn[h].frames
<1>1. conn[h] \in [open : BOOLEAN, frames : Seq(Phases)]
  BY Zenon DEF ReplyTypeOK
<1> DEFINE fs == IF conn[h].open THEN Append(conn[h].frames, phase) ELSE conn[h].frames
           c == [conn[h] EXCEPT !.frames = fs]
<1>2. fs \in Seq(Phases)
  BY <1>1
<1>3. conn' = [conn EXCEPT ![h] = c]
  BY Zenon DEF Emit
<1> HIDE DEF fs
<1>4. c \in [open : BOOLEAN, frames : Seq(Phases)] /\ c.open = conn[h].open /\ c.frames = fs
  BY <1>1, <1>2, Zenon
<1> HIDE DEF c
<1>5. conn' \in [Clients -> [open : BOOLEAN, frames : Seq(Phases)]] /\ conn'[h] = c
      /\ \A g \in Clients \ {h} : conn'[g] = conn[g]
  BY <1>3, <1>4, Zenon DEF ReplyTypeOK
<1> QED
  BY <1>4, <1>5, Zenon DEF fs

LEMMA CallFields ==
  ASSUME ReplyInv, NEW h \in Clients, client[h].pc # "idle"
  PROVE  client[h] \in Calls /\ client[h].id \in Requests /\ client[h].installing \in BOOLEAN
<1>1. client[h] \in Calls \cup {[pc |-> "idle"]}
  BY Zenon DEF ReplyInv, ReplyTypeOK
<1>2. client[h] \in Calls
  BY <1>1
<1> QED
  BY <1>2, Zenon DEF Calls

\* What a settled outcome stands for is not undone by changing another.
LEMMA StaysTrue ==
  ASSUME ReplyInv, UNCHANGED client,
         \A n \in Requests : outcome[n] \in {"refused", "ok"} => outcome'[n] = outcome[n]
  PROVE  /\ FinalTrue'
         /\ \A h \in Clients : client[h].pc # "idle" =>
              Truthful(conn[h].frames, outcome'[client[h].id], client[h].installing)
<1>1. \A h \in Clients : client[h].pc # "idle" => client[h].id \in Requests
  BY CallFields, Zenon
<1>2. FinalTrue'
  BY <1>1, Zenon DEF ReplyInv, FinalTrue
<1>3. ASSUME NEW h \in Clients, client[h].pc # "idle"
      PROVE  Truthful(conn[h].frames, outcome'[client[h].id], client[h].installing)
  BY <1>1, <1>3, Zenon DEF ReplyInv, FramesTrue, Truthful
<1> QED
  BY <1>2, <1>3, Zenon

\* A handler that emits the truth.
LEMMA EmitsTrue ==
  ASSUME ReplyInv, NEW h \in Clients, NEW phase \in Phases, Emit(h, phase), UNCHANGED client,
         client[h].pc # "idle",
         \A n \in Requests : outcome[n] \in {"refused", "ok"} => outcome'[n] = outcome[n],
         phase = "Done" => outcome'[client[h].id] = "ok",
         phase = "Failed" /\ conn[h].open => \/ outcome'[client[h].id] = "refused"
                                             \/ client[h].installing \/ Announced(conn[h].frames)
  PROVE  FramesTrue' /\ FinalTrue'
<1>1. /\ conn' \in [Clients -> [open : BOOLEAN, frames : Seq(Phases)]]
      /\ \A g \in Clients \ {h} : conn'[g] = conn[g]
      /\ conn'[h].frames = IF conn[h].open THEN Append(conn[h].frames, phase) ELSE conn[h].frames
  BY Emitted, Zenon DEF ReplyInv
<1>2. conn[h].frames \in Seq(Phases) /\ client[h].installing \in BOOLEAN
  BY CallFields, Zenon DEF ReplyInv, ReplyTypeOK
<1>3. FinalTrue' /\ \A g \in Clients : client[g].pc # "idle" =>
                      Truthful(conn[g].frames, outcome'[client[g].id], client[g].installing)
  BY StaysTrue, Zenon
<1>4. conn[h].open => Truthful(Append(conn[h].frames, phase), outcome'[client[h].id], client[h].installing)
  BY <1>2, <1>3, TruthfulAppend, Zenon
<1>5. Truthful(conn'[h].frames, outcome'[client[h].id], client[h].installing)
  BY <1>1, <1>3, <1>4, Zenon
<1>6. FramesTrue'
  BY <1>1, <1>3, <1>5, Zenon DEF FramesTrue
<1> QED
  BY <1>3, <1>6, Zenon

\* An open connection keeps the announcement it carries.
LEMMA StaysAnnounced ==
  ASSUME ReplyTypeOK, NEW h \in Clients, NEW phase \in Phases, Emit(h, phase), conn'[h].open,
         Announced(conn[h].frames) \/ phase = "Installing"
  PROVE  Announced(conn'[h].frames)
<1>1. conn[h].open /\ conn'[h].frames = Append(conn[h].frames, phase) /\ conn[h].frames \in Seq(Phases)
  BY Emitted, Zenon DEF ReplyTypeOK
<1> QED
  BY <1>1, AnnouncedAppend, Zenon

\* A handler returns: its outcome is set for good.
LEMMA Returns ==
  ASSUME UpdateInv, ReplyInv, NEW h \in Clients, Active(h), NEW phase \in {"Done", "Failed"},
         NEW what \in Outcomes, Return(h, phase, what),
         UNCHANGED <<client, installers, asked>>,
         what = "refused" \/ what = "ok" => \A i \in installers : i.id # handler[h].id,
         phase = "Done" => what = "ok",
         phase = "Failed" => \/ what = "refused"
                             \/ handler[h].pc \in {"ack", "wait", "abandoned"},
         handler[h].run = "ok" => what = "ok"
  PROVE  ReplyInv'
<1>1. handler[h] \in Updates /\ handler[h].id \in Requests /\ client[h].pc # "idle" /\ client[h].id = handler[h].id
  BY Zenon DEF UpdateInv, UpdateTypeOK, Active, Updates, ReplyInv, Answering
<1>2. outcome' = [outcome EXCEPT ![handler[h].id] = what] /\ Emit(h, phase) /\ phase \in Phases
  BY Zenon DEF Return, Phases
<1>3. handler'[h] = Resting /\ \A g \in Clients \ {h} : handler'[g] = handler[g]
  BY Zenon DEF Return, UpdateInv, UpdateTypeOK
<1>4. /\ conn' \in [Clients -> [open : BOOLEAN, frames : Seq(Phases)]]
      /\ \A g \in Clients \ {h} : conn'[g] = conn[g]
  BY <1>2, Emitted, Zenon DEF ReplyInv
<1>5. outcome'[handler[h].id] = what /\ \A n \in Requests \ {handler[h].id} : outcome'[n] = outcome[n]
  BY <1>1, <1>2, Zenon DEF ReplyInv, ReplyTypeOK
<1>6. ReplyTypeOK'
  BY <1>1, <1>2, <1>4, Zenon DEF ReplyInv, ReplyTypeOK
<1>7. Answering'
  BY <1>3, <1>4, Zenon DEF ReplyInv, Answering, Active
<1>8. \A g \in Clients \ {h} : Active(g) => handler[g].id # handler[h].id /\ handler[g].id \in Requests
  BY Zenon DEF UpdateInv, UpdateTypeOK, OwnIds, Active, Updates
<1>9. handler[h].id <= asked
  BY Zenon DEF UpdateInv, OwnIds
<1>10. Settled'
  <2>1. \A n \in Requests : n > asked' => outcome'[n] = "none"
    <3>1. \A n \in Requests : n > asked => n # handler[h].id
      BY <1>1, <1>9 DEF UpdateInv, UpdateTypeOK, Requests
    <3> QED
      BY <1>5, <3>1, Zenon DEF ReplyInv, Settled
  <2>2. \A n \in Requests : outcome'[n] \in {"refused", "ok"} => \A i \in installers' : i.id # n
    BY <1>1, <1>5, ZenonT(40) DEF ReplyInv, Settled
  <2>3. \A g \in Clients : Active(g)' =>
          /\ outcome'[handler'[g].id] # "refused"
          /\ handler'[g].run = "ok" <=> outcome'[handler'[g].id] = "ok"
    BY <1>3, <1>5, <1>8, SMTT(30) DEF ReplyInv, Settled, Active
  <2> QED
    BY <2>1, <2>2, <2>3, Zenon DEF Settled
<1>11. \A n \in Requests : outcome[n] \in {"refused", "ok"} => outcome'[n] = outcome[n]
  BY <1>1, <1>5, ZenonT(40) DEF ReplyInv, Settled
<1>12. phase = "Failed" /\ conn[h].open => \/ outcome'[client[h].id] = "refused"
                                          \/ client[h].installing \/ Announced(conn[h].frames)
  BY <1>1, <1>5, Zenon DEF ReplyInv, Answering
<1>13. FramesTrue' /\ FinalTrue'
  BY <1>1, <1>2, <1>5, <1>11, <1>12, EmitsTrue, Zenon
<1> QED
  BY <1>6, <1>7, <1>10, <1>13, Zenon DEF ReplyInv

\* A handler goes on: with no frame, or with one that ends nothing.
LEMMA GoesOn ==
  ASSUME UpdateInv, ReplyInv, NEW h \in Clients, Active(h), NEW u \in Updates,
         handler' = [handler EXCEPT ![h] = u], u.id = handler[h].id,
         u.run = "ok" <=> handler[h].run = "ok",
         UNCHANGED <<client, installers, asked, outcome>>,
         \/ UNCHANGED conn /\ (u.pc \in {"ack", "wait", "abandoned"} =>
                                 handler[h].pc \in {"ack", "wait", "abandoned"})
         \/ Emit(h, "Verifying") /\ u.pc = "verify"
         \/ Emit(h, "Installing") /\ u.pc = "ack"
         \/ Emit(h, "Failed") /\ u.pc = "abandoned" /\ handler[h].pc = "wait"
  PROVE  ReplyInv'
<1>1. handler'[h] = u /\ u # Resting /\ \A g \in Clients \ {h} : handler'[g] = handler[g]
  BY DEF UpdateInv, UpdateTypeOK, Updates, Resting, Progress
<1>2. client[h].pc # "idle" /\ client[h].id = handler[h].id
  BY Zenon DEF ReplyInv, Answering
<1>3. Settled'
  BY <1>1 DEF ReplyInv, Settled, Active
<1>4. CASE UNCHANGED conn /\ (u.pc \in {"ack", "wait", "abandoned"} =>
                                handler[h].pc \in {"ack", "wait", "abandoned"})
  <2>1. Answering'
    BY <1>1, <1>2, <1>4, ZenonT(30) DEF ReplyInv, Answering, Active
  <2> QED
    BY <1>3, <1>4, <2>1, Zenon DEF ReplyInv, ReplyTypeOK, FramesTrue, FinalTrue
<1>5. ASSUME NEW phase \in {"Verifying", "Installing", "Failed"}, Emit(h, phase),
             u.pc \in {"ack", "wait", "abandoned"} =>
               phase = "Installing" \/ handler[h].pc \in {"ack", "wait", "abandoned"},
             phase = "Failed" => handler[h].pc = "wait"
      PROVE  ReplyInv'
  <2>1. phase \in Phases
    BY Zenon DEF Phases
  <2>2. /\ conn' \in [Clients -> [open : BOOLEAN, frames : Seq(Phases)]]
        /\ \A g \in Clients \ {h} : conn'[g] = conn[g]
        /\ conn'[h].open = conn[h].open
    BY <1>5, <2>1, Emitted, Zenon DEF ReplyInv
  <2>3. phase = "Failed" /\ conn[h].open => client[h].installing \/ Announced(conn[h].frames)
    BY <1>5, Zenon DEF ReplyInv, Answering
  <2>4. FramesTrue' /\ FinalTrue'
    BY <1>2, <1>5, <2>1, <2>3, EmitsTrue, Zenon
  <2>5. u.pc \in {"ack", "wait", "abandoned"} /\ conn'[h].open =>
          client[h].installing \/ Announced(conn'[h].frames)
    BY <1>5, <2>1, <2>2, StaysAnnounced, Zenon DEF ReplyInv, Answering
  <2>6. Answering'
    BY <1>1, <1>2, <2>2, <2>5 DEF ReplyInv, Answering, Active
  <2>7. ReplyTypeOK'
    BY <2>2, Zenon DEF ReplyInv, ReplyTypeOK
  <2> QED
    BY <1>3, <2>4, <2>6, <2>7, Zenon DEF ReplyInv
<1> QED
  BY <1>4, <1>5, Zenon

\* The checks of the handler, up to the start of its installer.
LEMMA ChecksReply ==
  ASSUME UpdateInv, ReplyInv, NEW h \in Clients,
         \/ Admit(h) \/ Verify(h) \/ LockStaging(h) \/ CopyArchive(h) \/ Extract(h) \/ Inspect(h)
         \/ CheckNotDowngrade(h)
  PROVE  ReplyInv'
<1>1. /\ Active(h) /\ handler[h] \in Updates /\ handler[h].pc \notin Launched
      /\ UNCHANGED <<client, installers, asked>>
  BY Working
     DEF Admit, Verify, LockStaging, CopyArchive, Extract, Inspect, CheckNotDowngrade, Launched
<1>2. handler[h].run = "none" /\ \A i \in installers : i.id # handler[h].id
  BY <1>1, Zenon DEF UpdateInv, OwnIds
<1>3. CASE updateFailed(h)
  BY <1>1, <1>2, <1>3, Returns, Zenon DEF updateFailed, Outcomes
<1>4. ASSUME NEW p \in Progress \ Launched, Then(h, p), UNCHANGED outcome,
             \/ UNCHANGED conn /\ p # "ack"
             \/ Emit(h, "Verifying") /\ p = "verify"
             \/ Emit(h, "Installing") /\ p = "ack"
      PROVE  ReplyInv'
  <2> DEFINE u == [handler[h] EXCEPT !.pc = p]
  <2>1. u \in Updates /\ u.pc = p /\ u.id = handler[h].id /\ u.run = handler[h].run
    BY <1>1, Zenon DEF Updates
  <2>2. handler' = [handler EXCEPT ![h] = u]
    BY <1>4, Zenon DEF Then
  <2> HIDE DEF u
  <2>3. p \notin {"wait", "abandoned"}
    BY Zenon DEF Launched
  <2> QED
    BY <1>1, <1>4, <2>1, <2>2, <2>3, GoesOn, Zenon
<1>5. CASE handler' = [handler EXCEPT ![h].pc = "extract", ![h].copy = archive] /\ UNCHANGED <<conn, outcome>>
  <2> DEFINE u == [handler[h] EXCEPT !.pc = "extract", !.copy = archive]
  <2>1. u \in Updates /\ u.pc = "extract" /\ u.id = handler[h].id /\ u.run = handler[h].run
    BY <1>1, Zenon DEF Updates, Progress, UpdateInv, UpdateTypeOK
  <2>2. handler' = [handler EXCEPT ![h] = u]
    BY <1>5, Zenon
  <2> HIDE DEF u
  <2> QED
    BY <1>1, <1>5, <2>1, <2>2, GoesOn, Zenon
<1>6. {"verify", "lock", "copy", "inspect", "compare", "ack"} \subseteq Progress \ Launched
  BY Zenon DEF Progress, Launched
<1>7. CASE Admit(h) \/ Verify(h)
  BY <1>3, <1>4, <1>6, <1>7, Zenon DEF Admit, Verify
<1>8. CASE LockStaging(h) \/ CopyArchive(h)
  BY <1>3, <1>4, <1>5, <1>6, <1>8, Zenon DEF LockStaging, CopyArchive
<1>9. CASE Extract(h) \/ Inspect(h)
  BY <1>3, <1>4, <1>6, <1>9, Zenon DEF Extract, Inspect
<1>10. CASE CheckNotDowngrade(h)
  BY <1>3, <1>4, <1>6, <1>10, Zenon DEF CheckNotDowngrade
<1> QED
  BY <1>7, <1>8, <1>9, <1>10, ZenonT(40)

\* From the acknowledgement on.
LEMMA WaitsReply ==
  ASSUME UpdateInv, ReplyInv, NEW h \in Clients, AwaitAck(h) \/ InstallerDone(h) \/ Abandon(h)
  PROVE  ReplyInv'
<1>1. Active(h) /\ handler[h] \in Updates /\ UNCHANGED <<client, installers, asked>>
      /\ handler[h].pc = IF AwaitAck(h) THEN "ack" ELSE "wait"
  BY Working, Zenon DEF AwaitAck, InstallerDone, Abandon
<1>2. CASE AwaitAck(h) /\ proc = "stopping"
  <2>1. handler[h].run = "none"
    BY <1>1, <1>2, Zenon DEF UpdateInv, OwnIds, Launched
  <2> QED
    BY <1>1, <1>2, <2>1, Returns, Zenon DEF AwaitAck, Outcomes
<1>3. CASE AwaitAck(h) /\ proc # "stopping"
  <2> DEFINE u == [handler[h] EXCEPT !.pc = "wait", !.run = "starting"]
  <2>1. u \in Updates /\ u.pc = "wait" /\ u.id = handler[h].id /\ u.run = "starting"
    BY <1>1, Zenon DEF Updates, Progress
  <2>2. handler' = [handler EXCEPT ![h] = u] /\ UNCHANGED <<conn, outcome>>
    BY <1>3, Zenon DEF AwaitAck
  <2> HIDE DEF u
  <2>3. handler[h].run = "none"
    BY <1>1, <1>3, Zenon DEF UpdateInv, OwnIds, Launched
  <2> QED
    BY <1>1, <1>3, <2>1, <2>2, <2>3, GoesOn, Zenon
<1>4. CASE InstallerDone(h)
  <2>1. handler[h].run \in {"ok", "err"} /\ handler[h].pc = "wait" /\ handler[h].id \in Requests
    BY <1>1, <1>4, Zenon DEF InstallerDone, Doing, Updates
  <2>2. \A i \in installers : i.id # handler[h].id
    BY <1>1, <2>1, Zenon DEF UpdateInv, OwnIds
  <2>3. outcome[handler[h].id] \in Outcomes
        /\ (handler[h].run = "ok" <=> outcome[handler[h].id] = "ok")
    BY <1>1, <2>1, Zenon DEF ReplyInv, ReplyTypeOK, Settled
  <2>4. Return(h, IF handler[h].run = "ok" THEN "Done" ELSE "Failed", outcome[handler[h].id])
    BY <1>4, Zenon DEF InstallerDone
  <2> QED
    BY <1>1, <2>1, <2>2, <2>3, <2>4, Returns, Zenon
<1>5. CASE Abandon(h)
  <2> DEFINE u == [handler[h] EXCEPT !.pc = "abandoned"]
  <2>1. u \in Updates /\ u.pc = "abandoned" /\ u.id = handler[h].id /\ u.run = handler[h].run
    BY <1>1, Zenon DEF Updates, Progress
  <2>2. handler' = [handler EXCEPT ![h] = u] /\ UNCHANGED outcome /\ Emit(h, "Failed") /\ handler[h].pc = "wait"
    BY <1>5, Zenon DEF Abandon, Doing
  <2> HIDE DEF u
  <2> QED
    BY <1>1, <2>1, <2>2, GoesOn, Zenon
<1> QED
  BY <1>2, <1>3, <1>4, <1>5, Zenon

\* The installer's start and its end set the outcome of its own request.
LEMMA RunReply ==
  ASSUME UpdateInv, ReplyInv, NEW h \in Clients, RunInstaller(h) PROVE ReplyInv'
<1>1. Active(h) /\ handler[h] \in Updates /\ handler[h].run = "starting" /\ handler[h].id \in Requests
      /\ handler[h].id <= asked
  BY DEF RunInstaller, Doing, Resting, Active, UpdateInv, UpdateTypeOK, OwnIds, Updates
<1>2. UNCHANGED <<conn, client, asked>>
  BY Zenon DEF RunInstaller
<1>3. PICK r \in {"running", "err"} : handler' = [handler EXCEPT ![h].run = r]
  BY Zenon DEF RunInstaller
<1>4. /\ handler'[h].pc = handler[h].pc /\ handler'[h].id = handler[h].id /\ handler'[h].run = r
      /\ handler'[h] # Resting
      /\ \A g \in Clients \ {h} : handler'[g] = handler[g]
  BY <1>1, <1>3, Zenon DEF UpdateInv, UpdateTypeOK, Updates, Resting
<1>5. PICK what \in {"ran", "failed"} : outcome' = [outcome EXCEPT ![handler[h].id] = what]
  BY Zenon DEF RunInstaller
<1>6. outcome'[handler[h].id] = what /\ \A n \in Requests \ {handler[h].id} : outcome'[n] = outcome[n]
  BY <1>1, <1>5, Zenon DEF ReplyInv, ReplyTypeOK
<1>7. \A i \in installers' : i \in installers \/ i.id = handler[h].id
  BY DEF RunInstaller
<1>8. ReplyTypeOK'
  BY <1>1, <1>2, <1>5, Zenon DEF ReplyInv, ReplyTypeOK, Outcomes
<1>9. Answering'
  BY <1>1, <1>2, <1>4, ZenonT(40) DEF ReplyInv, Answering, Active
<1>10. \A g \in Clients \ {h} : Active(g) => handler[g].id # handler[h].id /\ handler[g].id \in Requests
  BY <1>1, Zenon DEF UpdateInv, UpdateTypeOK, OwnIds, Active, Updates
<1>11. Settled'
  <2>1. \A n \in Requests : n > asked' => outcome'[n] = "none"
    <3>1. \A n \in Requests : n > asked => n # handler[h].id
      BY <1>1 DEF UpdateInv, UpdateTypeOK, Requests
    <3> QED
      BY <1>2, <1>6, <3>1, Zenon DEF ReplyInv, Settled
  <2>2. \A n \in Requests : outcome'[n] \in {"refused", "ok"} => \A i \in installers' : i.id # n
    BY <1>1, <1>5, <1>6, <1>7, Zenon DEF ReplyInv, Settled
  <2>3. \A g \in Clients : Active(g)' =>
          /\ outcome'[handler'[g].id] # "refused"
          /\ handler'[g].run = "ok" <=> outcome'[handler'[g].id] = "ok"
    BY <1>3, <1>4, <1>5, <1>6, <1>10 DEF ReplyInv, Settled, Active
  <2> QED
    BY <2>1, <2>2, <2>3, Zenon DEF Settled
<1>12. \A n \in Requests : outcome[n] \in {"refused", "ok"} => outcome'[n] = outcome[n]
  BY <1>1, <1>6, Zenon DEF ReplyInv, Settled
<1>13. FramesTrue' /\ FinalTrue'
  BY <1>2, <1>12, StaysTrue, Zenon DEF FramesTrue
<1> QED
  BY <1>8, <1>9, <1>11, <1>13, Zenon DEF ReplyInv

LEMMA ExitReply ==
  ASSUME UpdateInv, ReplyInv, NEW i \in installers, NEW ok \in BOOLEAN, NEW did \in BOOLEAN,
         InstallerExit(i, ok, did)
  PROVE  ReplyInv'
<1>1. i.id \in Requests /\ i.id <= asked /\ UNCHANGED <<conn, client, asked>> /\ installers' = {}
  BY Zenon DEF InstallerExit, UpdateInv, UpdateTypeOK, Installers, OwnIds, InstallerUndisturbed
<1> DEFINE what == IF ok THEN "ok" ELSE "failed"
<1>2. outcome' = [outcome EXCEPT ![i.id] = what] /\ what \in {"ok", "failed"} /\ (what = "ok" <=> ok)
  BY Zenon DEF InstallerExit
<1> HIDE DEF what
<1>3. outcome'[i.id] = what /\ \A n \in Requests \ {i.id} : outcome'[n] = outcome[n]
  BY <1>1, <1>2, Zenon DEF ReplyInv, ReplyTypeOK
<1>4. outcome[i.id] \notin {"refused", "ok"}
  BY <1>1, Zenon DEF ReplyInv, Settled
<1>5. \A h \in Clients : Active(h) => handler[h] \in Updates /\ handler[h].id \in Requests
  BY Zenon DEF UpdateInv, UpdateTypeOK, Active, Updates
<1>6. \A h \in Clients : handler'[h] = IF Active(h) /\ handler[h].id = i.id
                                      THEN [handler[h] EXCEPT !.run = IF ok THEN "ok" ELSE "err"]
                                      ELSE handler[h]
  BY Zenon DEF InstallerExit, Doing, Resting, Active, UpdateInv, UpdateTypeOK, Updates, Progress
<1>7. ASSUME NEW h \in Clients, Active(h)'
      PROVE  /\ Active(h) /\ handler'[h].pc = handler[h].pc /\ handler'[h].id = handler[h].id
             /\ IF handler[h].id = i.id THEN handler'[h].run = "ok" <=> ok
                ELSE handler'[h].run = handler[h].run
  BY <1>5, <1>6, <1>7, Zenon DEF Active, Updates
<1>8. ReplyTypeOK'
  BY <1>1, <1>2, Zenon DEF ReplyInv, ReplyTypeOK, Outcomes
<1>9. Answering'
  BY <1>1, <1>7, Zenon DEF ReplyInv, Answering
<1>10. Settled'
  <2>1. \A n \in Requests : n > asked' => outcome'[n] = "none"
    <3>1. \A n \in Requests : n > asked => n # i.id
      BY <1>1 DEF UpdateInv, UpdateTypeOK, Requests
    <3> QED
      BY <1>1, <1>3, <3>1, Zenon DEF ReplyInv, Settled
  <2>2. \A h \in Clients : Active(h)' =>
          /\ outcome'[handler'[h].id] # "refused"
          /\ handler'[h].run = "ok" <=> outcome'[handler'[h].id] = "ok"
    BY <1>2, <1>3, <1>5, <1>7, SMTT(30) DEF ReplyInv, Settled
  <2> QED
    BY <1>1, <2>1, <2>2, Zenon DEF Settled
<1>11. \A n \in Requests : outcome[n] \in {"refused", "ok"} => outcome'[n] = outcome[n]
  BY <1>3, <1>4, Zenon
<1>12. FramesTrue' /\ FinalTrue'
  BY <1>1, <1>11, StaysTrue, Zenon DEF FramesTrue
<1> QED
  BY <1>8, <1>9, <1>10, <1>12, Zenon DEF ReplyInv

\* The daemon's end: the frames sent are still read.
LEMMA DieReply ==
  ASSUME UpdateInv, ReplyInv, Die PROVE ReplyInv'
<1>1. UNCHANGED <<client, outcome, asked, installers>> /\ \A h \in Clients : ~Active(h)'
  BY Zenon DEF Die, Active
<1>2. \A h \in Clients : conn[h] \in [open : BOOLEAN, frames : Seq(Phases)]
  BY Zenon DEF ReplyInv, ReplyTypeOK
<1>3. \A h \in Clients : [conn[h] EXCEPT !.open = FALSE] \in [open : BOOLEAN, frames : Seq(Phases)]
                         /\ [conn[h] EXCEPT !.open = FALSE].frames = conn[h].frames
  BY <1>2, Zenon
<1>4. conn' \in [Clients -> [open : BOOLEAN, frames : Seq(Phases)]]
      /\ \A h \in Clients : conn'[h].frames = conn[h].frames
  BY <1>3, Zenon DEF Die
<1>5. ReplyTypeOK' /\ Answering'
  BY <1>1, <1>4, Zenon DEF ReplyInv, ReplyTypeOK, Answering
<1>6. Settled'
  BY <1>1, Zenon DEF ReplyInv, Settled
<1>7. FramesTrue' /\ FinalTrue'
  BY <1>1, <1>4, Zenon DEF ReplyInv, FramesTrue, FinalTrue
<1> QED
  BY <1>5, <1>6, <1>7, Zenon DEF ReplyInv

\* A new call, on a connection of its own.
LEMMA ApplyReply ==
  ASSUME UpdateInv, ReplyInv, NEW h \in Clients, NEW r \in UpdateRequests, ApplyUpdate(h, r) PROVE ReplyInv'
<1>1. asked \in Nat /\ asked' = asked + 1 /\ asked' \in Requests /\ asked' > asked
  <2>1. asked \in 0..MaxRequests /\ asked < MaxRequests /\ asked' = asked + 1 /\ MaxRequests \in Nat
    BY UpdateAssumption, Zenon DEF ApplyUpdate, UpdateInv, UpdateTypeOK
  <2> QED
    BY <2>1 DEF Requests
<1>2. UNCHANGED <<outcome, installers>>
  BY Zenon DEF ApplyUpdate
<1> DEFINE n == [open |-> TRUE, frames |-> <<>>]
           c == [pc |-> "reading", id |-> asked', last |-> "", installing |-> FALSE]
           u == [pc |-> "admit", id |-> asked', req |-> r, copy |-> FirstInstalled, run |-> "none"]
<1>3. n \in [open : BOOLEAN, frames : Seq(Phases)] /\ n.frames = <<>> /\ Len(<<>>) = 0
  OBVIOUS
<1>4. c \in Calls /\ c.pc = "reading" /\ c.id = asked'
  BY <1>1, Zenon DEF Calls
<1>5. u.pc = "admit" /\ u.id = asked' /\ u.run = "none"
  BY Zenon
<1>6. conn' = [conn EXCEPT ![h] = n] /\ client' = [client EXCEPT ![h] = c] /\ handler' = [handler EXCEPT ![h] = u]
  BY Zenon DEF ApplyUpdate
<1> HIDE DEF n, c, u
<1>7. /\ conn'[h] = n /\ client'[h] = c /\ handler'[h] = u
      /\ \A g \in Clients \ {h} : conn'[g] = conn[g] /\ client'[g] = client[g] /\ handler'[g] = handler[g]
  BY <1>6, Zenon DEF UpdateInv, UpdateTypeOK, ReplyInv, ReplyTypeOK
<1>8. ReplyTypeOK'
  BY <1>2, <1>3, <1>4, <1>6, Zenon DEF ReplyInv, ReplyTypeOK
<1>9. outcome[asked'] = "none"
  BY <1>1, Zenon DEF ReplyInv, Settled
<1>10. Answering'
  BY <1>4, <1>5, <1>7, ZenonT(40) DEF ReplyInv, Answering, Active
<1>11. Settled'
  <2>1. \A m \in Requests : m > asked' => m > asked
    BY <1>1 DEF Requests
  <2>2. \A m \in Requests : m > asked' => outcome[m] = "none"
    BY <2>1, Zenon DEF ReplyInv, Settled
  <2>3. ASSUME NEW g \in Clients, handler'[g] # Resting
        PROVE  /\ outcome[handler'[g].id] # "refused"
               /\ handler'[g].run = "ok" <=> outcome[handler'[g].id] = "ok"
    <3>1. CASE g = h
      BY <1>5, <1>7, <1>9, <3>1, Zenon
    <3>2. CASE g # h
      <4>1. handler'[g] = handler[g]
        BY <1>7, <3>2, Zenon
      <4>2. handler[g] # Resting => /\ outcome[handler[g].id] # "refused"
                                    /\ handler[g].run = "ok" <=> outcome[handler[g].id] = "ok"
        BY Zenon DEF ReplyInv, Settled, Active
      <4> QED
        BY <2>3, <4>1, <4>2, Zenon
    <3> QED
      BY <3>1, <3>2, Zenon
  <2> QED
    BY <1>2, <2>2, <2>3, Zenon DEF ReplyInv, Settled, Active
<1>12. Truthful(<<>>, outcome[asked'], FALSE) /\ Truthful(<<>>, outcome[asked'], c.installing)
  BY <1>3 DEF Truthful
<1>13. FramesTrue'
  BY <1>2, <1>3, <1>4, <1>7, <1>12, Zenon DEF ReplyInv, FramesTrue
<1>14. FinalTrue'
  BY <1>2, <1>4, <1>7, ZenonT(40) DEF ReplyInv, FinalTrue
<1> QED
  BY <1>8, <1>10, <1>11, <1>13, <1>14, Zenon DEF ReplyInv

\* A call's record and its connection change, and nothing else does.
LEMMA CallMoves ==
  ASSUME ReplyInv, NEW h \in Clients, UNCHANGED <<outcome, handler, installers, asked>>,
         client[h].pc # "idle",
         NEW d \in Calls, client' = [client EXCEPT ![h] = d], d.id = client[h].id,
         NEW n \in [open : BOOLEAN, frames : Seq(Phases)], conn' = [conn EXCEPT ![h] = n],
         Truthful(n.frames, outcome[d.id], d.installing),
         n.open => conn[h].open, client[h].installing => d.installing,
         Announced(conn[h].frames) => d.installing \/ Announced(n.frames),
         d.pc = "returned" =>
           /\ d.last = "Done" => outcome[d.id] = "ok"
           /\ d.last = "Failed" /\ ~d.installing => outcome[d.id] = "refused"
  PROVE  ReplyInv'
<1>1. /\ client'[h] = d /\ conn'[h] = n
      /\ \A g \in Clients \ {h} : client'[g] = client[g] /\ conn'[g] = conn[g]
  BY Zenon DEF ReplyInv, ReplyTypeOK
<1>2. d.pc # "idle"
  BY Zenon DEF Calls
<1>3. ReplyTypeOK'
  BY Zenon DEF ReplyInv, ReplyTypeOK
<1>4. Settled'
  BY Zenon DEF ReplyInv, Settled, Active
<1>5. ASSUME NEW g \in Clients, g # h
      PROVE  client'[g] = client[g] /\ conn'[g] = conn[g] /\ handler'[g] = handler[g]
  BY <1>1, <1>5, Zenon
<1>6. Answering'
  <2> SUFFICES ASSUME NEW g \in Clients, handler[g] # Resting
               PROVE  /\ client'[g].pc # "idle" /\ client'[g].id = handler[g].id
                      /\ handler[g].pc \in {"ack", "wait", "abandoned"} /\ conn'[g].open =>
                           client'[g].installing \/ Announced(conn'[g].frames)
    BY Zenon DEF Answering, Active
  <2>1. /\ client[g].pc # "idle" /\ client[g].id = handler[g].id
        /\ handler[g].pc \in {"ack", "wait", "abandoned"} /\ conn[g].open =>
             client[g].installing \/ Announced(conn[g].frames)
    BY Zenon DEF ReplyInv, Answering, Active
  <2>2. CASE g = h
    BY <1>1, <1>2, <2>1, <2>2, ZenonT(40)
  <2>3. CASE g # h
    BY <1>5, <2>1, <2>3, Zenon
  <2> QED
    BY <2>2, <2>3, Zenon
<1>7. FramesTrue'
  <2> SUFFICES ASSUME NEW g \in Clients, client'[g].pc # "idle"
               PROVE  Truthful(conn'[g].frames, outcome[client'[g].id], client'[g].installing)
    BY Zenon DEF FramesTrue
  <2>1. CASE g = h
    BY <1>1, <2>1, Zenon
  <2>2. CASE g # h
    BY <1>5, <2>2, Zenon DEF ReplyInv, FramesTrue
  <2> QED
    BY <2>1, <2>2, Zenon
<1>8. FinalTrue'
  <2> SUFFICES ASSUME NEW g \in Clients, client'[g].pc = "returned"
               PROVE  /\ client'[g].last = "Done" => outcome[client'[g].id] = "ok"
                      /\ client'[g].last = "Failed" /\ ~client'[g].installing =>
                           outcome[client'[g].id] = "refused"
    BY Zenon DEF FinalTrue
  <2>1. CASE g = h
    BY <1>1, <2>1, ZenonT(40)
  <2>2. CASE g # h
    <3>1. client[g].pc = "returned" =>
            /\ client[g].last = "Done" => outcome[client[g].id] = "ok"
            /\ client[g].last = "Failed" /\ ~client[g].installing => outcome[client[g].id] = "refused"
      BY Zenon DEF ReplyInv, FinalTrue
    <3> QED
      BY <1>5, <2>2, <3>1, Zenon
  <2> QED
    BY <2>1, <2>2, Zenon
<1> QED
  BY <1>3, <1>4, <1>6, <1>7, <1>8, Zenon DEF ReplyInv

LEMMA ReadStep ==
  ASSUME ReplyInv, NEW h \in Clients, ReadFrame(h) PROVE ReplyInv'
<1>1. client[h] \in Calls /\ client[h].installing \in BOOLEAN /\ client[h].pc = "reading"
  BY CallFields, Zenon DEF ReadFrame
<1>2. conn[h] \in [open : BOOLEAN, frames : Seq(Phases)] /\ conn[h].frames # <<>>
      /\ conn[h].frames \in Seq(Phases) /\ Head(conn[h].frames) \in Phases /\ Tail(conn[h].frames) \in Seq(Phases)
  <2>1. conn[h] \in [open : BOOLEAN, frames : Seq(Phases)] /\ conn[h].frames # <<>>
    BY Zenon DEF ReadFrame, ReplyInv, ReplyTypeOK
  <2> QED
    BY <2>1
<1> DEFINE f == Head(conn[h].frames)
           d == [client[h] EXCEPT !.last = f, !.installing = @ \/ f = "Installing",
                                  !.pc = IF f \in {"Done", "Failed"} THEN "returned" ELSE @]
           n == [conn[h] EXCEPT !.frames = Tail(@), !.open = @ /\ client'[h].pc = "reading"]
<1>3. client' = [client EXCEPT ![h] = d] /\ conn' = [conn EXCEPT ![h] = n]
  BY Zenon DEF ReadFrame
<1>4. UNCHANGED <<outcome, handler, installers, asked>>
  BY Zenon DEF ReadFrame
<1>5. f \in Phases
  BY <1>2, Zenon
<1> HIDE DEF f
<1>6. /\ d \in Calls /\ d.id = client[h].id /\ d.last = f /\ d.installing \in BOOLEAN
      /\ d.installing <=> client[h].installing \/ f = "Installing"
      /\ d.pc = "returned" => f \in {"Done", "Failed"}
  <2>1. (client[h].installing \/ f = "Installing") \in BOOLEAN
    BY Zenon
  <2> QED
    BY <1>1, <1>5, <2>1, Zenon DEF Calls
<1>7. n \in [open : BOOLEAN, frames : Seq(Phases)] /\ n.frames = Tail(conn[h].frames) /\ (n.open => conn[h].open)
  BY <1>2, Zenon
<1> HIDE DEF d, n
<1>8. Truthful(conn[h].frames, outcome[client[h].id], client[h].installing)
  BY <1>1, Zenon DEF ReplyInv, FramesTrue
<1>9. /\ Truthful(Tail(conn[h].frames), outcome[client[h].id], d.installing)
      /\ f = "Done" => outcome[client[h].id] = "ok"
      /\ f = "Failed" => outcome[client[h].id] = "refused" \/ client[h].installing
      /\ Announced(conn[h].frames) => d.installing \/ Announced(Tail(conn[h].frames))
  <2>1. d.installing \in BOOLEAN /\ (client[h].installing => d.installing) /\ (f = "Installing" => d.installing)
    BY <1>6, Zenon
  <2> QED
    BY <1>1, <1>2, <1>8, <2>1, TruthfulTail, ZenonT(30) DEF f
<1> QED
  BY <1>1, <1>3, <1>4, <1>6, <1>7, <1>9, CallMoves, Zenon

\* The end of the stream, the caller's cancellation and the daemon's close of a connection.
LEMMA EndStep ==
  ASSUME ReplyInv, NEW h \in Clients, ReadEOF(h) \/ Cancel(h) PROVE ReplyInv'
<1>1. client[h] \in Calls /\ client[h].installing \in BOOLEAN /\ client[h].pc = "reading"
  BY CallFields, Zenon DEF ReadEOF, Cancel
<1>2. conn[h] \in [open : BOOLEAN, frames : Seq(Phases)]
  BY Zenon DEF ReplyInv, ReplyTypeOK
<1>3. PICK last \in {"error", "cancelled", "Restarting"} : client' = [client EXCEPT ![h].pc = "returned", ![h].last = last]
  BY Zenon DEF ReadEOF, Cancel
<1> DEFINE d == [client[h] EXCEPT !.pc = "returned", !.last = last]
<1>4. client' = [client EXCEPT ![h] = d]
  BY <1>3, Zenon
<1>5. d \in Calls /\ d.id = client[h].id /\ d.last = last /\ d.installing = client[h].installing
  BY <1>1, <1>3, Zenon DEF Calls
<1>6. \E m \in [open : BOOLEAN, frames : Seq(Phases)] :
        m.frames = conn[h].frames /\ (m.open => conn[h].open) /\ conn' = [conn EXCEPT ![h] = m]
  <2>1. CASE ReadEOF(h)
    <3>1. conn' = [conn EXCEPT ![h] = conn[h]]
      BY <2>1, Zenon DEF ReadEOF, ReplyInv, ReplyTypeOK
    <3> QED
      BY <1>2, <3>1, Zenon
  <2>2. CASE Cancel(h)
    <3> DEFINE m == [conn[h] EXCEPT !.open = FALSE]
    <3>1. m \in [open : BOOLEAN, frames : Seq(Phases)] /\ m.frames = conn[h].frames /\ m.open = FALSE
      BY <1>2, Zenon
    <3>2. conn' = [conn EXCEPT ![h] = m]
      BY <2>2, Zenon DEF Cancel
    <3> HIDE DEF m
    <3> QED
      BY <3>1, <3>2, Zenon
  <2> QED
    BY <2>1, <2>2, Zenon
<1>7. PICK m \in [open : BOOLEAN, frames : Seq(Phases)] :
        m.frames = conn[h].frames /\ (m.open => conn[h].open) /\ conn' = [conn EXCEPT ![h] = m]
  BY <1>6, Zenon
<1>8. UNCHANGED <<outcome, handler, installers, asked>>
  BY Zenon DEF ReadEOF, Cancel
<1>9. Truthful(conn[h].frames, outcome[client[h].id], client[h].installing)
  BY <1>1, Zenon DEF ReplyInv, FramesTrue
<1> HIDE DEF d
<1> QED
  BY <1>1, <1>3, <1>4, <1>5, <1>7, <1>8, <1>9, CallMoves, Zenon

LEMMA CloseStep ==
  ASSUME ReplyInv, NEW h \in Clients, CloseConn(h) PROVE ReplyInv'
<1>1. conn[h] \in [open : BOOLEAN, frames : Seq(Phases)]
  BY Zenon DEF ReplyInv, ReplyTypeOK
<1> DEFINE n == [conn[h] EXCEPT !.open = FALSE]
<1>2. n \in [open : BOOLEAN, frames : Seq(Phases)] /\ n.frames = conn[h].frames /\ n.open = FALSE
  BY <1>1, Zenon
<1>3. conn' = [conn EXCEPT ![h] = n] /\ UNCHANGED <<client, outcome, handler, installers, asked>>
  BY Zenon DEF CloseConn
<1> HIDE DEF n
<1>4. conn'[h] = n /\ \A g \in Clients \ {h} : conn'[g] = conn[g]
  BY <1>3, Zenon DEF ReplyInv, ReplyTypeOK
<1>5. ReplyTypeOK'
  BY <1>2, <1>3, Zenon DEF ReplyInv, ReplyTypeOK
<1>6. Answering'
  BY <1>2, <1>3, <1>4, Zenon DEF ReplyInv, Answering, Active
<1>7. Settled' /\ FinalTrue'
  BY <1>3, Zenon DEF ReplyInv, Settled, FinalTrue, Active
<1>8. FramesTrue'
  BY <1>2, <1>3, <1>4, Zenon DEF ReplyInv, FramesTrue
<1> QED
  BY <1>5, <1>6, <1>7, <1>8, Zenon DEF ReplyInv

LEMMA ReplyInitial == UpdateInit => ReplyInv
<1> SUFFICES ASSUME UpdateInit PROVE ReplyInv
  OBVIOUS
<1>1. \A h \in Clients : ~Active(h) /\ client[h].pc = "idle"
  BY Zenon DEF UpdateInit, Active
<1>2. [open |-> FALSE, frames |-> <<>>] \in [open : BOOLEAN, frames : Seq(Phases)]
  OBVIOUS
<1>3. ReplyTypeOK
  BY <1>2, Zenon DEF UpdateInit, ReplyTypeOK, Outcomes
<1>4. Settled
  BY <1>1, Zenon DEF UpdateInit, Settled
<1> QED
  BY <1>1, <1>3, <1>4, Zenon DEF ReplyInv, Answering, FramesTrue, FinalTrue

LEMMA ReplyPreserved ==
  UpdateInv /\ ReplyInv /\ [UpdateNext]_updateVars => ReplyInv'
<1> SUFFICES ASSUME UpdateInv, ReplyInv, [UpdateNext]_updateVars PROVE ReplyInv'
  BY Zenon
<1>1. ASSUME NEW h \in Clients, HandleApplyUpdate(h) PROVE ReplyInv'
  BY <1>1, ChecksReply, WaitsReply, RunReply, Zenon DEF HandleApplyUpdate
<1>2. ASSUME NEW h \in Clients, NEW r \in UpdateRequests, ApplyUpdate(h, r) PROVE ReplyInv'
  BY <1>2, ApplyReply, Zenon
<1>3. ASSUME NEW h \in Clients, CloseConn(h) \/ ReadFrame(h) \/ ReadEOF(h) \/ Cancel(h) PROVE ReplyInv'
  BY <1>3, CloseStep, ReadStep, EndStep, Zenon
<1>4. ASSUME NEW i \in installers, NEW ok \in BOOLEAN, NEW did \in BOOLEAN, InstallerExit(i, ok, did)
      PROVE  ReplyInv'
  BY <1>4, ExitReply, Zenon
<1>5. CASE Exit \/ Crash
  BY <1>5, DieReply, Zenon DEF Exit, Crash
<1>6. CASE DiskChanges \/ Stop \/ Start \/ UNCHANGED updateVars
  <2>1. UNCHANGED <<conn, client, outcome, handler, installers, asked>>
    BY <1>6, Zenon DEF DiskChanges, Stop, Start, updateVars
  <2> QED
    BY <2>1, Zenon DEF ReplyInv, ReplyTypeOK, Answering, Settled, FramesTrue, FinalTrue, Active
<1> QED
  BY <1>1, <1>2, <1>3, <1>4, <1>5, <1>6, Zenon DEF UpdateNext

-----------------------------------------------------------------------------
(* The stream that stops short. *)

Untouched == {"none", "refused", "stopped"}

\* Installing is read, or on its way to a client that still reads; or the caller has left.
Told(h) ==
  \/ client[h].installing \/ client[h].last = "cancelled"
  \/ client[h].last # "error" /\ Announced(conn[h].frames)

OwnCalls ==
  /\ \A h \in Clients : client[h].pc # "idle" => client[h].id <= asked
  /\ \A g, h \in Clients :
       client[g].pc # "idle" /\ client[h].pc # "idle" /\ client[g].id = client[h].id => g = h
  /\ \A h \in Clients : client[h].pc = "reading" => client[h].last \in Phases \cup {""}

\* Only a stop closes the connection of a request that goes on, and a stopping daemon
\* starts no installer.
Telling ==
  \A h \in Clients : Active(h) =>
    /\ proc # "down"
    /\ handler[h].pc \in Launched => Told(h)
    /\ handler[h].pc = "ack" => Told(h) \/ proc = "stopping"
    /\ Told(h) \/ (conn[h].open /\ client[h].last # "error") \/ proc = "stopping"

Silent ==
  /\ \A i \in installers : outcome[i.id] \notin Untouched
  /\ \A h \in Clients : client[h].pc # "idle" /\ ~Told(h) => outcome[client[h].id] \in Untouched

SilentInv == OwnCalls /\ Telling /\ Silent

LEMMA EmitTells ==
  ASSUME ReplyInv, NEW h \in Clients, UNCHANGED client,
         UNCHANGED conn \/ \E phase \in Phases : Emit(h, phase)
  PROVE  \A g \in Clients : conn'[g].open = conn[g].open /\ (Told(g) => Told(g)')
<1>1. CASE UNCHANGED conn
  BY <1>1, Zenon DEF Told
<1>2. ASSUME NEW phase \in Phases, Emit(h, phase)
      PROVE  \A g \in Clients : conn'[g].open = conn[g].open /\ (Told(g) => Told(g)')
  <2>1. /\ \A g \in Clients \ {h} : conn'[g] = conn[g]
        /\ conn'[h].open = conn[h].open
        /\ conn'[h].frames = IF conn[h].open THEN Append(conn[h].frames, phase) ELSE conn[h].frames
    BY <1>2, Emitted, Zenon DEF ReplyInv
  <2>2. Announced(conn[h].frames) => Announced(conn'[h].frames)
    BY <1>2, <2>1, StaysAnnounced, Zenon DEF ReplyInv
  <2> QED
    BY <2>1, <2>2, Zenon DEF Told
<1> QED
  BY <1>1, <1>2, Zenon

\* A handler moves or returns, and settles no other request than its own.
LEMMA SilentMoves ==
  ASSUME UpdateInv, ReplyInv, SilentInv, NEW h \in Clients, Active(h),
         UNCHANGED <<client, installers, asked, proc>>,
         UNCHANGED conn \/ \E phase \in Phases : Emit(h, phase),
         NEW u, handler' = [handler EXCEPT ![h] = u],
         u # Resting => /\ u.pc \in Launched => Told(h)'
                        /\ u.pc = "ack" => Told(h)' \/ proc = "stopping",
         \/ UNCHANGED outcome
         \/ /\ \A i \in installers : i.id # handler[h].id
            /\ \E what \in Untouched : outcome' = [outcome EXCEPT ![handler[h].id] = what]
  PROVE  SilentInv'
<1>1. \A g \in Clients : conn'[g].open = conn[g].open /\ (Told(g) => Told(g)')
  BY EmitTells, Zenon
<1>2. handler'[h] = u /\ \A g \in Clients \ {h} : handler'[g] = handler[g]
  BY Zenon DEF UpdateInv, UpdateTypeOK
<1>3. OwnCalls'
  BY Zenon DEF SilentInv, OwnCalls
<1>4. Telling'
  <2> SUFFICES ASSUME NEW g \in Clients, handler'[g] # Resting
               PROVE  /\ proc' # "down"
                      /\ handler'[g].pc \in Launched => Told(g)'
                      /\ handler'[g].pc = "ack" => Told(g)' \/ proc' = "stopping"
                      /\ Told(g)' \/ (conn'[g].open /\ client'[g].last # "error") \/ proc' = "stopping"
    BY Zenon DEF Telling, Active
  <2>1. CASE g = h
    BY <1>1, <1>2, <2>1, Zenon DEF SilentInv, Telling
  <2>2. CASE g # h
    BY <1>1, <1>2, <2>2, Zenon DEF SilentInv, Telling, Active
  <2> QED
    BY <2>1, <2>2, Zenon
<1>5. \A n \in Requests : \/ outcome'[n] = outcome[n]
                          \/ outcome'[n] \in Untouched /\ \A i \in installers : i.id # n
  BY Zenon DEF ReplyInv, ReplyTypeOK
<1>6. \A g \in Clients : client[g].pc # "idle" => client[g].id \in Requests
  BY CallFields, Zenon
<1>7. \A i \in installers : i.id \in Requests
  BY Zenon DEF UpdateInv, UpdateTypeOK, Installers
<1>8. Silent'
  BY <1>1, <1>5, <1>6, <1>7, Zenon DEF SilentInv, Silent
<1> QED
  BY <1>3, <1>4, <1>8, Zenon DEF SilentInv

LEMMA ChecksSilent ==
  ASSUME UpdateInv, ReplyInv, SilentInv, NEW h \in Clients,
         \/ Admit(h) \/ Verify(h) \/ LockStaging(h) \/ CopyArchive(h) \/ Extract(h) \/ Inspect(h)
         \/ CheckNotDowngrade(h)
  PROVE  SilentInv'
<1>1. /\ Active(h) /\ handler[h] \in Updates /\ handler[h].pc \notin Launched
      /\ UNCHANGED <<client, installers, asked, proc>>
  BY Working
     DEF Admit, Verify, LockStaging, CopyArchive, Extract, Inspect, CheckNotDowngrade, Launched
<1>2. \A i \in installers : i.id # handler[h].id
  BY <1>1, Zenon DEF UpdateInv, OwnIds
<1>3. CASE updateFailed(h)
  <2>1. /\ handler' = [handler EXCEPT ![h] = Resting] /\ Emit(h, "Failed") /\ "Failed" \in Phases
        /\ outcome' = [outcome EXCEPT ![handler[h].id] = "refused"] /\ "refused" \in Untouched
    BY <1>3, Zenon DEF updateFailed, Return, Phases, Untouched
  <2> QED
    BY <1>1, <1>2, <2>1, SilentMoves, Zenon
<1>4. ASSUME NEW u \in Updates, handler' = [handler EXCEPT ![h] = u], u.pc \notin Launched, UNCHANGED outcome,
             \/ (UNCHANGED conn \/ Emit(h, "Verifying")) /\ u.pc # "ack"
             \/ Emit(h, "Installing")
      PROVE  SilentInv'
  <2>1. "Verifying" \in Phases /\ "Installing" \in Phases
    BY Zenon DEF Phases
  <2>2. u.pc = "ack" => Told(h)' \/ proc = "stopping"
    <3> SUFFICES ASSUME u.pc = "ack", proc # "stopping" PROVE Told(h)'
      BY Zenon
    <3>1. \A g \in Clients : conn'[g].open = conn[g].open /\ (Told(g) => Told(g)')
      BY <1>1, <1>4, <2>1, EmitTells, Zenon
    <3>2. CASE Told(h)
      BY <3>1, <3>2, Zenon
    <3>3. CASE ~Told(h)
      <4>1. conn[h].open /\ client[h].last # "error"
        BY <1>1, <3>3, Zenon DEF SilentInv, Telling
      <4>2. Announced(conn'[h].frames)
        BY <1>4, <2>1, <3>1, <4>1, StaysAnnounced, Zenon DEF ReplyInv
      <4> QED
        BY <1>1, <4>1, <4>2, Zenon DEF Told
    <3> QED
      BY <3>2, <3>3, Zenon
  <2> QED
    BY <1>1, <1>4, <2>1, <2>2, SilentMoves, Zenon
<1>5. ASSUME NEW p \in Progress \ Launched, Then(h, p), UNCHANGED outcome,
             \/ (UNCHANGED conn \/ Emit(h, "Verifying")) /\ p # "ack"
             \/ Emit(h, "Installing")
      PROVE  SilentInv'
  <2> DEFINE u == [handler[h] EXCEPT !.pc = p]
  <2>1. u \in Updates /\ u.pc = p
    BY <1>1, Zenon DEF Updates
  <2>2. handler' = [handler EXCEPT ![h] = u]
    BY <1>5, Zenon DEF Then
  <2> HIDE DEF u
  <2> QED
    BY <1>4, <1>5, <2>1, <2>2, Zenon
<1>6. CASE handler' = [handler EXCEPT ![h].pc = "extract", ![h].copy = archive] /\ UNCHANGED <<conn, outcome>>
  <2> DEFINE u == [handler[h] EXCEPT !.pc = "extract", !.copy = archive]
  <2>1. u \in Updates /\ u.pc = "extract"
    BY <1>1, Zenon DEF Updates, Progress, UpdateInv, UpdateTypeOK
  <2>2. handler' = [handler EXCEPT ![h] = u] /\ "extract" \notin Launched
    BY <1>6, Zenon DEF Launched
  <2> HIDE DEF u
  <2> QED
    BY <1>4, <1>6, <2>1, <2>2, Zenon
<1>7. {"verify", "lock", "copy", "inspect", "compare", "ack"} \subseteq Progress \ Launched
  BY Zenon DEF Progress, Launched
<1>8. CASE Admit(h) \/ Verify(h)
  BY <1>3, <1>5, <1>7, <1>8, Zenon DEF Admit, Verify
<1>9. CASE LockStaging(h) \/ CopyArchive(h)
  BY <1>3, <1>5, <1>6, <1>7, <1>9, Zenon DEF LockStaging, CopyArchive
<1>10. CASE Extract(h) \/ Inspect(h)
  BY <1>3, <1>5, <1>7, <1>10, Zenon DEF Extract, Inspect
<1>11. CASE CheckNotDowngrade(h)
  BY <1>3, <1>5, <1>7, <1>11, Zenon DEF CheckNotDowngrade
<1> QED
  BY <1>8, <1>9, <1>10, <1>11, ZenonT(40)

LEMMA WaitsSilent ==
  ASSUME UpdateInv, ReplyInv, SilentInv, NEW h \in Clients, AwaitAck(h) \/ InstallerDone(h) \/ Abandon(h)
  PROVE  SilentInv'
<1>1. Active(h) /\ handler[h] \in Updates /\ UNCHANGED <<client, installers, asked, proc>>
      /\ handler[h].pc = IF AwaitAck(h) THEN "ack" ELSE "wait"
  BY Working, Zenon DEF AwaitAck, InstallerDone, Abandon
<1>2. CASE AwaitAck(h) /\ proc = "stopping"
  <2>1. \A i \in installers : i.id # handler[h].id
    BY <1>1, <1>2, Zenon DEF UpdateInv, OwnIds, Launched
  <2>2. /\ handler' = [handler EXCEPT ![h] = Resting] /\ Emit(h, "Failed") /\ "Failed" \in Phases
        /\ outcome' = [outcome EXCEPT ![handler[h].id] = "stopped"] /\ "stopped" \in Untouched
    BY <1>2, Zenon DEF AwaitAck, Return, Phases, Untouched
  <2> QED
    BY <1>1, <2>1, <2>2, SilentMoves, Zenon
<1>3. CASE AwaitAck(h) /\ proc # "stopping"
  <2> DEFINE u == [handler[h] EXCEPT !.pc = "wait", !.run = "starting"]
  <2>1. u.pc = "wait"
    BY <1>1, Zenon DEF Updates
  <2>2. handler' = [handler EXCEPT ![h] = u] /\ UNCHANGED <<conn, outcome>>
    BY <1>3, Zenon DEF AwaitAck
  <2> HIDE DEF u
  <2>3. Told(h)'
    <3>1. Told(h)
      BY <1>1, <1>3, Zenon DEF SilentInv, Telling
    <3> QED
      BY <1>1, <2>2, <3>1, Zenon DEF Told
  <2> QED
    BY <1>1, <2>1, <2>2, <2>3, SilentMoves, Zenon
<1>4. CASE InstallerDone(h)
  <2>1. outcome' = [outcome EXCEPT ![handler[h].id] = outcome[handler[h].id]]
    BY <1>4, Zenon DEF InstallerDone, Return
  <2>2. UNCHANGED outcome
    BY <2>1, Zenon DEF ReplyInv, ReplyTypeOK
  <2>3. handler' = [handler EXCEPT ![h] = Resting] /\ \E phase \in Phases : Emit(h, phase)
    BY <1>4, Zenon DEF InstallerDone, Return, Phases
  <2> QED
    BY <1>1, <2>2, <2>3, SilentMoves, Zenon
<1>5. CASE Abandon(h)
  <2> DEFINE u == [handler[h] EXCEPT !.pc = "abandoned"]
  <2>1. handler' = [handler EXCEPT ![h] = u] /\ UNCHANGED outcome /\ Emit(h, "Failed") /\ "Failed" \in Phases
        /\ handler[h].pc = "wait" /\ handler[h].pc \in Launched
    BY <1>5, Zenon DEF Abandon, Doing, Phases, Launched
  <2> HIDE DEF u
  <2>2. Told(h)'
    BY <1>1, <2>1, EmitTells, Zenon DEF SilentInv, Telling
  <2> QED
    BY <1>1, <2>1, <2>2, SilentMoves, Zenon
<1> QED
  BY <1>2, <1>3, <1>4, <1>5, Zenon


\* An installer starts, or ends, for a request whose client is told of it.
LEMMA RunSilent ==
  ASSUME UpdateInv, ReplyInv, SilentInv, NEW h \in Clients, RunInstaller(h) PROVE SilentInv'
<1>1. /\ Active(h) /\ handler[h] \in Updates /\ handler[h].run = "starting" /\ handler[h].id \in Requests
      /\ UNCHANGED <<conn, client, asked, proc>>
  BY DEF RunInstaller, Doing, Resting, Active, UpdateInv, UpdateTypeOK, Updates
<1>2. PICK r \in {"running", "err"} : handler' = [handler EXCEPT ![h].run = r]
  BY Zenon DEF RunInstaller
<1>3. /\ handler'[h].pc = handler[h].pc /\ \A g \in Clients \ {h} : handler'[g] = handler[g]
  BY <1>1, <1>2, Zenon DEF UpdateInv, UpdateTypeOK, Updates
<1>4. PICK what \in {"ran", "failed"} : outcome' = [outcome EXCEPT ![handler[h].id] = what]
  BY Zenon DEF RunInstaller
<1>5. outcome'[handler[h].id] \notin Untouched /\ \A n \in Requests \ {handler[h].id} : outcome'[n] = outcome[n]
  BY <1>1, <1>4, Zenon DEF ReplyInv, ReplyTypeOK, Untouched
<1>6. \A i \in installers' : (i \in installers /\ i.id \in Requests) \/ i.id = handler[h].id
  BY DEF RunInstaller, UpdateInv, UpdateTypeOK, Installers
<1>7. \A g \in Clients : Told(g)' <=> Told(g)
  BY <1>1, Zenon DEF Told
<1>8. Told(h) /\ client[h].pc # "idle" /\ client[h].id = handler[h].id
  BY <1>1, Zenon DEF SilentInv, Telling, UpdateInv, OwnIds, ReplyInv, Answering
<1>9. OwnCalls'
  BY <1>1, Zenon DEF SilentInv, OwnCalls
<1>10. Telling'
  BY <1>1, <1>3, <1>7, ZenonT(40) DEF SilentInv, Telling, Active
<1>11. \A i \in installers' : outcome'[i.id] \notin Untouched
  BY <1>5, <1>6, Zenon DEF SilentInv, Silent
<1>12. ASSUME NEW g \in Clients, client[g].pc # "idle", ~Told(g) PROVE outcome'[client[g].id] \in Untouched
  <2>1. client[g].id \in Requests /\ outcome[client[g].id] \in Untouched
    BY <1>12, CallFields, Zenon DEF SilentInv, Silent
  <2>2. client[g].id # handler[h].id
    BY <1>8, <1>12, Zenon DEF SilentInv, OwnCalls
  <2> QED
    BY <1>5, <2>1, <2>2, Zenon
<1>13. Silent'
  BY <1>1, <1>7, <1>11, <1>12, Zenon DEF Silent
<1> QED
  BY <1>9, <1>10, <1>13, Zenon DEF SilentInv

LEMMA ExitSilent ==
  ASSUME UpdateInv, ReplyInv, SilentInv, NEW i \in installers, NEW ok \in BOOLEAN, NEW did \in BOOLEAN,
         InstallerExit(i, ok, did)
  PROVE  SilentInv'
<1>1. i.id \in Requests /\ UNCHANGED <<conn, client, asked, proc>> /\ installers' \subseteq installers
  BY Zenon DEF InstallerExit, UpdateInv, UpdateTypeOK, Installers
<1>2. PICK what \in {"ok", "failed"} : outcome' = [outcome EXCEPT ![i.id] = what]
  BY Zenon DEF InstallerExit
<1>3. outcome'[i.id] \notin Untouched /\ \A n \in Requests \ {i.id} : outcome'[n] = outcome[n]
  BY <1>1, <1>2, Zenon DEF ReplyInv, ReplyTypeOK, Untouched
<1>4. \A h \in Clients : Active(h) => handler[h] \in Updates
  BY Zenon DEF UpdateInv, UpdateTypeOK, Active
<1>5. \A h \in Clients : handler'[h] = IF Active(h) /\ handler[h].id = i.id
                                      THEN [handler[h] EXCEPT !.run = IF ok THEN "ok" ELSE "err"]
                                      ELSE handler[h]
  BY Zenon DEF InstallerExit, Doing, Resting, Active, UpdateInv, UpdateTypeOK, Updates, Progress
<1>6. ASSUME NEW h \in Clients, Active(h)' PROVE Active(h) /\ handler'[h].pc = handler[h].pc
  BY <1>4, <1>5, <1>6, Zenon DEF Active, Updates
<1>7. \A g \in Clients : Told(g)' <=> Told(g)
  BY <1>1, Zenon DEF Told
<1>8. OwnCalls'
  BY <1>1, Zenon DEF SilentInv, OwnCalls
<1>9. Telling'
  BY <1>1, <1>6, <1>7, ZenonT(40) DEF SilentInv, Telling
<1>10. \A j \in installers : j.id \in Requests /\ outcome[j.id] \notin Untouched
  BY Zenon DEF SilentInv, Silent, UpdateInv, UpdateTypeOK, Installers
<1>11. ASSUME NEW g \in Clients, client[g].pc # "idle", ~Told(g) PROVE outcome'[client[g].id] \in Untouched
  <2>1. client[g].id \in Requests /\ outcome[client[g].id] \in Untouched
    BY <1>11, CallFields, Zenon DEF SilentInv, Silent
  <2> QED
    BY <1>3, <1>10, <2>1, Zenon
<1>12. Silent'
  BY <1>1, <1>3, <1>7, <1>10, <1>11, Zenon DEF Silent
<1> QED
  BY <1>8, <1>9, <1>12, Zenon DEF SilentInv

LEMMA DieSilent ==
  ASSUME ReplyInv, SilentInv, Die PROVE SilentInv'
<1>1. UNCHANGED <<client, outcome, asked, installers>> /\ \A h \in Clients : ~Active(h)'
  BY Zenon DEF Die, Active
<1>2. \A h \in Clients : conn[h] \in [open : BOOLEAN, frames : Seq(Phases)]
  BY Zenon DEF ReplyInv, ReplyTypeOK
<1>3. \A h \in Clients : conn'[h].frames = conn[h].frames
  BY <1>2, Zenon DEF Die
<1>4. \A h \in Clients : Told(h)' <=> Told(h)
  BY <1>1, <1>3, Zenon DEF Told
<1> QED
  BY <1>1, <1>4, Zenon DEF SilentInv, OwnCalls, Telling, Silent

\* A new call has an open connection, and a request nothing has become of.
LEMMA ApplySilent ==
  ASSUME UpdateInv, ReplyInv, SilentInv, NEW h \in Clients, NEW r \in UpdateRequests, ApplyUpdate(h, r)
  PROVE  SilentInv'
<1>1. asked \in Nat /\ asked' = asked + 1 /\ asked' \in Requests /\ asked' > asked
  <2>1. asked \in 0..MaxRequests /\ asked < MaxRequests /\ asked' = asked + 1 /\ MaxRequests \in Nat
    BY UpdateAssumption, Zenon DEF ApplyUpdate, UpdateInv, UpdateTypeOK
  <2> QED
    BY <2>1 DEF Requests
<1>2. UNCHANGED <<outcome, installers, proc>> /\ proc = "up"
  BY Zenon DEF ApplyUpdate
<1> DEFINE n == [open |-> TRUE, frames |-> <<>>]
           c == [pc |-> "reading", id |-> asked', last |-> "", installing |-> FALSE]
           u == [pc |-> "admit", id |-> asked', req |-> r, copy |-> FirstInstalled, run |-> "none"]
<1>3. n.open /\ c.pc = "reading" /\ c.id = asked' /\ c.last = "" /\ u.pc = "admit"
  BY Zenon
<1>4. conn' = [conn EXCEPT ![h] = n] /\ client' = [client EXCEPT ![h] = c] /\ handler' = [handler EXCEPT ![h] = u]
  BY Zenon DEF ApplyUpdate
<1> HIDE DEF n, c, u
<1>5. /\ conn'[h] = n /\ client'[h] = c /\ handler'[h] = u
      /\ \A g \in Clients \ {h} : conn'[g] = conn[g] /\ client'[g] = client[g] /\ handler'[g] = handler[g]
  BY <1>4, Zenon DEF UpdateInv, UpdateTypeOK, ReplyInv, ReplyTypeOK
<1>6. \A g \in Clients \ {h} : Told(g)' <=> Told(g)
  BY <1>5, Zenon DEF Told
<1>7. outcome[asked'] = "none"
  BY <1>1, Zenon DEF ReplyInv, Settled
<1>8. OwnCalls'
  <2>1. \A g \in Clients : client[g].pc # "idle" =>
          client[g].id \in Requests /\ client[g].id <= asked' /\ client[g].id # asked'
    <3>1. \A g \in Clients : client[g].pc # "idle" => client[g].id \in Requests /\ client[g].id <= asked
      BY CallFields, Zenon DEF SilentInv, OwnCalls
    <3> QED
      BY <1>1, <3>1 DEF Requests
  <2>2. asked' <= asked'
    BY <1>1
  <2>3. \A g \in Clients : client'[g].pc # "idle" => client'[g].id <= asked'
    BY <1>3, <1>5, <2>1, <2>2, Zenon
  <2>4. ASSUME NEW f \in Clients, NEW g \in Clients, client'[f].pc # "idle", client'[g].pc # "idle",
               client'[f].id = client'[g].id
        PROVE  f = g
    <3>1. CASE f # h /\ g # h
      BY <1>5, <2>4, <3>1, Zenon DEF SilentInv, OwnCalls
    <3>2. CASE f = h /\ g # h
      BY <1>3, <1>5, <2>1, <2>4, <3>2, Zenon
    <3>3. CASE f # h /\ g = h
      BY <1>3, <1>5, <2>1, <2>4, <3>3, Zenon
    <3> QED
      BY <3>1, <3>2, <3>3, Zenon
  <2>5. \A g \in Clients : client'[g].pc = "reading" => client'[g].last \in Phases \cup {""}
    BY <1>3, <1>5, Zenon DEF SilentInv, OwnCalls
  <2> QED
    BY <2>3, <2>4, <2>5, Zenon DEF OwnCalls
<1>9. Telling'
  <2> SUFFICES ASSUME NEW g \in Clients, handler'[g] # Resting
               PROVE  /\ proc' # "down"
                      /\ handler'[g].pc \in Launched => Told(g)'
                      /\ handler'[g].pc = "ack" => Told(g)' \/ proc' = "stopping"
                      /\ Told(g)' \/ (conn'[g].open /\ client'[g].last # "error") \/ proc' = "stopping"
    BY Zenon DEF Telling, Active
  <2>1. CASE g = h
    BY <1>2, <1>3, <1>5, <2>1, Zenon DEF Launched
  <2>2. CASE g # h
    BY <1>2, <1>5, <1>6, <2>2, ZenonT(40) DEF SilentInv, Telling, Active
  <2> QED
    BY <2>1, <2>2, Zenon
<1>10. Silent'
  BY <1>2, <1>3, <1>5, <1>6, <1>7, ZenonT(40) DEF SilentInv, Silent, Untouched
<1> QED
  BY <1>8, <1>9, <1>10, Zenon DEF SilentInv

\* A call's record and its connection change, and nothing else does.
LEMMA SilentCall ==
  ASSUME ReplyInv, SilentInv, NEW h \in Clients, UNCHANGED <<outcome, handler, installers, asked, proc>>,
         client[h].pc # "idle",
         NEW d \in Calls, client' = [client EXCEPT ![h] = d], d.id = client[h].id,
         NEW n, conn' = [conn EXCEPT ![h] = n],
         Told(h) => Told(h)',
         d.pc = "reading" => d.last \in Phases \cup {""},
         Active(h) => Told(h)' \/ (n.open /\ d.last # "error") \/ proc = "stopping"
  PROVE  SilentInv'
<1>1. /\ client'[h] = d /\ conn'[h] = n
      /\ \A g \in Clients \ {h} : client'[g] = client[g] /\ conn'[g] = conn[g]
  BY Zenon DEF ReplyInv, ReplyTypeOK
<1>2. \A g \in Clients \ {h} : Told(g)' <=> Told(g)
  BY <1>1, Zenon DEF Told
<1>3. \A g \in Clients : client'[g].id = client[g].id /\ (client'[g].pc # "idle" <=> client[g].pc # "idle")
  BY <1>1, Zenon DEF Calls
<1>4. OwnCalls'
  <2>1. \A g \in Clients : client'[g].pc # "idle" => client'[g].id <= asked'
    BY <1>3, Zenon DEF SilentInv, OwnCalls
  <2>2. ASSUME NEW f \in Clients, NEW g \in Clients, client'[f].pc # "idle", client'[g].pc # "idle",
               client'[f].id = client'[g].id
        PROVE  f = g
    <3>1. client[f].pc # "idle" /\ client[g].pc # "idle" /\ client[f].id = client[g].id
      BY <1>3, <2>2, Zenon
    <3> QED
      BY <3>1, Zenon DEF SilentInv, OwnCalls
  <2>3. \A g \in Clients : client'[g].pc = "reading" => client'[g].last \in Phases \cup {""}
    BY <1>1, Zenon DEF SilentInv, OwnCalls
  <2> QED
    BY <2>1, <2>2, <2>3, Zenon DEF OwnCalls
<1>5. Telling'
  <2> SUFFICES ASSUME NEW g \in Clients, handler[g] # Resting
               PROVE  /\ proc # "down"
                      /\ handler[g].pc \in Launched => Told(g)'
                      /\ handler[g].pc = "ack" => Told(g)' \/ proc = "stopping"
                      /\ Told(g)' \/ (conn'[g].open /\ client'[g].last # "error") \/ proc = "stopping"
    BY Zenon DEF Telling, Active
  <2>1. CASE g = h
    BY <1>1, <2>1, ZenonT(40) DEF SilentInv, Telling, Active
  <2>2. CASE g # h
    BY <1>1, <1>2, <2>2, ZenonT(40) DEF SilentInv, Telling, Active
  <2> QED
    BY <2>1, <2>2, Zenon
<1>6. Silent'
  BY <1>2, <1>3, Zenon DEF SilentInv, Silent
<1> QED
  BY <1>4, <1>5, <1>6, Zenon DEF SilentInv

\* A final frame read while the handler goes on follows Installing.
LEMMA ReadSilent ==
  ASSUME UpdateInv, ReplyInv, SilentInv, NEW h \in Clients, ReadFrame(h) PROVE SilentInv'
<1>1. client[h] \in Calls /\ client[h].installing \in BOOLEAN /\ client[h].pc = "reading"
      /\ client[h].last \in Phases \cup {""}
  BY CallFields, Zenon DEF ReadFrame, SilentInv, OwnCalls
<1>2. conn[h] \in [open : BOOLEAN, frames : Seq(Phases)] /\ conn[h].frames # <<>>
      /\ conn[h].frames \in Seq(Phases) /\ Head(conn[h].frames) \in Phases
  <2>1. conn[h] \in [open : BOOLEAN, frames : Seq(Phases)] /\ conn[h].frames # <<>>
    BY Zenon DEF ReadFrame, ReplyInv, ReplyTypeOK
  <2> QED
    BY <2>1
<1> DEFINE f == Head(conn[h].frames)
           d == [client[h] EXCEPT !.last = f, !.installing = @ \/ f = "Installing",
                                  !.pc = IF f \in {"Done", "Failed"} THEN "returned" ELSE @]
           n == [conn[h] EXCEPT !.frames = Tail(@), !.open = @ /\ client'[h].pc = "reading"]
<1>3. client' = [client EXCEPT ![h] = d] /\ conn' = [conn EXCEPT ![h] = n]
      /\ UNCHANGED <<outcome, handler, installers, asked, proc>>
  BY Zenon DEF ReadFrame
<1>4. f \in Phases /\ f \notin {"error", "cancelled"}
  BY <1>2, Zenon DEF Phases
<1> HIDE DEF f
<1>5. /\ d \in Calls /\ d.id = client[h].id /\ d.last = f /\ d.installing \in BOOLEAN
      /\ d.installing <=> client[h].installing \/ f = "Installing"
      /\ d.pc = IF f \in {"Done", "Failed"} THEN "returned" ELSE "reading"
  <2>1. (client[h].installing \/ f = "Installing") \in BOOLEAN
    BY Zenon
  <2> QED
    BY <1>1, <1>4, <2>1, Zenon DEF Calls
<1>6. client'[h] = d /\ conn'[h] = n
  BY <1>3, Zenon DEF ReplyInv, ReplyTypeOK
<1> HIDE DEF d
<1>7. n.frames = Tail(conn[h].frames) /\ (n.open <=> conn[h].open /\ d.pc = "reading")
  BY <1>2, <1>6, Zenon
<1> HIDE DEF n
<1>8. /\ f = "Done" => outcome[client[h].id] = "ok"
      /\ f = "Failed" => outcome[client[h].id] = "refused" \/ client[h].installing
      /\ Announced(conn[h].frames) => d.installing \/ Announced(Tail(conn[h].frames))
  <2>1. Truthful(conn[h].frames, outcome[client[h].id], client[h].installing)
    BY <1>1, Zenon DEF ReplyInv, FramesTrue
  <2>2. (client[h].installing => d.installing) /\ (f = "Installing" => d.installing)
    BY <1>5, Zenon
  <2> QED
    BY <1>1, <1>2, <1>5, <2>1, <2>2, TruthfulTail, ZenonT(30) DEF f
<1>9. client[h].last \notin {"error", "cancelled"}
  BY <1>1, Zenon DEF Phases
<1>10. Told(h) => Told(h)'
  BY <1>4, <1>5, <1>6, <1>7, <1>8, <1>9, Zenon DEF Told
<1>11. Active(h) => Told(h)' \/ (n.open /\ d.last # "error") \/ proc = "stopping"
  <2> SUFFICES ASSUME Active(h), ~Told(h)', proc # "stopping" PROVE n.open
    BY <1>4, <1>5, Zenon
  <2>1. ~Told(h) /\ conn[h].open /\ handler[h].pc \notin Launched /\ ~client[h].installing
    BY <1>10, Zenon DEF SilentInv, Telling, Told
  <2>2. client[h].id = handler[h].id /\ outcome[handler[h].id] # "refused" /\ handler[h].run = "none"
        /\ (handler[h].run = "ok" <=> outcome[handler[h].id] = "ok")
    BY <2>1, Zenon DEF ReplyInv, Answering, Settled, UpdateInv, OwnIds
  <2>3. f \notin {"Done", "Failed"}
    BY <1>8, <2>1, <2>2, Zenon
  <2> QED
    BY <1>5, <1>7, <2>1, <2>3, Zenon
<1> QED
  BY <1>1, <1>3, <1>4, <1>5, <1>10, <1>11, SilentCall, Zenon

LEMMA EndSilent ==
  ASSUME ReplyInv, SilentInv, NEW h \in Clients, ReadEOF(h) \/ Cancel(h) PROVE SilentInv'
<1>1. client[h] \in Calls /\ client[h].installing \in BOOLEAN /\ client[h].pc = "reading"
      /\ client[h].last \notin {"error", "cancelled"}
  BY CallFields, Zenon DEF ReadEOF, Cancel, SilentInv, OwnCalls, Phases
<1>2. PICK last \in {"error", "cancelled", "Restarting"} :
        client' = [client EXCEPT ![h].pc = "returned", ![h].last = last] /\ (Cancel(h) => last = "cancelled")
  BY Zenon DEF ReadEOF, Cancel
<1> DEFINE d == [client[h] EXCEPT !.pc = "returned", !.last = last]
<1>3. client' = [client EXCEPT ![h] = d]
  BY <1>2, Zenon
<1>4. d \in Calls /\ d.id = client[h].id /\ d.last = last /\ d.installing = client[h].installing /\ d.pc = "returned"
  BY <1>1, <1>2, Zenon DEF Calls
<1> HIDE DEF d
<1>5. client'[h] = d
  BY <1>3, Zenon DEF ReplyInv, ReplyTypeOK
<1>6. UNCHANGED <<outcome, handler, installers, asked, proc>>
  BY Zenon DEF ReadEOF, Cancel
<1>7. CASE Cancel(h)
  <2>1. Told(h)'
    BY <1>2, <1>4, <1>5, <1>7, Zenon DEF Told
  <2>2. conn' = [conn EXCEPT ![h] = [conn[h] EXCEPT !.open = FALSE]]
    BY <1>7, Zenon DEF Cancel
  <2> QED
    BY <1>1, <1>3, <1>4, <1>6, <2>1, <2>2, SilentCall, Zenon
<1>8. CASE ReadEOF(h)
  <2>1. conn[h].frames = <<>> /\ ~conn[h].open /\ conn' = [conn EXCEPT ![h] = conn[h]]
    BY <1>8, Zenon DEF ReadEOF, ReplyInv, ReplyTypeOK
  <2>2. ~Announced(<<>>)
    BY DEF Announced
  <2>3. Told(h) => Told(h)'
    BY <1>1, <1>4, <1>5, <2>1, <2>2, Zenon DEF Told
  <2>4. Active(h) => Told(h)' \/ proc = "stopping"
    BY <2>1, <2>3, Zenon DEF SilentInv, Telling
  <2> QED
    BY <1>1, <1>3, <1>4, <1>6, <2>1, <2>3, <2>4, SilentCall, Zenon
<1> QED
  BY <1>7, <1>8, Zenon

LEMMA CloseSilent ==
  ASSUME ReplyInv, SilentInv, NEW h \in Clients, CloseConn(h) PROVE SilentInv'
<1>1. \A g \in Clients : conn[g] \in [open : BOOLEAN, frames : Seq(Phases)]
  BY Zenon DEF ReplyInv, ReplyTypeOK
<1>2. \A g \in Clients : conn'[g].frames = conn[g].frames
  BY <1>1, Zenon DEF CloseConn, ReplyInv, ReplyTypeOK
<1>3. UNCHANGED <<client, outcome, handler, installers, asked, proc>> /\ proc = "stopping"
  BY Zenon DEF CloseConn
<1>4. \A g \in Clients : Told(g)' <=> Told(g)
  BY <1>2, <1>3, Zenon DEF Told
<1>5. OwnCalls' /\ Silent'
  BY <1>3, <1>4, Zenon DEF SilentInv, OwnCalls, Silent
<1>6. Telling'
  BY <1>3, <1>4, Zenon DEF SilentInv, Telling, Active
<1> QED
  BY <1>5, <1>6, Zenon DEF SilentInv

LEMMA SilentInitial == UpdateInit => SilentInv
<1> SUFFICES ASSUME UpdateInit PROVE SilentInv
  OBVIOUS
<1>1. \A h \in Clients : ~Active(h) /\ client[h].pc = "idle"
  BY Zenon DEF UpdateInit, Active
<1>2. installers = {}
  BY Zenon DEF UpdateInit
<1> QED
  BY <1>1, <1>2, Zenon DEF SilentInv, OwnCalls, Telling, Silent

LEMMA SilentPreserved ==
  UpdateInv /\ ReplyInv /\ SilentInv /\ [UpdateNext]_updateVars => SilentInv'
<1> SUFFICES ASSUME UpdateInv, ReplyInv, SilentInv, [UpdateNext]_updateVars PROVE SilentInv'
  BY Zenon
<1>1. ASSUME NEW h \in Clients, HandleApplyUpdate(h) PROVE SilentInv'
  BY <1>1, ChecksSilent, WaitsSilent, RunSilent, Zenon DEF HandleApplyUpdate
<1>2. ASSUME NEW h \in Clients, NEW r \in UpdateRequests, ApplyUpdate(h, r) PROVE SilentInv'
  BY <1>2, ApplySilent, Zenon
<1>3. ASSUME NEW h \in Clients, CloseConn(h) \/ ReadFrame(h) \/ ReadEOF(h) \/ Cancel(h) PROVE SilentInv'
  BY <1>3, CloseSilent, ReadSilent, EndSilent, Zenon
<1>4. ASSUME NEW i \in installers, NEW ok \in BOOLEAN, NEW did \in BOOLEAN, InstallerExit(i, ok, did)
      PROVE  SilentInv'
  BY <1>4, ExitSilent, Zenon
<1>5. CASE Exit \/ Crash
  BY <1>5, DieSilent, Zenon DEF Exit, Crash
<1>6. CASE DiskChanges \/ Stop \/ Start \/ UNCHANGED updateVars
  <2>1. UNCHANGED <<conn, client, outcome, handler, installers, asked>>
        /\ (proc' = proc \/ proc' = "stopping" \/ proc = "down")
    BY <1>6, Zenon DEF DiskChanges, Stop, Start, updateVars
  <2>2. \A g \in Clients : (Told(g)' <=> Told(g)) /\ (Active(g)' <=> Active(g))
    BY <2>1, Zenon DEF Told, Active
  <2>3. OwnCalls' /\ Silent'
    BY <2>1, <2>2, Zenon DEF SilentInv, OwnCalls, Silent
  <2>4. Telling'
    <3> SUFFICES ASSUME NEW h \in Clients, Active(h)
                 PROVE  /\ proc' # "down"
                        /\ handler[h].pc \in Launched => Told(h)
                        /\ handler[h].pc = "ack" => Told(h) \/ proc' = "stopping"
                        /\ Told(h) \/ (conn[h].open /\ client[h].last # "error") \/ proc' = "stopping"
      BY <2>1, <2>2, Zenon DEF Telling
    <3>1. proc # "down"
      BY Zenon DEF SilentInv, Telling
    <3> QED
      BY <2>1, <3>1, Zenon DEF SilentInv, Telling
  <2> QED
    BY <2>3, <2>4, Zenon DEF SilentInv
<1> QED
  BY <1>1, <1>2, <1>3, <1>4, <1>5, <1>6, Zenon DEF UpdateNext

\* The client is told the truth (handleApplyUpdate's frames, Client.ApplyUpdate): Done means
\* that its installer exited 0, and Failed, or the stream's end, before any Installing that
\* nothing of the archive ran, through crashes, restarts, stops that close the connection
\* under a request that goes on, and cancellations.
THEOREM RepliesAreTrue == UpdateSpec => []ReplyTrue
<1>1. UpdateSpec => []ReplyInv
  BY UpdateInvariance, ReplyInitial, ReplyPreserved, PTL DEF UpdateSpec
<1>2. UpdateSpec => []SilentInv
  BY <1>1, UpdateInvariance, SilentInitial, SilentPreserved, PTL DEF UpdateSpec
<1>3. ReplyInv /\ SilentInv => ReplyTrue
  <2> SUFFICES ASSUME ReplyInv, SilentInv, NEW h \in Clients, client[h].pc = "returned",
                      client[h].last = "error", ~client[h].installing
               PROVE  outcome[client[h].id] \in {"none", "refused", "stopped"}
    BY Zenon DEF ReplyTrue, SilenceTrue, ReplyInv
  <2>1. ~Told(h)
    BY Zenon DEF Told
  <2> QED
    BY <2>1, Zenon DEF SilentInv, Silent, Untouched
<1> QED
  BY <1>1, <1>2, <1>3, PTL

=============================================================================
