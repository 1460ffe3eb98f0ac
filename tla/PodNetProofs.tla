---------------------------- MODULE PodNetProofs ----------------------------
(***************************************************************************)
(* The safety of the pod network, and of the socket netd passes to a       *)
(* kubelet.                                                                *)
(*                                                                         *)
(* The pod network, for every set of pods and every host range.            *)
(*                                                                         *)
(* The socket, for any number of connections and attempts: a call that     *)
(* asks again for its port finds it free. The invariant follows the one    *)
(* request of the call's connection (OneRequestOf): a socket can only be   *)
(* flushed once the daemon has closed its own copy, so the client closes   *)
(* the last descriptor before it dials again.                              *)
(***************************************************************************)
EXTENDS PodNet, NetdServe, TLAPS

-----------------------------------------------------------------------------
(* The pod network. *)

\* A bound pod that runs is bound to the address it runs on, every running pod is bound
\* by the time Setups are served, and an address the runtime was given is live: what a
\* reconcile has to restore after a crash.
RecordsReattached ==
  /\ \A p \in Pods : Running(p) /\ Bound(p) => byPod[p].ip = box[p]
  /\ phase = "serving" => \A p \in Pods : Running(p) => Bound(p)
  /\ \A p \in granted : Bound(p) /\ tracked[byPod[p].ip] = "live"

\* The inductive invariant: the safety properties support one another. A running pod
\* keeps its address because its record, its binding and the alias manager's tracking
\* agree, and none of the three is inductive without the others.
IInv ==
  /\ TypeOK
  /\ IPAMConsistent
  /\ TrackingMatchesKernel
  /\ RecordsReattached
  /\ NoCollision
  /\ RunningPodOnLo0

-----------------------------------------------------------------------------
(* What one call of the alias manager can do. *)

\* An Ensure that fails changes nothing but, possibly, a blackhole into no route; one
\* that works leaves a live alias or had one.
LEMMA EnsureEffect ==
  ASSUME NEW h \in HostState, NEW t \in TrackState, NEW isPod \in BOOLEAN,
         NEW o \in EnsureOutcomes(h, t, isPod)
  PROVE  /\ o \in Outcome
         /\ o.err => /\ o.t = t /\ t # "live"
                     /\ o.h = h \/ (h = "blackhole" /\ o.h = "none")
         /\ ~o.err => o.t = "live" /\ (o.h = "alias" \/ (t = "live" /\ o.h = h))
<1>1. CASE t = "live"
  <2>1. o = OK(h, t)  BY <1>1, Zenon DEF EnsureOutcomes
  <2>2. o = [h |-> h, t |-> t, err |-> FALSE]  BY <2>1, Zenon DEF OK
  <2> QED  BY <1>1, <2>2, Zenon DEF Outcome
<1>2. CASE t # "live"
  <2> DEFINE c == IF isPod THEN Cleared(h) ELSE h
  <2>1. c \in HostState /\ (c = h \/ (h = "blackhole" /\ c = "none"))
    BY Zenon DEF Cleared, HostState
  <2>2. o \in {Err(h, t), Err(c, t), OK("alias", "live")}  BY <1>2, Zenon DEF EnsureOutcomes
  <2> HIDE DEF c
  <2>3. CASE o = Err(h, t)
    <3>1. o = [h |-> h, t |-> t, err |-> TRUE]  BY <2>3, Zenon DEF Err
    <3> QED  BY <1>2, <3>1, Zenon DEF Outcome
  <2>4. CASE o = Err(c, t)
    <3>1. o = [h |-> c, t |-> t, err |-> TRUE]  BY <2>4, Zenon DEF Err
    <3> QED  BY <1>2, <2>1, <3>1, Zenon DEF Outcome
  <2>5. CASE o = OK("alias", "live")
    <3>1. o = [h |-> "alias", t |-> "live", err |-> FALSE]  BY <2>5, Zenon DEF OK
    <3> QED  BY <3>1, Zenon DEF Outcome, HostState, TrackState
  <2> QED  BY <2>2, <2>3, <2>4, <2>5, Zenon
<1> QED  BY <1>1, <1>2, Zenon

\* The blackhole step installs the blackhole, or fails with the /32 as it was or with a
\* clone deleted.
LEMMA BlackholeStepEffect ==
  ASSUME NEW h \in HostState, NEW o \in BlackholeStep(h)
  PROVE  \/ o = [h |-> "blackhole", t |-> "no", err |-> FALSE]
         \/ o = [h |-> h, t |-> "pending", err |-> TRUE]
         \/ h = "cloned" /\ o = [h |-> "none", t |-> "pending", err |-> TRUE]
<1>1. PICK r \in InstallResults(h) : o = IF r[2] THEN Err(r[1], "pending") ELSE OK(r[1], "no")
  BY Zenon DEF BlackholeStep
<1>2. \/ r = <<h, TRUE>>
      \/ h = "cloned" /\ r = <<"none", TRUE>>
      \/ r = <<"blackhole", FALSE>>
  BY Zenon DEF InstallResults
<1>3. CASE r = <<h, TRUE>>
  <2>1. r[1] = h /\ r[2] = TRUE  BY <1>3, Zenon
  <2> QED  BY <1>1, <2>1, Zenon DEF Err
<1>4. CASE h = "cloned" /\ r = <<"none", TRUE>>
  <2>1. r[1] = "none" /\ r[2] = TRUE  BY <1>4, Zenon
  <2> QED  BY <1>1, <1>4, <2>1, Zenon DEF Err
<1>5. CASE r = <<"blackhole", FALSE>>
  <2>1. r[1] = "blackhole" /\ r[2] = FALSE  BY <1>5, Zenon
  <2> QED  BY <1>1, <2>1, Zenon DEF OK
<1> QED  BY Zenon, <1>2, <1>3, <1>4, <1>5

\* A Remove that works leaves a pod address untracked, blackholed if it was tracked; one
\* that fails leaves it as it was, or pending with no route of its own.
LEMMA RemoveEffect ==
  ASSUME NEW h \in HostState, NEW t \in TrackState, NEW o \in RemoveOutcomes(h, t, TRUE)
  PROVE  /\ o \in Outcome
         /\ o.err => \/ o.h = h /\ o.t = t
                     \/ o.t = "pending" /\ o.h = "none"
         /\ ~o.err => o.t = "no" /\ (t = "no" \/ o.h = "blackhole")
<1>1. CASE o \in BlackholeStep(h) /\ t = "pending"
  <2>1. CASE o = [h |-> "blackhole", t |-> "no", err |-> FALSE]
    BY <2>1, Zenon DEF Outcome, HostState, TrackState
  <2>2. CASE o = [h |-> h, t |-> "pending", err |-> TRUE]
    <3>1. t = "pending"  BY <1>1, Zenon
    <3> QED  BY <2>2, <3>1, Zenon DEF Outcome, TrackState
  <2>3. CASE o = [h |-> "none", t |-> "pending", err |-> TRUE]
    BY <2>3, Zenon DEF Outcome, HostState, TrackState
  <2> QED  BY <1>1, <2>1, <2>2, <2>3, BlackholeStepEffect, Zenon
<1>2. CASE o \in BlackholeStep("none")
  <2>1. "none" \in HostState  BY Zenon DEF HostState
  <2>2. \/ o = [h |-> "blackhole", t |-> "no", err |-> FALSE]
        \/ o = [h |-> "none", t |-> "pending", err |-> TRUE]
    BY <1>2, <2>1, BlackholeStepEffect, Zenon
  <2>3. CASE o = [h |-> "blackhole", t |-> "no", err |-> FALSE]
    BY <2>3 DEF Outcome, HostState, TrackState
  <2>4. CASE o = [h |-> "none", t |-> "pending", err |-> TRUE]
    BY <2>4 DEF Outcome, HostState, TrackState
  <2> QED  BY <2>2, <2>3, <2>4, Zenon
<1>3. CASE o = Err(h, t)
  <2>1. o = [h |-> h, t |-> t, err |-> TRUE]  BY <1>3, Zenon DEF Err
  <2> QED  BY <2>1, Zenon DEF Outcome
<1>4. CASE o = OK(h, "no") /\ t = "no"
  <2>1. t = "no" /\ o = [h |-> h, t |-> t, err |-> FALSE]  BY <1>4, Zenon DEF OK
  <2>2. o.h = h /\ o.t = "no" /\ o.err = FALSE  BY <2>1, Zenon
  <2> QED  BY <2>1, <2>2, Zenon DEF Outcome
<1>5. \/ o \in BlackholeStep(h) /\ t = "pending"
      \/ o \in BlackholeStep("none")
      \/ o = Err(h, t)
      \/ o = OK(h, "no") /\ t = "no"
  BY Zenon DEF RemoveOutcomes, TrackState
<1> QED  BY <1>1, <1>2, <1>3, <1>4, <1>5, Zenon

-----------------------------------------------------------------------------
(* The alias manager's two calls as steps on the kernel and the tracking. *)

KernelTypeOK == host \in [Addrs -> HostState] /\ tracked \in [Addrs -> TrackState]

\* The part of TrackingMatchesKernel that only the alias manager's calls touch.
TrackedRight ==
  \A ip \in Usable :
    /\ tracked[ip] = "live" => host[ip] = "alias"
    /\ tracked[ip] = "pending" => host[ip] \in {"none", "cloned"}

\* Ensure touches one address, keeps the tracking right, takes no alias away, and
\* leaves a live alias when it works.
LEMMA EnsureStep ==
  ASSUME KernelTypeOK, TrackedRight, NEW ip \in Addrs, NEW o \in Outcome, Ensure(ip, o)
  PROVE  /\ KernelTypeOK' /\ TrackedRight'
         /\ \A a \in Addrs : a # ip => host'[a] = host[a] /\ tracked'[a] = tracked[a]
         /\ \A a \in Addrs : host[a] = "alias" => host'[a] = "alias"
         /\ \A a \in Addrs : tracked[a] # "no" => tracked'[a] # "no"
         /\ \A a \in Addrs : tracked[a] = "live" => tracked'[a] = "live"
         /\ ~o.err => tracked'[ip] = "live"
<1> USE RangeAssumption DEF Usable, Addrs, NodeIP
<1>1. host[ip] \in HostState /\ tracked[ip] \in TrackState  BY Zenon DEF KernelTypeOK
<1>2. /\ o \in EnsureOutcomes(host[ip], tracked[ip], ip \in Usable)
      /\ host' = [host EXCEPT ![ip] = o.h]
      /\ tracked' = [tracked EXCEPT ![ip] = o.t]
  BY Zenon DEF Ensure
<1>3. PICK b \in BOOLEAN : o \in EnsureOutcomes(host[ip], tracked[ip], b)
  <2>1. (ip \in Usable) \in BOOLEAN  OBVIOUS
  <2> QED  BY Zenon, <1>2, <2>1
<1>4. /\ o.err => /\ o.t = tracked[ip] /\ tracked[ip] # "live"
                  /\ o.h = host[ip] \/ (host[ip] = "blackhole" /\ o.h = "none")
      /\ ~o.err => o.t = "live" /\ (o.h = "alias" \/ (tracked[ip] = "live" /\ o.h = host[ip]))
  BY <1>1, <1>3, EnsureEffect
<1>5. o.h \in HostState /\ o.t \in TrackState /\ o.err \in BOOLEAN  BY Zenon DEF Outcome
<1>6. host'[ip] = o.h /\ tracked'[ip] = o.t  BY <1>2, Zenon DEF KernelTypeOK
<1>7. \A a \in Addrs : a # ip => host'[a] = host[a] /\ tracked'[a] = tracked[a]
  BY <1>2, Zenon DEF KernelTypeOK
<1>8. KernelTypeOK'  BY <1>2, <1>5, Zenon DEF KernelTypeOK
<1>9. TrackedRight'  BY <1>4, <1>6, <1>7 DEF TrackedRight
<1>10. \A a \in Addrs : host[a] = "alias" => host'[a] = "alias"
  BY <1>4, <1>6, <1>7, Zenon
<1>11. \A a \in Addrs : tracked[a] # "no" => tracked'[a] # "no"
  BY <1>4, <1>6, <1>7, Zenon
<1>12. \A a \in Addrs : tracked[a] = "live" => tracked'[a] = "live"
  BY <1>4, <1>6, <1>7, Zenon
<1> QED  BY <1>4, <1>6, <1>7, <1>8, <1>9, <1>10, <1>11, <1>12, Zenon

\* Remove touches one address and keeps the tracking right; on a tracked address it
\* either fails with the address still tracked, or leaves it blackholed.
LEMMA RemoveStep ==
  ASSUME KernelTypeOK, TrackedRight, NEW ip \in Usable, NEW o \in Outcome, Remove(ip, o)
  PROVE  /\ KernelTypeOK' /\ TrackedRight'
         /\ \A a \in Addrs : a # ip => host'[a] = host[a] /\ tracked'[a] = tracked[a]
         /\ tracked[ip] # "no" /\ o.err => tracked'[ip] # "no"
         /\ tracked[ip] # "no" /\ ~o.err => host'[ip] = "blackhole"
<1> USE RangeAssumption DEF Usable, Addrs, NodeIP
<1>1. host[ip] \in HostState /\ tracked[ip] \in TrackState /\ ip \in Addrs  BY DEF KernelTypeOK
<1>2. /\ o \in RemoveOutcomes(host[ip], tracked[ip], ip \in Usable)
      /\ host' = [host EXCEPT ![ip] = o.h]
      /\ tracked' = [tracked EXCEPT ![ip] = o.t]
  BY Zenon DEF Remove
<1>3. o \in RemoveOutcomes(host[ip], tracked[ip], TRUE)
  <2>1. (ip \in Usable) = TRUE  BY Zenon
  <2> QED  BY <1>2, <2>1, Zenon
<1>4. /\ o.err => \/ o.h = host[ip] /\ o.t = tracked[ip]
                  \/ o.t = "pending" /\ o.h = "none"
      /\ ~o.err => o.t = "no" /\ (tracked[ip] = "no" \/ o.h = "blackhole")
  BY ZenonT(40), <1>1, <1>3, RemoveEffect
<1>5. o.h \in HostState /\ o.t \in TrackState /\ o.err \in BOOLEAN  BY Zenon DEF Outcome
<1>6. host'[ip] = o.h /\ tracked'[ip] = o.t  BY <1>1, <1>2, Zenon DEF KernelTypeOK
<1>7. \A a \in Addrs : a # ip => host'[a] = host[a] /\ tracked'[a] = tracked[a]
  BY <1>1, <1>2, Zenon DEF KernelTypeOK
<1>8. KernelTypeOK'  BY <1>2, <1>5, Zenon DEF KernelTypeOK
<1>9. TrackedRight'  BY <1>4, <1>6, <1>7 DEF TrackedRight
<1> QED  BY <1>4, <1>6, <1>7, <1>8, <1>9, Zenon

LEMMA KernelFacts ==
  ASSUME IInv
  PROVE  KernelTypeOK /\ TrackedRight /\ Usable \subseteq Addrs /\ NodeIP \in Addrs
                      /\ NodeIP \notin Usable
BY RangeAssumption DEF IInv, TypeOK, TrackingMatchesKernel, KernelTypeOK, TrackedRight,
                       Usable, Addrs, NodeIP

-----------------------------------------------------------------------------
(* IInv is inductive: one lemma per action. *)

\* The initial states satisfy the invariant.
LEMMA InitIInv == Init => IInv
<1> SUFFICES ASSUME Init PROVE IInv  BY Zenon
<1> USE RangeAssumption, NoneAssumption
<1>1. \A p \in Pods : ~Bound(p) /\ ~Running(p)  BY Zenon DEF Init, Bound, Running
<1>2. TypeOK
  BY DEF Init, TypeOK, Usable, Addrs, NodeIP, TrackState, HostState, NoRet, Calls, Results
<1>3. IPAMConsistent  BY <1>1, Zenon DEF Init, IPAMConsistent
<1>4. TrackingMatchesKernel
  BY <1>1 DEF Init, TrackingMatchesKernel, Usable, Addrs, NodeIP
<1>5. RecordsReattached  BY <1>1, Zenon DEF Init, RecordsReattached
<1>6. NoCollision /\ RunningPodOnLo0  BY <1>1, Zenon DEF NoCollision, RunningPodOnLo0
<1> QED  BY <1>2, <1>3, <1>4, <1>5, <1>6, Zenon DEF IInv

RetType == [call : Calls, ip : Addrs \cup {NoIP}, res : Results]

\* An Ensure with no change of binding keeps the invariant; the runtime may be given
\* the address of a pod bound to it when it worked.
LEMMA EnsureKeeps ==
  ASSUME IInv, NEW ip \in Addrs, NEW o \in Outcome, Ensure(ip, o),
         UNCHANGED <<allocated, byPod, inverse, box, phase>>,
         next' \in First .. (Last + 1), ret' \in RetType, granted' \in SUBSET Pods,
         \A p \in granted' : p \in granted \/ (Bound(p) /\ byPod[p].ip = ip /\ ~o.err)
  PROVE  IInv'
<1>1. KernelTypeOK /\ TrackedRight /\ Usable \subseteq Addrs  BY KernelFacts, Zenon
<1>2. /\ KernelTypeOK' /\ TrackedRight'
      /\ \A a \in Addrs : a # ip => host'[a] = host[a] /\ tracked'[a] = tracked[a]
      /\ \A a \in Addrs : host[a] = "alias" => host'[a] = "alias"
      /\ \A a \in Addrs : tracked[a] # "no" => tracked'[a] # "no"
      /\ \A a \in Addrs : tracked[a] = "live" => tracked'[a] = "live"
      /\ ~o.err => tracked'[ip] = "live"
  BY <1>1, EnsureStep, Zenon
<1>3. TypeOK'  BY <1>2, Zenon DEF IInv, TypeOK, KernelTypeOK, RetType
<1>4. \A p \in Pods : (Bound(p)' <=> Bound(p)) /\ (Running(p)' <=> Running(p))
  BY Zenon DEF Bound, Running
<1>5. \A p \in Pods : Bound(p) => byPod[p].ip \in Usable
  BY Zenon DEF IInv, TypeOK, Bound, Entries, NoEntry
<1>6. \A p \in Pods : Running(p) => box[p] \in Usable
  BY Zenon DEF IInv, TypeOK, Running
<1>7. IPAMConsistent'  BY Zenon DEF IInv, IPAMConsistent, Bound
<1>8. TrackingMatchesKernel'
  BY <1>1, <1>2, <1>4, <1>5, Zenon DEF IInv, TrackingMatchesKernel, TrackedRight
<1>9. RecordsReattached'
  <2>1. \A p \in granted' : Bound(p)' /\ tracked'[byPod'[p].ip] = "live"
    BY <1>1, <1>2, <1>4, <1>5, Zenon DEF IInv, RecordsReattached
  <2> QED  BY <1>4, <2>1, Zenon DEF IInv, RecordsReattached
<1>10. NoCollision'  BY <1>4, Zenon DEF IInv, NoCollision
<1>11. RunningPodOnLo0'  BY <1>1, <1>2, <1>4, <1>6, Zenon DEF IInv, RunningPodOnLo0
<1> QED  BY <1>3, <1>7, <1>8, <1>9, <1>10, <1>11, Zenon DEF IInv

\* Binding a pod to a free address whose alias was just ensured keeps the invariant, if
\* the address is no other running pod's.
LEMMA BindKeeps ==
  ASSUME IInv, NEW p \in Pods, NEW ip \in Usable, NEW b \in Backends, NEW o \in Outcome,
         Ensure(ip, o), ~o.err, Bind(p, ip, b), UNCHANGED <<box, phase>>,
         ~Bound(p), ip \notin allocated,
         \A q \in Pods \ {p} : box[q] # ip, Running(p) => box[p] = ip,
         next' \in First .. (Last + 1), ret' \in RetType
  PROVE  IInv'
<1>1. KernelTypeOK /\ TrackedRight /\ Usable \subseteq Addrs  BY KernelFacts, Zenon
<1>2. /\ KernelTypeOK' /\ TrackedRight'
      /\ \A a \in Addrs : host[a] = "alias" => host'[a] = "alias"
      /\ \A a \in Addrs : tracked[a] # "no" => tracked'[a] # "no"
      /\ \A a \in Addrs : tracked[a] = "live" => tracked'[a] = "live"
      /\ tracked'[ip] = "live"
  BY <1>1, EnsureStep, Zenon
<1>3. /\ granted' = granted \cup {p} /\ allocated' = allocated \cup {ip}
      /\ byPod' = [byPod EXCEPT ![p] = [ip |-> ip, backend |-> b]]
      /\ inverse' = [inverse EXCEPT ![ip] = p]
  BY Zenon DEF Bind
<1>4. [ip |-> ip, backend |-> b] \in Entries /\ [ip |-> ip, backend |-> b] # NoEntry
  BY NoneAssumption, RangeAssumption DEF Entries, NoEntry, Usable
<1>5. TypeOK'  BY <1>2, <1>3, <1>4, Zenon DEF IInv, TypeOK, KernelTypeOK, RetType
<1>6. /\ byPod'[p] = [ip |-> ip, backend |-> b] /\ byPod'[p].ip = ip
      /\ \A q \in Pods : q # p => byPod'[q] = byPod[q]
      /\ inverse'[ip] = p /\ \A a \in Usable : a # ip => inverse'[a] = inverse[a]
  BY <1>3, Zenon DEF IInv, TypeOK
<1>7. /\ Bound(p)'
      /\ \A q \in Pods : q # p => (Bound(q)' <=> Bound(q))
      /\ \A q \in Pods : Running(q)' <=> Running(q)
  BY <1>4, <1>6, Zenon DEF Bound, Running
<1>8. \A q \in Pods : Bound(q) => byPod[q].ip \in Usable /\ byPod[q].ip # ip
  BY DEF IInv, TypeOK, IPAMConsistent, Bound, Entries, NoEntry
<1>9. inverse[ip] = NoPod
  BY DEF IInv, IPAMConsistent, TypeOK
<1>10. IPAMConsistent'
  <2>1. \A q \in Pods : Bound(q)' => byPod'[q].ip \in allocated' /\ inverse'[byPod'[q].ip] = q
    BY SMTT(30), Zenon, <1>3, <1>6, <1>7, <1>8 DEF IInv, IPAMConsistent
  <2>2. \A a \in Usable : inverse'[a] # NoPod
                             => Bound(inverse[a])' /\ byPod'[inverse'[a]].ip = a
    <3> SUFFICES ASSUME NEW a \in Usable, inverse'[a] # NoPod
                 PROVE  byPod'[inverse'[a]] # NoEntry /\ byPod'[inverse'[a]].ip = a
      BY Zenon DEF Bound
    <3>1. CASE a = ip  BY <3>1, <1>4, <1>6, Zenon
    <3>2. CASE a # ip
      <4>1. inverse'[a] = inverse[a] /\ inverse[a] \in Pods  BY <3>2, <1>6, Zenon DEF IInv, TypeOK
      <4>2. byPod[inverse[a]] # NoEntry /\ byPod[inverse[a]].ip = a
        BY <4>1, Zenon DEF IInv, IPAMConsistent, Bound
      <4>3. inverse[a] # p  BY <4>2, Zenon DEF Bound
      <4> QED  BY <4>1, <4>2, <4>3, <1>6, ZenonT(40)
    <3> QED  BY <3>1, <3>2, Zenon
  <2>3. \A a \in allocated' : inverse'[a] # NoPod
    BY SMTT(30), Zenon, <1>3, <1>6, NoneAssumption DEF IInv, IPAMConsistent, TypeOK
  <2> QED  BY SMTT(30), Zenon, <2>1, <2>2, <2>3 DEF IPAMConsistent
<1>11. TrackingMatchesKernel'
  <2>1. \A q \in Pods : Bound(q)' => tracked'[byPod'[q].ip] # "no"
    <3> SUFFICES ASSUME NEW q \in Pods, Bound(q)'  PROVE tracked'[byPod'[q].ip] # "no"
      BY Zenon
    <3>1. CASE q = p  BY <1>2, <1>6, <3>1, Zenon
    <3>2. CASE q # p
      <4>1. Bound(q) /\ byPod'[q] = byPod[q]  BY SMTT(30), Zenon, <1>6, <1>7, <3>2
      <4>2. tracked[byPod[q].ip] # "no" /\ byPod[q].ip \in Addrs
        BY SMTT(30), Zenon, <1>1, <1>8, <4>1 DEF IInv, TrackingMatchesKernel
      <4> QED  BY SMTT(30), Zenon, <1>2, <4>1, <4>2
    <3> QED  BY <3>1, <3>2, Zenon
  <2> QED  BY <1>2, <2>1, Zenon DEF TrackingMatchesKernel, TrackedRight
<1>12. RecordsReattached'
  <2>1. \A q \in granted' : Bound(q)' /\ tracked'[byPod'[q].ip] = "live"
    <3> SUFFICES ASSUME NEW q \in granted'  PROVE Bound(q)' /\ tracked'[byPod'[q].ip] = "live"
      BY Zenon
    <3>1. CASE q = p  BY SMTT(30), Zenon, <1>2, <1>6, <1>7, <3>1
    <3>2. CASE q # p
      <4>1. q \in granted /\ q \in Pods  BY <1>3, <3>2, Zenon DEF IInv, TypeOK
      <4>2. Bound(q) /\ tracked[byPod[q].ip] = "live"
        BY Zenon, <4>1 DEF IInv, RecordsReattached
      <4>3. Bound(q)' /\ byPod'[q] = byPod[q] /\ byPod[q].ip \in Addrs
        BY <1>1, <1>6, <1>7, <1>8, <3>2, <4>1, <4>2, Zenon
      <4> QED  BY <1>2, <4>2, <4>3, Zenon
    <3> QED  BY <3>1, <3>2, Zenon
  <2>2. \A q \in Pods : Running(q)' /\ Bound(q)' => byPod'[q].ip = box'[q]
    BY <1>6, <1>7, ZenonT(40) DEF IInv, RecordsReattached
  <2>3. phase' = "serving" => \A q \in Pods : Running(q)' => Bound(q)'
    BY <1>7, Zenon DEF IInv, RecordsReattached
  <2> QED  BY <2>1, <2>2, <2>3, Zenon DEF RecordsReattached
<1>13. NoCollision'
  <2> SUFFICES ASSUME NEW r \in Pods, NEW q \in Pods, r # q, Running(r)'
               PROVE  box'[q] # box'[r] /\ byPod'[q].ip # box'[r]
    BY Zenon DEF NoCollision
  <2>1. Running(r) /\ box[q] # box[r] /\ byPod[q].ip # box[r]
    BY <1>7, Zenon DEF IInv, NoCollision
  <2>2. CASE q = p  BY <2>1, <2>2, <1>6, Zenon
  <2>3. CASE q # p  BY <2>1, <2>3, <1>6, Zenon
  <2> QED  BY <2>2, <2>3, Zenon
<1>14. RunningPodOnLo0'
  BY <1>1, <1>2, <1>7 DEF IInv, RunningPodOnLo0, TypeOK, Running
<1> QED  BY <1>5, <1>10, <1>11, <1>12, <1>13, <1>14, Zenon DEF IInv

LEMMA ReturnType ==
  ASSUME NEW c \in Calls, NEW a \in Addrs \cup {NoIP}, NEW r \in Results
  PROVE  Return(c, a, r) \in RetType /\ NoRet \in RetType
BY Zenon DEF Return, NoRet, RetType, Calls, Results

LEMMA NodeAliasKeepsIInv == IInv /\ EnsureNodeAlias => IInv'
<1> SUFFICES ASSUME IInv, EnsureNodeAlias PROVE IInv'  BY Zenon
<1>1. PICK o \in Outcome : Ensure(NodeIP, o)  BY Zenon DEF EnsureNodeAlias
<1>2. NodeIP \in Addrs  BY KernelFacts, Zenon
<1>3. ret' \in RetType  BY Zenon, ReturnType DEF EnsureNodeAlias, NoRet, RetType, Calls, Results
<1>4. /\ UNCHANGED <<allocated, byPod, inverse, box, phase>> /\ next' = next
      /\ granted' = granted
  BY Zenon DEF EnsureNodeAlias
<1> QED  BY <1>1, <1>2, <1>3, <1>4, EnsureKeeps, Zenon DEF IInv, TypeOK

LEMMA SetupKeepsIInv ==
  ASSUME IInv, NEW p \in Pods, NEW b \in Backends, Setup(p, b)
  PROVE  IInv'
<1>0. /\ phase = "serving" /\ UNCHANGED <<box, phase>> /\ Usable \subseteq Addrs
      /\ next \in First .. (Last + 1) /\ granted \in SUBSET Pods
  BY KernelFacts, Zenon DEF Setup, IInv, TypeOK
<1>r. \A c \in Calls, a \in Addrs \cup {NoIP}, r \in Results : Return(c, a, r) \in RetType
  BY ReturnType, Zenon
<1>c. "Setup" \in Calls /\ {"ok", "alias", "exhausted", "mismatch"} \subseteq Results
  BY Zenon DEF Calls, Results
<1>1. CASE SetupBound(p, b)
  <2>1. Bound(p) /\ byPod[p].ip \in Usable
    BY <1>1, Zenon DEF SetupBound, IInv, IPAMConsistent, TypeOK
  <2>2. CASE byPod[p].backend # b
    <3>1. UNCHANGED <<allocated, next, byPod, inverse, tracked, host, granted>>
          /\ ret' \in RetType
      BY <1>1, <1>r, <1>c, <2>2, Zenon DEF SetupBound
    <3> QED
      BY <1>0, <3>1 DEF IInv, TypeOK, IPAMConsistent, TrackingMatchesKernel,
         RecordsReattached, NoCollision, RunningPodOnLo0, Bound, Running, RetType
  <2>3. CASE byPod[p].backend = b
    <3>1. PICK o \in Outcome :
            /\ Ensure(byPod[p].ip, o)
            /\ ret' = IF o.err THEN Return("Setup", NoIP, "alias")
                               ELSE Return("Setup", byPod[p].ip, "ok")
            /\ granted' = IF o.err THEN granted ELSE granted \cup {p}
      BY <1>1, <2>3, Zenon DEF SetupBound
    <3>2. UNCHANGED <<allocated, next, byPod, inverse>>  BY <1>1, Zenon DEF SetupBound
    <3>3. ret' \in RetType  BY Zenon, <1>0, <1>r, <1>c, <2>1, <3>1
    <3>4. granted' \in SUBSET Pods
          /\ \A q \in granted' : q \in granted \/ (Bound(q) /\ byPod[q].ip = byPod[p].ip /\ ~o.err)
      BY <1>0, <2>1, <3>1, Zenon
    <3> QED  BY <1>0, <2>1, <3>1, <3>2, <3>3, <3>4, EnsureKeeps, Zenon
  <2> QED  BY SMTT(30), Zenon, <2>2, <2>3
<1>2. CASE SetupFresh(p, b)
  <2>1. ~Bound(p)  BY <1>2, Zenon DEF SetupFresh
  <2>2. PICK ip \in Usable, o \in Outcome :
          /\ AllocateFinds(ip) /\ next' = NextCursor(ip) /\ Ensure(ip, o)
          /\ IF o.err
             THEN /\ ret' = Return("Setup", NoIP, "alias")
                  /\ UNCHANGED <<allocated, byPod, inverse, granted>>
             ELSE /\ ret' = Return("Setup", ip, "ok")
                  /\ Bind(p, ip, b)
    BY <1>2, Zenon DEF SetupFresh
  <2>3. ip \notin allocated  BY <2>2, Zenon DEF AllocateFinds
  <2>4. next' \in First .. (Last + 1)  BY <2>2, RangeAssumption DEF Usable, NextCursor
  <2>5. ret' \in RetType  BY SMTT(30), ZenonT(40), <1>0, <1>r, <1>c, <2>2
  <2>6. CASE o.err
    BY <1>0, <2>2, <2>4, <2>5, <2>6, EnsureKeeps, Zenon
  <2>7. CASE ~o.err
    <3>1. \A q \in Pods : box[q] # ip
      BY SMTT(30), Zenon, <1>0, <2>3, NoneAssumption, RangeAssumption
         DEF IInv, RecordsReattached, IPAMConsistent, Running, Usable
    <3>2. ~Running(p)  BY <1>0, <2>1, Zenon DEF IInv, RecordsReattached
    <3> QED  BY <1>0, <2>1, <2>2, <2>3, <2>4, <2>5, <2>7, <3>1, <3>2, BindKeeps, Zenon
  <2> QED  BY <2>6, <2>7, Zenon
<1>3. CASE SetupExhausted(p)
  <2>1. UNCHANGED <<allocated, next, byPod, inverse, tracked, host, granted>> /\ ret' \in RetType
    BY SMTT(30), ZenonT(40), <1>3, <1>r, <1>c DEF SetupExhausted
  <2> QED
    BY <1>0, <2>1 DEF IInv, TypeOK, IPAMConsistent, TrackingMatchesKernel,
       RecordsReattached, NoCollision, RunningPodOnLo0, Bound, Running, RetType
<1> QED  BY <1>1, <1>2, <1>3, Zenon DEF Setup

LEMMA TeardownKeepsIInv ==
  ASSUME IInv, NEW p \in Pods, Teardown(p)
  PROVE  IInv'
<1>0. /\ phase = "serving" /\ ~Running(p) /\ UNCHANGED <<next, box, phase>>
      /\ granted' = granted \ {p} /\ KernelTypeOK /\ TrackedRight /\ Usable \subseteq Addrs
  BY KernelFacts, Zenon DEF Teardown
<1>r. \A c \in Calls, a \in Addrs \cup {NoIP}, r \in Results : Return(c, a, r) \in RetType
  BY ReturnType, Zenon
<1>c. "Teardown" \in Calls /\ {"ok", "alias"} \subseteq Results  BY Zenon DEF Calls, Results
<1>1. CASE ~Bound(p)
  <2>1. UNCHANGED <<allocated, byPod, inverse, host, tracked>> /\ ret' \in RetType
    BY Zenon, <1>1, <1>r, <1>c DEF Teardown
  <2> QED
    BY <1>0, <2>1 DEF IInv, TypeOK, IPAMConsistent, TrackingMatchesKernel,
       RecordsReattached, NoCollision, RunningPodOnLo0, Bound, Running, RetType
<1>2. CASE Bound(p)
  <2> DEFINE ip == byPod[p].ip
  <2>1. ip \in Usable /\ tracked[ip] # "no" /\ inverse[ip] = p /\ ip \in allocated
    BY <1>2, Zenon DEF IInv, IPAMConsistent, TypeOK, TrackingMatchesKernel
  <2>2. PICK o \in Outcome :
          /\ Remove(ip, o)
          /\ IF o.err
             THEN /\ ret' = Return("Teardown", ip, "alias")
                  /\ UNCHANGED <<allocated, byPod, inverse>>
             ELSE /\ ret' = Return("Teardown", ip, "ok")
                  /\ allocated' = allocated \ {ip}
                  /\ byPod' = [byPod EXCEPT ![p] = NoEntry]
                  /\ inverse' = [inverse EXCEPT ![ip] = NoPod]
    BY <1>2, Zenon DEF Teardown
  <2>3. ret' \in RetType  BY <1>0, <1>r, <1>c, <2>1, <2>2
  <2> HIDE DEF ip
  <2>4. /\ KernelTypeOK' /\ TrackedRight'
        /\ \A a \in Addrs : a # ip => host'[a] = host[a] /\ tracked'[a] = tracked[a]
        /\ o.err => tracked'[ip] # "no"
    BY <1>0, <2>1, <2>2, RemoveStep, Zenon
  <2>5. \A q \in Pods : Running(q) => box[q] # ip /\ box[q] \in Usable
    BY <1>0, Zenon DEF IInv, NoCollision, TypeOK, Running, ip
  <2>6. \A q \in Pods : q # p /\ Bound(q) => byPod[q].ip \in Usable /\ byPod[q].ip # ip
    BY <2>1, Zenon DEF IInv, IPAMConsistent, TypeOK
  <2>7. \A q \in Pods : Running(q)' <=> Running(q)  BY <1>0, Zenon DEF Running
  <2>8. RunningPodOnLo0'
    BY <1>0, <2>4, <2>5, <2>7, Zenon DEF IInv, RunningPodOnLo0
  <2>9. CASE o.err
    <3>1. UNCHANGED <<allocated, byPod, inverse>>  BY <2>2, <2>9, Zenon
    <3>2. TypeOK'  BY <1>0, <2>3, <2>4, <3>1, Zenon DEF IInv, TypeOK, KernelTypeOK, RetType
    <3>3. \A q \in Pods : Bound(q)' <=> Bound(q)  BY SMTT(30), Zenon, <3>1 DEF Bound
    <3>4. IPAMConsistent' /\ NoCollision'
      BY SMTT(30), Zenon, <1>0, <2>7, <3>1 DEF IInv, IPAMConsistent, NoCollision, Bound
    <3>5. TrackingMatchesKernel'
      <4>1. \A q \in Pods : Bound(q)' => tracked'[byPod'[q].ip] # "no"
        <5> SUFFICES ASSUME NEW q \in Pods, Bound(q)'  PROVE tracked'[byPod'[q].ip] # "no"
          BY Zenon
        <5>1. Bound(q) /\ byPod'[q] = byPod[q]  BY <3>1, <3>3, Zenon
        <5>2. CASE q = p  BY <2>4, <2>9, <5>1, <5>2, Zenon DEF ip
        <5>3. CASE q # p
          <6>1. tracked[byPod[q].ip] # "no"  BY <5>1, Zenon DEF IInv, TrackingMatchesKernel
          <6>2. byPod[q].ip \in Addrs /\ byPod[q].ip # ip  BY <1>0, <2>6, <5>1, <5>3, ZenonT(40)
          <6> QED  BY <2>4, <5>1, <6>1, <6>2, Zenon
        <5> QED  BY <5>2, <5>3, Zenon
      <4> QED  BY SMTT(30), Zenon, <2>4, <4>1 DEF TrackingMatchesKernel, TrackedRight
    <3>6. RecordsReattached'
      <4>1. \A q \in granted' : Bound(q)' /\ tracked'[byPod'[q].ip] = "live"
        <5> SUFFICES ASSUME NEW q \in granted'  PROVE Bound(q)' /\ tracked'[byPod'[q].ip] = "live"
          BY Zenon
        <5>1. q \in granted /\ q \in Pods /\ q # p  BY <1>0, Zenon DEF IInv, TypeOK
        <5>2. Bound(q) /\ tracked[byPod[q].ip] = "live"
          BY Zenon, <5>1 DEF IInv, RecordsReattached
        <5>3. Bound(q)' /\ byPod'[q] = byPod[q]  BY Zenon, <3>1, <3>3, <5>1, <5>2
        <5>4. byPod[q].ip \in Addrs /\ byPod[q].ip # ip  BY <1>0, <2>6, <5>1, <5>2, Zenon
        <5> QED  BY <2>4, <5>2, <5>3, <5>4, Zenon
      <4> QED  BY SMTT(30), Zenon, <1>0, <2>7, <3>1, <3>3, <4>1 DEF IInv, RecordsReattached
    <3> QED  BY <2>8, <3>2, <3>4, <3>5, <3>6, Zenon DEF IInv
  <2>10. CASE ~o.err
    <3>1. /\ allocated' = allocated \ {ip}
          /\ byPod' = [byPod EXCEPT ![p] = NoEntry]
          /\ inverse' = [inverse EXCEPT ![ip] = NoPod]
      BY <2>2, <2>10, Zenon
    <3>2. TypeOK'  BY Zenon, <1>0, <2>3, <2>4, <3>1 DEF IInv, TypeOK, KernelTypeOK, RetType
    <3>3. /\ byPod'[p] = NoEntry /\ \A q \in Pods : q # p => byPod'[q] = byPod[q]
          /\ inverse'[ip] = NoPod /\ \A a \in Usable : a # ip => inverse'[a] = inverse[a]
      BY <2>1, <3>1, Zenon DEF IInv, TypeOK
    <3>4. ~Bound(p)' /\ \A q \in Pods : q # p => (Bound(q)' <=> Bound(q))
      BY <3>3, Zenon DEF Bound
    <3>5. IPAMConsistent'
      <4>1. \A q \in Pods : Bound(q)' => byPod'[q].ip \in allocated' /\ inverse'[byPod'[q].ip] = q
        BY SMTT(30), Zenon, <2>6, <3>1, <3>3, <3>4 DEF IInv, IPAMConsistent
      <4>2. \A a \in Usable : inverse'[a] # NoPod
                                 => byPod'[inverse'[a]] # NoEntry /\ byPod'[inverse'[a]].ip = a
        <5> SUFFICES ASSUME NEW a \in Usable, inverse'[a] # NoPod
                     PROVE  byPod'[inverse'[a]] # NoEntry /\ byPod'[inverse'[a]].ip = a
          BY Zenon
        <5>1. a # ip /\ inverse'[a] = inverse[a] /\ inverse[a] \in Pods
          BY <3>3, Zenon DEF IInv, TypeOK
        <5>2. byPod[inverse[a]] # NoEntry /\ byPod[inverse[a]].ip = a
          BY <5>1, Zenon DEF IInv, IPAMConsistent, Bound
        <5>3. inverse[a] # p  BY <5>1, <5>2, Zenon DEF ip
        <5> QED  BY <3>3, <5>1, <5>2, <5>3, Zenon
      <4>3. \A a \in allocated' : inverse'[a] # NoPod
        BY SMTT(30), Zenon, <3>1, <3>3 DEF IInv, IPAMConsistent, TypeOK
      <4> QED  BY <4>1, <4>2, <4>3, Zenon DEF IPAMConsistent, Bound
    <3>6. TrackingMatchesKernel'
      <4>1. \A q \in Pods : Bound(q)' => tracked'[byPod'[q].ip] # "no"
        <5> SUFFICES ASSUME NEW q \in Pods, Bound(q)'  PROVE tracked'[byPod'[q].ip] # "no"
          OBVIOUS
        <5>1. q # p /\ Bound(q) /\ byPod'[q] = byPod[q]  BY <3>3, <3>4, Zenon
        <5>2. tracked[byPod[q].ip] # "no"  BY <5>1, Zenon DEF IInv, TrackingMatchesKernel
        <5>3. byPod[q].ip \in Addrs /\ byPod[q].ip # ip  BY <1>0, <2>6, <5>1, Zenon
        <5> QED  BY <2>4, <5>1, <5>2, <5>3, Zenon
      <4> QED  BY <2>4, <4>1, Zenon DEF TrackingMatchesKernel, TrackedRight
    <3>7. RecordsReattached'
      <4>1. ASSUME NEW q \in granted'  PROVE Bound(q)' /\ tracked'[byPod'[q].ip] = "live"
        <5>1. q \in granted /\ q \in Pods /\ q # p  BY <1>0 DEF IInv, TypeOK
        <5>2. Bound(q) /\ tracked[byPod[q].ip] = "live"
          BY Zenon, <5>1 DEF IInv, RecordsReattached
        <5>3. Bound(q)' /\ byPod'[q] = byPod[q]  BY Zenon, <3>3, <3>4, <5>1, <5>2
        <5>4. byPod[q].ip \in Addrs /\ byPod[q].ip # ip  BY <1>0, <2>6, <5>1, <5>2
        <5> QED  BY <2>4, <5>2, <5>3, <5>4
      <4>2. ASSUME NEW q \in Pods, Running(q)'
            PROVE  (Bound(q)' => byPod'[q].ip = box'[q]) /\ Bound(q)'
        <5>1. Running(q) /\ q # p  BY Zenon, <1>0, <2>7, <4>2
        <5>2. Bound(q) /\ byPod[q].ip = box[q]  BY Zenon, <1>0, <5>1 DEF IInv, RecordsReattached
        <5>3. Bound(q)' /\ byPod'[q] = byPod[q]  BY Zenon, <3>3, <3>4, <5>1, <5>2
        <5> QED  BY <1>0, <5>2, <5>3, Zenon
      <4> QED  BY Zenon, <4>1, <4>2 DEF RecordsReattached
    <3>8. NoCollision'
      <4> SUFFICES ASSUME NEW r \in Pods, NEW q \in Pods, r # q, Running(r)'
                   PROVE  box'[q] # box'[r] /\ byPod'[q].ip # box'[r]
        BY Zenon DEF NoCollision
      <4>1. Running(r) /\ box[q] # box[r] /\ byPod[q].ip # box[r]
        BY <2>7, Zenon DEF IInv, NoCollision
      <4>2. byPod'[q].ip = byPod[q].ip \/ byPod'[q].ip = NoIP  BY <3>3 DEF NoEntry
      <4> QED  BY SMTT(30), Zenon, <1>0, <4>1, <4>2 DEF Running
    <3> QED  BY <2>8, <3>2, <3>5, <3>6, <3>7, <3>8, Zenon DEF IInv
  <2> QED  BY <2>9, <2>10, Zenon
<1> QED  BY <1>1, <1>2, Zenon

LEMMA ReattachKeepsIInv ==
  ASSUME IInv, NEW p \in Pods, NEW ip \in Addrs, NEW b \in Backends, Reattach(p, ip, b)
  PROVE  IInv'
<1>0. /\ Recorded(p, ip) /\ UNCHANGED <<next, box, phase>> /\ Usable \subseteq Addrs
      /\ next \in First .. (Last + 1) /\ granted \in SUBSET Pods
  BY KernelFacts, Zenon DEF Reattach, IInv, TypeOK
<1>r. \A c \in Calls, a \in Addrs \cup {NoIP}, r \in Results : Return(c, a, r) \in RetType
  BY Zenon, ReturnType
<1>c. "Reattach" \in Calls /\ {"ok", "alias", "mismatch", "rebind", "range", "in use"} \subseteq Results
  BY Zenon DEF Calls, Results
<1>1. CASE ReattachRefused(p, ip, b)
  <2>1. Refusal(p, ip, b) \in Results  BY Zenon, <1>c DEF Refusal
  <2>2. UNCHANGED <<allocated, byPod, inverse, tracked, host, granted>> /\ ret' \in RetType
    BY Zenon, <1>1, <1>r, <1>c, <2>1 DEF ReattachRefused
  <2> QED
    BY <1>0, <2>2 DEF IInv, TypeOK, IPAMConsistent, TrackingMatchesKernel,
       RecordsReattached, NoCollision, RunningPodOnLo0, Bound, Running, RetType
<1>2. CASE ReattachBound(p, ip, b)
  <2>1. Bound(p) /\ byPod[p].ip = ip  BY <1>2, Zenon DEF ReattachBound, Refusal
  <2>2. PICK o \in Outcome :
          /\ Ensure(ip, o)
          /\ ret' = Return("Reattach", ip, IF o.err THEN "alias" ELSE "ok")
          /\ granted' = IF o.err THEN granted ELSE granted \cup {p}
    BY <1>2, Zenon DEF ReattachBound
  <2>3. UNCHANGED <<allocated, byPod, inverse>>  BY <1>2, Zenon DEF ReattachBound
  <2>4. ret' \in RetType  BY Zenon, <1>r, <1>c, <2>2
  <2>5. granted' \in SUBSET Pods
        /\ \A q \in granted' : q \in granted \/ (Bound(q) /\ byPod[q].ip = ip /\ ~o.err)
    BY <1>0, <2>1, <2>2, Zenon
  <2> QED  BY SMTT(30), Zenon, <1>0, <2>2, <2>3, <2>4, <2>5, EnsureKeeps
<1>3. CASE ReattachFresh(p, ip, b)
  <2>1. ~Bound(p) /\ ip \in Usable /\ ip \notin allocated
    BY <1>3, Zenon DEF ReattachFresh, Refusal
  <2>2. PICK o \in Outcome :
          /\ Ensure(ip, o)
          /\ ret' = Return("Reattach", ip, IF o.err THEN "alias" ELSE "ok")
          /\ IF o.err THEN UNCHANGED <<allocated, byPod, inverse, granted>> ELSE Bind(p, ip, b)
    BY <1>3, Zenon DEF ReattachFresh
  <2>3. ret' \in RetType  BY Zenon, <1>r, <1>c, <2>2
  <2>4. CASE o.err  BY <1>0, <2>2, <2>3, <2>4, EnsureKeeps, Zenon
  <2>5. CASE ~o.err
    <3>1. \A q \in Pods \ {p} : box[q] # ip
      BY <1>0, <2>1, NoneAssumption, RangeAssumption
         DEF Recorded, IInv, RecordsReattached, IPAMConsistent, Running, Usable
    <3>2. Running(p) => box[p] = ip  BY SMTT(30), Zenon, <1>0, <2>1 DEF Recorded
    <3> QED  BY <1>0, <2>1, <2>2, <2>3, <2>5, <3>1, <3>2, BindKeeps, Zenon
  <2> QED  BY SMTT(30), Zenon, <2>4, <2>5
<1> QED  BY <1>1, <1>2, <1>3, Zenon DEF Reattach

\* A sweep leaves every address of a bound or running pod alone, and treats the others
\* as Remove does.
LEMMA SweepEffect ==
  ASSUME IInv, NEW r \in SweepResults
  PROVE  /\ \A ip \in Stale : r[ip] \in RemoveOutcomes(host[ip], tracked[ip], TRUE)
         /\ Stale \subseteq Usable
         /\ \A p \in Pods : Bound(p) => byPod[p].ip \in Usable \ Stale
         /\ \A p \in Pods : Running(p) => box[p] \in Usable \ Stale
         /\ \A ip \in Addrs : Swept(r, ip) \in HostState
<1>1. \A ip \in Stale : r[ip] \in RemoveOutcomes(host[ip], tracked[ip], TRUE)
  BY Zenon DEF SweepResults
<1>2. Stale \subseteq Usable  BY Zenon DEF Stale
<1>3. \A p \in Pods : Bound(p) => byPod[p].ip \in Usable \ Stale
  BY NoneAssumption, Zenon DEF IInv, IPAMConsistent, TypeOK, Stale
<1>4. \A p \in Pods : Running(p) => box[p] \in Usable \ Stale
  BY Zenon DEF IInv, TypeOK, Running, Stale
<1>5. \A ip \in Addrs : Swept(r, ip) \in HostState
  <2> SUFFICES ASSUME NEW ip \in Addrs PROVE Swept(r, ip) \in HostState  BY Zenon
  <2>1. host[ip] \in HostState /\ tracked[ip] \in TrackState  BY Zenon DEF IInv, TypeOK
  <2>2. CASE ip \in Stale
    <3>1. r[ip] \in Outcome  BY Zenon, <1>1, <2>1, <2>2, RemoveEffect
    <3> QED  BY <2>2, <3>1, Zenon DEF Swept, Outcome
  <2>3. CASE ip \notin Stale  BY <2>1, <2>3, Zenon DEF Swept
  <2> QED  BY <2>2, <2>3, Zenon
<1> QED  BY Zenon, <1>1, <1>2, <1>3, <1>4, <1>5

LEMMA SweepKeepsIInv == IInv /\ SweepStale => IInv'
<1> SUFFICES ASSUME IInv, SweepStale PROVE IInv'  OBVIOUS
<1>1. PICK r \in SweepResults :
        /\ host' = [ip \in Addrs |-> Swept(r, ip)]
        /\ tracked' = [ip \in Addrs |-> IF ip \in Stale THEN r[ip].t ELSE tracked[ip]]
        /\ ret' = Return("Sweep", NoIP, IF \E ip \in Stale : r[ip].err THEN "alias" ELSE "ok")
  BY Zenon DEF SweepStale
<1>2. /\ UNCHANGED <<allocated, next, byPod, inverse, granted, box>> /\ phase' = "serving"
      /\ \A p \in Pods : Running(p) => Bound(p)
  BY Zenon DEF SweepStale
<1>3. /\ \A ip \in Stale : r[ip] \in RemoveOutcomes(host[ip], tracked[ip], TRUE)
      /\ Stale \subseteq Usable
      /\ \A p \in Pods : Bound(p) => byPod[p].ip \in Usable \ Stale
      /\ \A p \in Pods : Running(p) => box[p] \in Usable \ Stale
      /\ \A ip \in Addrs : Swept(r, ip) \in HostState
  BY Zenon, <1>1, SweepEffect
<1>4. KernelTypeOK /\ TrackedRight /\ Usable \subseteq Addrs  BY KernelFacts, Zenon
<1>5. \A ip \in Stale :
        /\ r[ip] \in Outcome
        /\ r[ip].err => \/ r[ip].h = host[ip] /\ r[ip].t = tracked[ip]
                        \/ r[ip].t = "pending" /\ r[ip].h = "none"
        /\ ~r[ip].err => r[ip].t = "no"
  <2> SUFFICES ASSUME NEW ip \in Stale
               PROVE  /\ r[ip] \in Outcome
                      /\ r[ip].err => \/ r[ip].h = host[ip] /\ r[ip].t = tracked[ip]
                                      \/ r[ip].t = "pending" /\ r[ip].h = "none"
                      /\ ~r[ip].err => r[ip].t = "no"
    BY Zenon
  <2>1. host[ip] \in HostState /\ tracked[ip] \in TrackState  BY <1>3, <1>4, Zenon
                                                                 DEF KernelTypeOK
  <2>2. r[ip] \in RemoveOutcomes(host[ip], tracked[ip], TRUE)  BY Zenon, <1>3
  <2> QED  BY ZenonT(40), <2>1, <2>2, RemoveEffect
<1>6. KernelTypeOK'
  BY <1>1, <1>3, <1>4, <1>5, Zenon DEF KernelTypeOK, Outcome
<1>7. \A ip \in Addrs : ip \notin Stale => host'[ip] = host[ip] /\ tracked'[ip] = tracked[ip]
  BY <1>1, Zenon DEF Swept
<1>8. \A ip \in Stale : host'[ip] = r[ip].h /\ tracked'[ip] = r[ip].t
  BY <1>1, <1>3, <1>4, Zenon DEF Swept
<1>9. TrackedRight'
  <2> SUFFICES ASSUME NEW ip \in Usable
               PROVE  /\ tracked'[ip] = "live" => host'[ip] = "alias"
                      /\ tracked'[ip] = "pending" => host'[ip] \in {"none", "cloned"}
    BY Zenon DEF TrackedRight
  <2>1. CASE ip \in Stale  BY <1>4, <1>5, <1>8, <2>1, ZenonT(40) DEF TrackedRight, Outcome
  <2>2. CASE ip \notin Stale  BY <1>4, <1>7, <2>2, Zenon DEF TrackedRight
  <2> QED  BY <2>1, <2>2, Zenon
<1>10. ret' \in RetType  BY Zenon, <1>1, ReturnType DEF Calls, Results
<1>11. \A p \in Pods : (Bound(p)' <=> Bound(p)) /\ (Running(p)' <=> Running(p))
  BY <1>2, Zenon DEF Bound, Running
<1>12. TypeOK'  BY <1>2, <1>6, <1>10, Zenon DEF IInv, TypeOK, KernelTypeOK, RetType
<1>13. IPAMConsistent' /\ NoCollision'
  BY <1>2, <1>11, Zenon DEF IInv, IPAMConsistent, NoCollision, Bound
<1>14. TrackingMatchesKernel'
  <2>1. \A p \in Pods : Bound(p)' => tracked'[byPod'[p].ip] # "no"
    BY <1>2, <1>3, <1>4, <1>7, <1>11, Zenon DEF IInv, TrackingMatchesKernel
  <2> QED  BY SMTT(30), Zenon, <1>9, <2>1 DEF TrackingMatchesKernel, TrackedRight
<1>15. RecordsReattached'
  <2>1. \A p \in granted' : Bound(p)' /\ tracked'[byPod'[p].ip] = "live"
    BY Zenon, <1>2, <1>3, <1>4, <1>7, <1>11 DEF IInv, RecordsReattached, TypeOK
  <2> QED  BY <1>2, <1>11, <2>1, Zenon DEF IInv, RecordsReattached
<1>16. RunningPodOnLo0'
  BY Zenon, <1>2, <1>3, <1>4, <1>7, <1>11 DEF IInv, RunningPodOnLo0
<1> QED  BY <1>12, <1>13, <1>14, <1>15, <1>16, Zenon DEF IInv

LEMMA RuntimeKeepsIInv ==
  ASSUME IInv, NEW p \in Pods, PodStart(p) \/ PodStop(p)
  PROVE  IInv'
<1>1. /\ UNCHANGED <<allocated, next, byPod, inverse, tracked, host, granted, phase>>
      /\ ret' \in RetType
  <2>1. NoRet \in RetType  BY Zenon DEF NoRet, RetType, Calls, Results
  <2> QED  BY <2>1, Zenon DEF PodStart, PodStop
<1>b. \A q \in Pods : Bound(q)' <=> Bound(q)  BY SMTT(30), Zenon, <1>1 DEF Bound
<1>2. IPAMConsistent' /\ TrackingMatchesKernel'
  BY <1>1, Zenon DEF IInv, IPAMConsistent, TrackingMatchesKernel, Bound
<1>3. CASE PodStart(p)
  <2> DEFINE ip == byPod[p].ip
  <2>1. /\ Bound(p) /\ ip \in Usable /\ tracked[ip] = "live" /\ host[ip] = "alias"
        /\ phase = "serving" /\ box' = [box EXCEPT ![p] = ip]
    <3>1. phase = "serving" /\ p \in granted /\ box' = [box EXCEPT ![p] = ip]
      BY <1>3, Zenon DEF PodStart
    <3>2. Bound(p) /\ tracked[ip] = "live"  BY <3>1, Zenon DEF IInv, RecordsReattached
    <3>3. ip \in Usable  BY SMTT(30), Zenon, <3>2 DEF IInv, TypeOK, IPAMConsistent
    <3>4. host[ip] = "alias"  BY <3>2, <3>3, Zenon DEF IInv, TrackingMatchesKernel
    <3> QED  BY <3>1, <3>2, <3>3, <3>4, Zenon
  <2>2. box'[p] = ip /\ \A q \in Pods : q # p => box'[q] = box[q]
    BY <2>1, Zenon DEF IInv, TypeOK
  <2>3. \A q \in Pods : q # p => box[q] # ip /\ byPod[q].ip # ip
    <3> SUFFICES ASSUME NEW q \in Pods, q # p  PROVE box[q] # ip /\ byPod[q].ip # ip
      BY Zenon
    <3>1. ip # NoIP  BY <2>1, NoneAssumption, RangeAssumption DEF Usable
    <3>2. box[q] # ip
      <4>1. CASE Running(q)  BY <4>1, Zenon DEF IInv, NoCollision
      <4>2. CASE ~Running(q)  BY <3>1, <4>2, Zenon DEF Running
      <4> QED  BY <4>1, <4>2, Zenon
    <3>3. byPod[q].ip # ip
      <4>1. CASE Bound(q)  BY <2>1, <4>1, Zenon DEF IInv, IPAMConsistent
      <4>2. CASE ~Bound(q)  BY <3>1, <4>2 DEF Bound, NoEntry
      <4> QED  BY SMTT(30), Zenon, <4>1, <4>2
    <3> QED  BY <3>2, <3>3, Zenon
  <2>4. TypeOK'  BY SMTT(30), Zenon, <1>1, <2>1 DEF IInv, TypeOK, RetType
  <2>5. RecordsReattached'
    <3>1. \A q \in Pods : Running(q)' /\ Bound(q)' => byPod'[q].ip = box'[q]
      BY SMTT(30), Zenon, <1>1, <1>b, <2>2 DEF IInv, RecordsReattached, Running
    <3>2. \A q \in Pods : Running(q)' => Bound(q)'
      BY <1>b, <2>1, <2>2, Zenon DEF IInv, RecordsReattached, Running
    <3>3. \A q \in granted' : Bound(q)' /\ tracked'[byPod'[q].ip] = "live"
      BY <1>1, <1>b, Zenon DEF IInv, RecordsReattached, TypeOK
    <3> QED  BY SMTT(30), Zenon, <3>1, <3>2, <3>3 DEF RecordsReattached
  <2>6. RunningPodOnLo0'
    BY ZenonT(40), <1>1, <2>1, <2>2 DEF IInv, RunningPodOnLo0, Running
  <2>7. NoCollision'
    BY <1>1, <2>2, <2>3, ZenonT(40) DEF IInv, NoCollision, Running
  <2> QED  BY <1>2, <2>4, <2>5, <2>6, <2>7, Zenon DEF IInv
<1>4. CASE PodStop(p)
  <2>1. Running(p) /\ box' = [box EXCEPT ![p] = NoIP]  BY <1>4, Zenon DEF PodStop
  <2>2. box'[p] = NoIP /\ \A q \in Pods : q # p => box'[q] = box[q]
    BY <2>1, Zenon DEF IInv, TypeOK
  <2>3. TypeOK'  BY <1>1, <2>1, Zenon DEF IInv, TypeOK, RetType
  <2>4. RecordsReattached' /\ RunningPodOnLo0'
    <3>1. \A q \in Pods : Running(q)' => q # p /\ Running(q)  BY SMTT(30), Zenon, <2>2 DEF Running
    <3>2. \A q \in granted' : Bound(q)' /\ tracked'[byPod'[q].ip] = "live"
      BY <1>1, <1>b DEF IInv, RecordsReattached, TypeOK
    <3>3. RecordsReattached'
      <4>1. \A q \in Pods : Running(q)' /\ Bound(q)' => byPod'[q].ip = box'[q]
        BY <1>1, <1>b, <2>2, <3>1, Zenon DEF IInv, RecordsReattached
      <4>2. phase' = "serving" => \A q \in Pods : Running(q)' => Bound(q)'
        BY <1>1, <1>b, <3>1, Zenon DEF IInv, RecordsReattached
      <4> QED  BY <3>2, <4>1, <4>2, Zenon DEF RecordsReattached
    <3> QED  BY Zenon, <1>1, <2>2, <3>1, <3>3 DEF IInv, RunningPodOnLo0
  <2>5. NoCollision'
    BY <1>1, <2>2, Zenon DEF IInv, NoCollision, Running
  <2> QED  BY <1>2, <2>3, <2>4, <2>5, Zenon DEF IInv
<1> QED  BY <1>3, <1>4, Zenon

LEMMA CloneKeepsIInv ==
  ASSUME IInv, NEW ip \in Usable, CloneRoute(ip)
  PROVE  IInv'
<1>1. /\ UNCHANGED <<allocated, next, byPod, inverse, tracked, granted, box, phase>>
      /\ ret' \in RetType
      /\ host[ip] = "none" /\ host' = [host EXCEPT ![ip] = "cloned"]
      /\ \A p \in Pods : (Bound(p)' <=> Bound(p)) /\ (Running(p)' <=> Running(p))
  BY Zenon DEF CloneRoute, NoRet, RetType, Calls, Results, Bound, Running
<1>2. /\ host' \in [Addrs -> HostState]
      /\ \A a \in Addrs : host'[a] = host[a] \/ (host[a] = "none" /\ host'[a] = "cloned")
  BY <1>1, KernelFacts, Zenon DEF KernelTypeOK, HostState
<1>3. TypeOK'  BY SMTT(30), Zenon, <1>1, <1>2 DEF IInv, TypeOK, RetType
<1>4. TrackingMatchesKernel'
  <2>1. TrackedRight /\ Usable \subseteq Addrs  BY KernelFacts, Zenon
  <2>2. TrackedRight'  BY <1>1, <1>2, <2>1, Zenon DEF TrackedRight
  <2>3. \A q \in Pods : Bound(q)' => tracked'[byPod'[q].ip] # "no"
    BY <1>1, Zenon DEF IInv, TrackingMatchesKernel, Bound
  <2> QED  BY <2>2, <2>3, Zenon DEF TrackingMatchesKernel, TrackedRight
<1>5. RunningPodOnLo0'
  BY <1>1, <1>2, KernelFacts, ZenonT(40) DEF IInv, RunningPodOnLo0, TypeOK, Running
<1>6. IPAMConsistent' /\ RecordsReattached' /\ NoCollision'
  BY Zenon, <1>1 DEF IInv, IPAMConsistent, RecordsReattached, NoCollision, Bound
<1> QED  BY <1>3, <1>4, <1>5, <1>6, Zenon DEF IInv

\* Whatever request a crash cuts, the running pods keep their aliases.
LEMMA CrashHostKeeps ==
  ASSUME IInv, CrashHost
  PROVE  /\ host' \in [Addrs -> HostState]
         /\ \A p \in Pods : Running(p) => host'[box[p]] = "alias"
         /\ host'[NodeIP] = host[NodeIP]
<1>0. KernelTypeOK /\ Usable \subseteq Addrs /\ NodeIP \in Addrs /\ NodeIP \notin Usable
  BY KernelFacts, Zenon
<1>1. \A p \in Pods : Running(p) => box[p] \in Usable /\ host[box[p]] = "alias"
  BY Zenon DEF IInv, TypeOK, RunningPodOnLo0, Running
<1>2. CASE UNCHANGED host  BY <1>0, <1>1, <1>2, Zenon DEF KernelTypeOK
<1>3. ASSUME NEW ip \in Usable, NEW o \in EnsureOutcomes(host[ip], tracked[ip], TRUE),
             host' = [host EXCEPT ![ip] = o.h]
      PROVE  /\ host' \in [Addrs -> HostState]
             /\ \A p \in Pods : Running(p) => host'[box[p]] = "alias"
             /\ host'[NodeIP] = host[NodeIP]
  <2>1. host[ip] \in HostState /\ tracked[ip] \in TrackState  BY <1>0, Zenon DEF KernelTypeOK
  <2>2. /\ o \in Outcome
        /\ o.err => o.h = host[ip] \/ host[ip] = "blackhole"
        /\ ~o.err => o.h = "alias" \/ o.h = host[ip]
    <3>1. PICK b \in BOOLEAN : o \in EnsureOutcomes(host[ip], tracked[ip], b)
      <4>1. TRUE \in BOOLEAN  BY Zenon
      <4> QED  BY <4>1, Zenon
    <3> QED  BY <2>1, <3>1, EnsureEffect
  <2>3. o.h \in HostState /\ (host[ip] = "alias" => o.h = "alias")  BY SMTT(30), Zenon, <2>2
                                                                       DEF Outcome
  <2> QED  BY <1>0, <1>1, <1>3, <2>3, Zenon DEF KernelTypeOK
<1>4. ASSUME NEW q \in Pods, Bound(q), ~Running(q),
             NEW o \in RemoveOutcomes(host[byPod[q].ip], tracked[byPod[q].ip], TRUE),
             host' = [host EXCEPT ![byPod[q].ip] = o.h]
      PROVE  /\ host' \in [Addrs -> HostState]
             /\ \A p \in Pods : Running(p) => host'[box[p]] = "alias"
             /\ host'[NodeIP] = host[NodeIP]
  <2>1. byPod[q].ip \in Usable  BY <1>4, Zenon DEF IInv, IPAMConsistent, TypeOK
  <2>2. host[byPod[q].ip] \in HostState /\ tracked[byPod[q].ip] \in TrackState
    BY SMTT(30), Zenon, <1>0, <2>1 DEF KernelTypeOK
  <2>3. o \in Outcome  BY Zenon, <2>2, RemoveEffect
  <2>4. o.h \in HostState  BY SMTT(30), Zenon, <2>3 DEF Outcome
  <2>5. \A p \in Pods : Running(p) => box[p] # byPod[q].ip
    BY <1>4, Zenon DEF IInv, NoCollision
  <2> QED  BY <1>0, <1>1, <1>4, <2>1, <2>4, <2>5, Zenon DEF KernelTypeOK
<1>5. ASSUME NEW r \in SweepResults, host' = [ip \in Addrs |-> Swept(r, ip)]
      PROVE  /\ host' \in [Addrs -> HostState]
             /\ \A p \in Pods : Running(p) => host'[box[p]] = "alias"
             /\ host'[NodeIP] = host[NodeIP]
  <2>1. /\ Stale \subseteq Usable
        /\ \A p \in Pods : Running(p) => box[p] \in Usable \ Stale
        /\ \A ip \in Addrs : Swept(r, ip) \in HostState
    BY Zenon, SweepEffect
  <2>2. \A ip \in Addrs : ip \notin Stale => host'[ip] = host[ip]  BY <1>5, Zenon DEF Swept
  <2> QED  BY <1>0, <1>1, <1>5, <2>1, <2>2, Zenon
<1> QED  BY Zenon, <1>2, <1>3, <1>4, <1>5 DEF CrashHost

LEMMA CrashKeepsIInv == IInv /\ Crash => IInv'
<1> SUFFICES ASSUME IInv, Crash PROVE IInv'  OBVIOUS
<1> USE RangeAssumption, NoneAssumption
<1>1. /\ host' \in [Addrs -> HostState]
      /\ \A p \in Pods : Running(p) => host'[box[p]] = "alias"
  BY CrashHostKeeps, Zenon DEF Crash
<1>2. \A p \in Pods : ~Bound(p)' /\ (Running(p)' <=> Running(p)) /\ byPod'[p].ip = NoIP
  BY Zenon DEF Crash, Bound, Running, NoEntry
<1>3. TypeOK'
  <2>1. /\ allocated' \in SUBSET Usable /\ next' \in First .. (Last + 1)
        /\ inverse' \in [Usable -> Pods \cup {NoPod}] /\ granted' \in SUBSET Pods
        /\ phase' \in {"reconciling", "serving"}
    BY DEF Crash
  <2>2. byPod' \in [Pods -> Entries \cup {NoEntry}]  BY Zenon DEF Crash
  <2>3. tracked' \in [Addrs -> TrackState]  BY Zenon DEF Crash, TrackState
  <2>4. ret' \in [call : Calls, ip : Addrs \cup {NoIP}, res : Results]
    BY Zenon DEF Crash, NoRet, Calls, Results
  <2>5. box' \in [Pods -> Usable \cup {NoIP}]  BY Zenon DEF Crash, IInv, TypeOK
  <2> QED  BY <1>1, <2>1, <2>2, <2>3, <2>4, <2>5, Zenon DEF TypeOK
<1>4. IPAMConsistent'  BY <1>2, Zenon DEF Crash, IPAMConsistent
<1>5. TrackingMatchesKernel'
  BY <1>2 DEF Crash, TrackingMatchesKernel, Usable, Addrs, NodeIP
<1>6. RecordsReattached'  BY <1>2, Zenon DEF Crash, RecordsReattached
<1>7. NoCollision'  BY <1>2, Zenon DEF Crash, IInv, NoCollision, Running
<1>8. RunningPodOnLo0'  BY <1>1, <1>2, Zenon DEF Crash, RunningPodOnLo0
<1> QED  BY <1>3, <1>4, <1>5, <1>6, <1>7, <1>8, Zenon DEF IInv

LEMMA NextKeepsIInv == IInv /\ [Next]_vars => IInv'
<1> SUFFICES ASSUME IInv, [Next]_vars PROVE IInv'  BY Zenon
<1>1. CASE UNCHANGED vars
  BY <1>1 DEF vars, IInv, TypeOK, IPAMConsistent, TrackingMatchesKernel, RecordsReattached,
              NoCollision, RunningPodOnLo0, Bound, Running
<1>2. CASE EnsureNodeAlias  BY <1>2, NodeAliasKeepsIInv, Zenon
<1>3. CASE \E p \in Pods, b \in Backends : Setup(p, b)  BY <1>3, SetupKeepsIInv, Zenon
<1>4. CASE \E p \in Pods : Teardown(p)  BY <1>4, TeardownKeepsIInv, Zenon
<1>5. CASE \E p \in Pods, ip \in Addrs, b \in Backends : Reattach(p, ip, b)
  BY <1>5, ReattachKeepsIInv, Zenon
<1>6. CASE SweepStale  BY <1>6, SweepKeepsIInv
<1>7. CASE \E p \in Pods : PodStart(p) \/ PodStop(p)  BY <1>7, RuntimeKeepsIInv, Zenon
<1>8. CASE \E ip \in Usable : CloneRoute(ip)  BY <1>8, CloneKeepsIInv, Zenon
<1>9. CASE Crash  BY <1>9, CrashKeepsIInv
<1> QED  BY <1>1, <1>2, <1>3, <1>4, <1>5, <1>6, <1>7, <1>8, <1>9, Zenon DEF Next

\* The inductive invariant holds in every reachable state.
THEOREM Invariance == Spec => []IInv
<1>1. Init => IInv  BY InitIInv, Zenon
<1>2. IInv /\ [Next]_vars => IInv'  BY NextKeepsIInv, Zenon
<1> QED  BY <1>1, <1>2, PTL DEF Spec

-----------------------------------------------------------------------------
(* The theorems. *)

\* Every variable keeps its type: in particular only usable hosts are ever allocated,
\* and the cursor stays within one of the range (allocator.go).
THEOREM TypeCorrect == Spec => []TypeOK
<1>1. IInv => TypeOK  BY Zenon DEF IInv
<1> QED  BY <1>1, Invariance, PTL

\* An address is reserved exactly when one pod is bound to it: no failed Setup, Reattach
\* or Teardown leaks or shares an address (podnet.go, reconcile.go).
THEOREM IPAM == Spec => []IPAMConsistent
<1>1. IInv => IPAMConsistent  BY Zenon DEF IInv
<1> QED  BY <1>1, Invariance, PTL

\* No pod is given the address of another running pod, across any number of crashes of
\* the daemon at any point (reconcile.go).
THEOREM Collision == Spec => []NoCollision
<1>1. IInv => NoCollision  BY Zenon DEF IInv
<1> QED  BY <1>1, Invariance, PTL

\* A running pod's address stays aliased on lo0 across crashes, reattaches and sweeps.
THEOREM OnLo0 == Spec => []RunningPodOnLo0
<1>1. IInv => RunningPodOnLo0  BY Zenon DEF IInv
<1> QED  BY <1>1, Invariance, PTL

\* The alias manager's memory agrees with the kernel (alias.go).
THEOREM Tracking == Spec => [](TrackingMatchesKernel /\ RecordsReattached)
<1>1. IInv => TrackingMatchesKernel /\ RecordsReattached  BY Zenon DEF IInv
<1> QED  BY <1>1, Invariance, PTL

\* A full scan of the allocator probes every usable address, wherever its cursor stands.
LEMMA ScanIsComplete ==
  ASSUME TypeOK, PoolExhausted
  PROVE  allocated = Usable
<1> USE RangeAssumption
<1> SUFFICES ASSUME NEW ip \in Usable PROVE ip \in allocated  BY Zenon DEF TypeOK
<1> DEFINE start == IF next > Last THEN First ELSE next
<1>1. start \in First .. Last /\ ip \in First .. Last  BY DEF TypeOK, Usable
<1>2. CASE ip >= start
  <2>1. ip - start \in 0 .. (Last - First)  BY <1>1, <1>2
  <2>2. Probe(ip - start) = ip  BY <1>1, <1>2 DEF Probe
  <2> QED  BY <2>1, <2>2, Zenon DEF PoolExhausted
<1>3. CASE ip < start
  <2> DEFINE i == ip - start + (Last - First + 1)
  <2>1. i \in 0 .. (Last - First)  BY <1>1, <1>3
  <2>2. Probe(i) = ip  BY <1>1, <1>3 DEF Probe
  <2> HIDE DEF i
  <2> QED  BY <2>1, <2>2, Zenon DEF PoolExhausted
<1> QED  BY <1>1, <1>2, <1>3

\* Allocate reports an exhausted pool only when every usable address is allocated.
THEOREM Exhaustion == Spec => []ExhaustedOnlyWhenFull
<1>1. Init => ExhaustedOnlyWhenFull  BY DEF Init, NoRet, ExhaustedOnlyWhenFull
<1>2. IInv /\ ExhaustedOnlyWhenFull /\ [Next]_vars => ExhaustedOnlyWhenFull'
  <2> SUFFICES ASSUME IInv, ExhaustedOnlyWhenFull, [Next]_vars PROVE ExhaustedOnlyWhenFull'
    BY Zenon
  <2>1. CASE UNCHANGED vars  BY <2>1, Zenon DEF vars, ExhaustedOnlyWhenFull
  <2>2. CASE \E p \in Pods, b \in Backends : Setup(p, b)
    <3>1. PICK p \in Pods, b \in Backends : Setup(p, b)  BY <2>2, Zenon
    <3>2. CASE SetupExhausted(p)
      <4>1. PoolExhausted /\ allocated' = allocated  BY <3>2, Zenon DEF SetupExhausted
      <4> QED  BY <4>1, ScanIsComplete, Zenon DEF IInv, ExhaustedOnlyWhenFull
    <3>3. CASE SetupBound(p, b)
      <4>1. ret'.res # "exhausted"  BY SMTT(30), Zenon, <3>3 DEF SetupBound, Return
      <4> QED  BY <4>1, Zenon DEF ExhaustedOnlyWhenFull
    <3>4. CASE SetupFresh(p, b)
      <4>1. ret'.res # "exhausted"  BY <3>4 DEF SetupFresh, Return
      <4> QED  BY <4>1, SMTT(20) DEF ExhaustedOnlyWhenFull
    <3> QED  BY <3>1, <3>2, <3>3, <3>4, Zenon DEF Setup
  <2>3. CASE \E p \in Pods : Teardown(p)
    <3>1. ret'.res # "exhausted"  BY <2>3 DEF Teardown, Return
    <3> QED  BY SMTT(30), Zenon, <3>1 DEF ExhaustedOnlyWhenFull
  <2>4. CASE \E p \in Pods, ip \in Addrs, b \in Backends : Reattach(p, ip, b)
    <3>1. PICK p \in Pods, ip \in Addrs, b \in Backends : Reattach(p, ip, b)  BY <2>4, Zenon
    <3>2. PICK a, r : ret' = Return("Reattach", a, r) /\ r # "exhausted"
      <4>1. CASE ReattachRefused(p, ip, b)
        <5>1. Refusal(p, ip, b) # "exhausted"  BY Zenon DEF Refusal
        <5> QED  BY <4>1, <5>1, Zenon DEF ReattachRefused
      <4>2. CASE ReattachBound(p, ip, b)  BY <4>2 DEF ReattachBound
      <4>3. CASE ReattachFresh(p, ip, b)  BY SMTT(30), Zenon, <4>3 DEF ReattachFresh
      <4> QED  BY <3>1, <4>1, <4>2, <4>3, Zenon DEF Reattach
    <3> QED  BY <3>2, Zenon DEF ExhaustedOnlyWhenFull, Return
  <2>5. CASE SweepStale
    <3>1. ret'.res # "exhausted"  BY <2>5 DEF SweepStale, Return
    <3> QED  BY <3>1, Zenon DEF ExhaustedOnlyWhenFull
  <2>6. CASE \/ EnsureNodeAlias \/ Crash
             \/ \E p \in Pods : PodStart(p) \/ PodStop(p)
             \/ \E ip \in Usable : CloneRoute(ip)
    <3>1. ret' = NoRet  BY <2>6, Zenon DEF EnsureNodeAlias, Crash, PodStart, PodStop, CloneRoute
    <3> QED  BY <3>1, Zenon DEF NoRet, ExhaustedOnlyWhenFull
  <2> QED  BY <2>1, <2>2, <2>3, <2>4, <2>5, <2>6, Zenon DEF Next
<1> QED  BY <1>1, <1>2, Invariance, PTL DEF Spec

-----------------------------------------------------------------------------
(* Action properties. *)

LEMMA FreedStep ==
  ASSUME IInv, [Next]_vars
  PROVE  \A ip \in allocated \ allocated' : phase' = "serving" => host'[ip] = "blackhole"
<1> SUFFICES ASSUME NEW ip \in allocated, ip \notin allocated', phase' = "serving"
             PROVE  host'[ip] = "blackhole"
  BY Zenon
<1>1. CASE \E p \in Pods : Teardown(p)
  <2>1. PICK p \in Pods : Teardown(p)  BY <1>1, Zenon
  <2>2. Bound(p)  BY Zenon, <2>1 DEF Teardown
  <2>3. PICK o \in Outcome :
          /\ Remove(byPod[p].ip, o)
          /\ o.err => allocated' = allocated
          /\ ~o.err => allocated' = allocated \ {byPod[p].ip}
    BY <2>1, <2>2, Zenon DEF Teardown
  <2>4. ~o.err /\ ip = byPod[p].ip  BY <2>3, Zenon
  <2>5. byPod[p].ip \in Usable /\ tracked[byPod[p].ip] # "no"
    BY <2>2, Zenon DEF IInv, IPAMConsistent, TypeOK, TrackingMatchesKernel
  <2> QED  BY Zenon, <2>3, <2>4, <2>5, KernelFacts, RemoveStep
<1>2. CASE UNCHANGED allocated \/ phase' = "reconciling"  BY <1>2, Zenon
<1>3. CASE \E p \in Pods, b \in Backends : Setup(p, b)
  <2>1. allocated \subseteq allocated'
    BY ZenonT(40), <1>3 DEF Setup, SetupBound, SetupFresh, SetupExhausted, Bind
  <2> QED  BY <2>1, Zenon
<1>4. CASE \E p \in Pods, a \in Addrs, b \in Backends : Reattach(p, a, b)
  BY <1>4, Zenon DEF Reattach
<1> QED
  BY Zenon, <1>1, <1>2, <1>3, <1>4
     DEF Next, vars, EnsureNodeAlias, SweepStale, PodStart, PodStop, CloneRoute, Crash

\* While the process lives, an address is freed only with its blackhole in place
\* (podnet.go Teardown, alias.go Remove).
THEOREM Freed == Spec => FreedOnlyBlackholed
<1>1. IInv /\ [Next]_vars =>
        [\A ip \in allocated \ allocated' : phase' = "serving" => host'[ip] = "blackhole"]_vars
  BY FreedStep, Zenon
<1> QED  BY <1>1, Invariance, PTL DEF Spec, FreedOnlyBlackholed

LEMMA NodeAliasStep ==
  ASSUME IInv, [Next]_vars, host[NodeIP] = "alias"
  PROVE  host'[NodeIP] = "alias"
<1>0. KernelTypeOK /\ TrackedRight /\ Usable \subseteq Addrs /\ NodeIP \in Addrs /\ NodeIP \notin Usable
  BY KernelFacts, Zenon
<1>1. ASSUME NEW ip \in Addrs, NEW o \in Outcome, Ensure(ip, o) PROVE host'[NodeIP] = "alias"
  BY Zenon, <1>0, <1>1, EnsureStep
<1>2. ASSUME NEW ip \in Usable, NEW o \in Outcome, Remove(ip, o) PROVE host'[NodeIP] = "alias"
  BY <1>0, <1>2, RemoveStep, Zenon
<1>3. \A p \in Pods : Bound(p) => byPod[p].ip \in Usable
  BY Zenon DEF IInv, IPAMConsistent, TypeOK
<1>4. CASE EnsureNodeAlias  BY <1>0, <1>1, <1>4, Zenon DEF EnsureNodeAlias
<1>5. CASE \E p \in Pods, b \in Backends : Setup(p, b)
  <2>1. PICK p \in Pods, b \in Backends : Setup(p, b)  BY <1>5, Zenon
  <2>2. UNCHANGED host \/ \E ip \in Usable, o \in Outcome : Ensure(ip, o)
    BY <1>3, <2>1, Zenon DEF Setup, SetupBound, SetupFresh, SetupExhausted
  <2> QED  BY <1>0, <1>1, <2>2, Zenon
<1>6. CASE \E p \in Pods : Teardown(p)
  <2>1. UNCHANGED host \/ \E ip \in Usable, o \in Outcome : Remove(ip, o)
    BY <1>3, <1>6, Zenon DEF Teardown
  <2> QED  BY SMTT(30), Zenon, <1>2, <2>1
<1>7. CASE \E p \in Pods, ip \in Addrs, b \in Backends : Reattach(p, ip, b)
  <2>1. UNCHANGED host \/ \E ip \in Addrs, o \in Outcome : Ensure(ip, o)
    BY <1>7 DEF Reattach, ReattachRefused, ReattachBound, ReattachFresh
  <2> QED  BY <1>1, <2>1, Zenon
<1>8. CASE SweepStale  BY Zenon, <1>0, <1>8 DEF SweepStale, Swept, Stale
<1>9. CASE \E ip \in Usable : CloneRoute(ip)  BY <1>0, <1>9, Zenon DEF CloneRoute, KernelTypeOK
<1>10. CASE Crash  BY <1>10, CrashHostKeeps, Zenon DEF Crash
<1> QED
  BY <1>4, <1>5, <1>6, <1>7, <1>8, <1>9, <1>10, Zenon DEF Next, vars, PodStart, PodStop

\* The node's own alias is never taken down by a pod operation, a sweep or a restart.
THEOREM NodeAlias == Spec => NodeAliasKept
<1>1. IInv /\ [Next]_vars => [host[NodeIP] = "alias" => host'[NodeIP] = "alias"]_vars
  BY NodeAliasStep, Zenon
<1> QED  BY <1>1, Invariance, PTL DEF Spec, NodeAliasKept

-----------------------------------------------------------------------------
(* Refinement. *)

LEMMA PromiseStep ==
  ASSUME IInv, IInv', [Next]_vars
  PROVE  [Promise!Next]_box
<1>1. CASE \E p \in Pods : PodStart(p)
  <2>1. PICK p \in Pods : PodStart(p)  BY <1>1, Zenon
  <2>2. box[p] = NoIP /\ box' = [box EXCEPT ![p] = byPod[p].ip]
    BY ZenonT(40), <2>1 DEF PodStart, Running
  <2>3. Bound(p)  BY SMTT(30), Zenon, <2>1 DEF PodStart, IInv, RecordsReattached
  <2>4. byPod[p].ip \in Usable /\ inverse[byPod[p].ip] = p
    BY <2>3, Zenon DEF IInv, IPAMConsistent, TypeOK
  <2>5. byPod[p].ip # NoIP  BY <2>4, NoneAssumption, RangeAssumption DEF Usable
  <2>6. \A q \in Pods : box[q] # byPod[p].ip
    BY <2>2, <2>5, Zenon DEF IInv, NoCollision, Running
  <2>7. Promise!Start(p)  BY Zenon, <2>2, <2>4, <2>6 DEF Promise!Start
  <2> QED  BY <2>7, Zenon DEF Promise!Next
<1>2. CASE \E p \in Pods : PodStop(p)
  <2>1. PICK p \in Pods : PodStop(p)  BY <1>2
  <2>2. Promise!Stop(p)  BY <2>1, Zenon DEF PodStop, Running, Promise!Stop
  <2> QED  BY <2>2, Zenon DEF Promise!Next
<1>3. CASE UNCHANGED box  BY <1>3, Zenon
<1> QED
  BY Zenon, <1>1, <1>2, <1>3
     DEF Next, vars, EnsureNodeAlias, Setup, Teardown, Reattach, SweepStale, CloneRoute, Crash

\* The node's pod network keeps its promise to the running pods: daemon crashes and
\* reconciles are invisible to them (reconcile.go).
THEOREM Refinement == Spec => KeepsPromise
<1>1. Init => Promise!Init  BY Zenon DEF Init, Promise!Init
<1>2. IInv /\ IInv' /\ [Next]_vars => [Promise!Next]_box  BY PromiseStep, ZenonT(40)
<1> QED  BY <1>1, <1>2, Invariance, PTL DEF Spec, KeepsPromise, Promise!Spec

-----------------------------------------------------------------------------
(* The connections and the socket of a BindPort call. *)

Holders == {"daemon", "flight", "client"}
Connections == [pc : {"none", "queued", "verify", "read", "dispatch", "send", "close", "gone"},
                fd : BOOLEAN, frames : Nat]
CallRecords == [pc : {"idle", "dial", "wait", "inspect", "held", "failed"}, attempt : Nat,
                conn : SUBSET Conns]

ServeTypeOK ==
  /\ peer \in [Conns -> {"none", "live", "closed"}] /\ conns \in [Conns -> Connections]
  /\ caller \in CallRecords
  /\ refs \subseteq caller.conn \X Holders /\ flushed \subseteq Conns

\* A connection nobody dialled has done nothing.
Fresh ==
  \A c \in Conns : peer[c] = "none" => conns[c].pc = "none" /\ c \notin flushed /\ c \notin caller.conn

\* The call has one connection at a time, and only its connection is sent a socket.
OneCall ==
  /\ \A c, d \in caller.conn : c = d
  /\ caller.pc \in {"idle", "dial"} => caller.conn = {}
  /\ \A c \in Conns : conns[c].pc \in {"send", "close"} => c \in caller.conn

\* The one request of the call's connection, c at the daemon in the state k: before its
\* bind no socket is on the port, and a socket was flushed, or is inspected, with no other
\* descriptor left but the client's.
OneRequestOf(c, k) ==
  /\ k.frames \in {0, 1}
  /\ k.pc \in {"dispatch", "send", "close"} => k.frames = 0
  /\ k.pc \in {"dispatch", "send"} \/ k.frames = 1 => caller.pc \in {"wait", "failed"}
  /\ refs # {} => k.frames = 0 /\ k.pc \in {"send", "close", "read", "gone"}
  /\ <<c, "daemon">> \in refs <=> k.pc \in {"send", "close"}
  /\ k.pc = "send" => <<c, "flight">> \notin refs
  /\ caller.pc \in {"inspect", "held"} =>
       <<c, "flight">> \notin refs /\ k.frames = 0 /\ k.pc \in {"close", "read", "gone"}
  /\ c \in flushed => k.frames = 0 /\ k.pc \in {"read", "gone"}
CallRequest == \A c \in caller.conn : OneRequestOf(c, conns[c])

ServeInv == ServeTypeOK /\ Fresh /\ OneCall /\ CallRequest /\ RetryPortFree

ServeSpec == ServeInit /\ [][ServeNext]_serveVars

-----------------------------------------------------------------------------
LEMMA ServeInitial == ServeInit => ServeInv
BY DEF ServeInit, ServeInv, ServeTypeOK, Fresh, OneCall, CallRequest, RetryPortFree, Connections,
       NoConn, Holders, CallRecords

\* A connection moves and nothing else of it does.
LEMMA ConnMoves ==
  ASSUME ServeInv, NEW c \in Conns, NEW n \in Connections, conns' = [conns EXCEPT ![c] = n],
         UNCHANGED <<peer, portVars, caller>>, conns[c].pc = "none" => n.pc = "none",
         n.pc \in {"send", "close"} => c \in caller.conn,
         c \in caller.conn => OneRequestOf(c, n)
  PROVE  ServeInv'
<1>1. conns'[c] = n /\ \A d \in Conns \ {c} : conns'[d] = conns[d]
  BY Zenon DEF ServeInv, ServeTypeOK
<1>2. UNCHANGED <<peer, refs, flushed, busy, caller>>
  BY Zenon DEF portVars
<1>3. ServeTypeOK'
  BY <1>2, Zenon DEF ServeInv, ServeTypeOK
<1>4. (Fresh /\ OneCall)'
  BY <1>1, <1>2, Zenon DEF ServeInv, Fresh, OneCall
<1>5. CallRequest'
  <2> SUFFICES ASSUME NEW d \in caller.conn PROVE OneRequestOf(d, conns'[d])
    BY <1>2, Zenon DEF CallRequest, OneRequestOf
  <2>1. d \in Conns
    BY Zenon DEF ServeInv, ServeTypeOK, CallRecords
  <2> QED
    BY <1>1, <2>1, Zenon DEF ServeInv, CallRequest
<1> QED
  BY <1>2, <1>3, <1>4, <1>5, Zenon DEF ServeInv, RetryPortFree

LEMMA HandleSteps ==
  ASSUME ServeInv, NEW c \in Conns,
         \/ Accept(c) \/ CloseOnStop(c) \/ VerifyPeer(c) \/ ReadEnds(c) \/ Dispatch(c) \/ ReadRequest(c)
  PROVE  ServeInv'
<1>0. conns[c] \in Connections /\ (c \in caller.conn => OneRequestOf(c, conns[c]))
  BY Zenon DEF ServeInv, ServeTypeOK, CallRequest
<1>1. UNCHANGED <<peer, portVars, caller>>
  BY Zenon DEF Accept, CloseOnStop, VerifyPeer, ReadEnds, Dispatch, ReadRequest
<1>2. ASSUME NEW s \in {"verify", "read", "gone"}, NEW b \in BOOLEAN,
             conns[c].pc \in {"queued", "verify", "read", "dispatch"}, s = "verify" => conns[c].pc = "queued",
             c \in caller.conn => conns[c].pc # "dispatch",
             conns' = [conns EXCEPT ![c] = [conns[c] EXCEPT !.pc = s, !.fd = b]]
      PROVE  ServeInv'
  <2> DEFINE n == [conns[c] EXCEPT !.pc = s, !.fd = b]
  <2>1. n \in Connections /\ n.pc = s /\ n.frames = conns[c].frames
    BY <1>0, Zenon DEF Connections
  <2> HIDE DEF n
  <2>2. c \in caller.conn => OneRequestOf(c, n)
    BY <1>0, <1>2, <2>1, Zenon DEF OneRequestOf
  <2> QED
    BY <1>1, <1>2, <2>1, <2>2, ConnMoves, Zenon DEF n
<1>3. CASE Accept(c) \/ VerifyPeer(c) \/ ReadEnds(c) \/ Dispatch(c)
  <2>1. conns[c].fd \in BOOLEAN /\ \A s : [conns[c] EXCEPT !.pc = s] = [conns[c] EXCEPT !.pc = s, !.fd = conns[c].fd]
    BY <1>0, Zenon DEF Connections
  <2>2. CASE Accept(c)
    BY <1>2, <2>2, Zenon DEF Accept, ConnAt
  <2>3. CASE ConnGoto(c, "read") /\ (VerifyPeer(c) \/ Dispatch(c))
    <3>1. conns' = [conns EXCEPT ![c] = [conns[c] EXCEPT !.pc = "read", !.fd = conns[c].fd]]
      BY <2>1, <2>3, Zenon DEF ConnGoto
    <3> QED
      BY <1>2, <2>1, <2>3, <3>1, Zenon DEF VerifyPeer, Dispatch, ConnAt, CallersOwn
  <2>4. CASE End(c) /\ (VerifyPeer(c) \/ ReadEnds(c) \/ Dispatch(c))
    <3>1. conns' = [conns EXCEPT ![c] = [conns[c] EXCEPT !.pc = "gone", !.fd = FALSE]]
      BY <2>4, Zenon DEF End
    <3> QED
      BY <1>2, <2>4, <3>1, Zenon DEF VerifyPeer, ReadEnds, Dispatch, ConnAt, CallersOwn
  <2> QED
    BY <1>3, <2>2, <2>3, <2>4, Zenon DEF VerifyPeer, ReadEnds, Dispatch
<1>4. CASE CloseOnStop(c)
  <2> DEFINE n == [conns[c] EXCEPT !.fd = FALSE]
  <2>1. n \in Connections /\ n.pc = conns[c].pc /\ n.frames = conns[c].frames
    BY <1>0, Zenon DEF Connections
  <2>2. conns' = [conns EXCEPT ![c] = n]
    BY <1>4, Zenon DEF CloseOnStop
  <2> HIDE DEF n
  <2>3. c \in caller.conn => OneRequestOf(c, n)
    BY <1>0, <2>1, Zenon DEF OneRequestOf
  <2>4. n.pc \in {"send", "close"} => c \in caller.conn
    BY <2>1, Zenon DEF ServeInv, OneCall
  <2> QED
    BY <1>1, <2>1, <2>2, <2>3, <2>4, ConnMoves, Zenon
<1>5. CASE ReadRequest(c)
  <2> DEFINE n == [conns[c] EXCEPT !.pc = "dispatch", !.frames = @ - 1]
  <2>1. n \in Connections /\ n.pc = "dispatch" /\ n.frames = conns[c].frames - 1
    <3>1. conns[c].frames \in Nat /\ conns[c].frames > 0
      BY <1>0, <1>5, Zenon DEF Connections, ReadRequest
    <3>2. conns[c].frames - 1 \in Nat
      BY <3>1
    <3> QED
      BY <1>0, <3>2, Zenon DEF Connections
  <2>2. conns' = [conns EXCEPT ![c] = n] /\ conns[c].pc = "read" /\ conns[c].frames > 0
    BY <1>5, Zenon DEF ReadRequest, ConnAt
  <2> HIDE DEF n
  <2>3. c \in caller.conn => OneRequestOf(c, n)
    BY <1>0, <2>1, <2>2 DEF OneRequestOf
  <2> QED
    BY <1>1, <2>1, <2>2, <2>3, ConnMoves, Zenon
<1> QED
  BY <1>3, <1>4, <1>5, Zenon

\* The call's own connection moves, with what the call holds of the port.
LEMMA CallMovesOn ==
  ASSUME ServeInv, NEW c \in Conns, c \in caller.conn,
         NEW n \in Connections, conns' = [conns EXCEPT ![c] = n],
         NEW k \in CallRecords, caller' = k, k.conn = caller.conn, k.pc \notin {"idle", "dial"},
         peer' \in [Conns -> {"none", "live", "closed"}], \A d \in Conns : peer'[d] = "none" => peer[d] = "none",
         refs' \subseteq {c} \X Holders, flushed' \subseteq flushed \cup {c},
         OneRequestOf(c, n)', ~busy'
  PROVE  ServeInv'
<1>1. conns'[c] = n /\ \A d \in Conns \ {c} : conns'[d] = conns[d]
  BY Zenon DEF ServeInv, ServeTypeOK
<1>2. caller.conn = {c}
  BY Zenon DEF ServeInv, OneCall
<1>3. ServeTypeOK'
  BY <1>2, Zenon DEF ServeInv, ServeTypeOK, CallRecords
<1>4. peer[c] # "none"
  BY Zenon DEF ServeInv, Fresh
<1>5. Fresh'
  <2> SUFFICES ASSUME NEW d \in Conns, peer'[d] = "none"
               PROVE  conns'[d].pc = "none" /\ d \notin flushed' /\ d \notin caller'.conn
    BY Zenon DEF Fresh
  <2>1. d # c /\ peer[d] = "none"
    BY <1>4, Zenon
  <2>2. conns[d].pc = "none" /\ d \notin flushed /\ d \notin caller.conn
    BY <2>1, Zenon DEF ServeInv, Fresh
  <2> QED
    BY <1>1, <2>1, <2>2, Zenon
<1>6. OneCall'
  BY <1>1, Zenon DEF ServeInv, OneCall
<1>7. CallRequest'
  <2> SUFFICES ASSUME NEW d \in caller'.conn PROVE OneRequestOf(d, conns[d])'
    BY Zenon DEF CallRequest
  <2>1. d = c
    BY <1>2
  <2> QED
    BY <1>1, <2>1, Zenon
<1> QED
  BY <1>3, <1>5, <1>6, <1>7, Zenon DEF ServeInv, RetryPortFree

\* A request of the call is answered, and its socket passed and received, or given up.
LEMMA BindSteps ==
  ASSUME ServeInv, NEW c \in Conns, HandleBindPort(c) \/ WriteResponseWithFD(c) \/ CloseFile(c)
  PROVE  ServeInv'
<1>1. /\ c \in caller.conn /\ caller.conn = {c} /\ conns[c] \in Connections /\ OneRequestOf(c, conns[c])
      /\ caller \in CallRecords /\ caller.pc \notin {"idle", "dial"} /\ conns[c].pc \in {"dispatch", "send", "close"}
      /\ refs \subseteq {c} \X Holders /\ ~busy
  <2>1. conns[c].pc \in {"dispatch", "send", "close"} /\ c \in caller.conn
    BY Zenon
       DEF HandleBindPort, WriteResponseWithFD, CloseFile, ConnAt, CallersOwn, ServeInv,
           OneCall
  <2> QED
    BY <2>1, ZenonT(40)
       DEF ServeInv, ServeTypeOK, OneCall, CallRequest, CallRecords, RetryPortFree
<1>2. ASSUME NEW s \in {"read", "send", "close"}
      PROVE  /\ [conns[c] EXCEPT !.pc = s] \in Connections /\ [conns[c] EXCEPT !.pc = s].pc = s
             /\ [conns[c] EXCEPT !.pc = s].frames = conns[c].frames
  BY <1>1, Zenon DEF Connections
<1>3. peer \in [Conns -> {"none", "live", "closed"}] /\ flushed' = flushed
  BY Zenon DEF ServeInv, ServeTypeOK, HandleBindPort, WriteResponseWithFD, CloseFile
<1>4. CASE HandleBindPort(c)
  <2>1. conns[c].pc = "dispatch" /\ refs = {} /\ caller.pc \in {"wait", "failed"} /\ conns[c].frames = 0 /\ c \notin flushed
    BY <1>1, <1>4, Zenon DEF HandleBindPort, ConnAt, OneRequestOf
  <2>2. CASE refs' = {<<c, "daemon">>} /\ ConnGoto(c, "send") /\ UNCHANGED <<caller, busy, peer>>
    <3>2. PICK n \in Connections : conns' = [conns EXCEPT ![c] = n] /\ n.pc = "send" /\ n.frames = 0
      BY <1>2, <2>1, <2>2, Zenon DEF ConnGoto
    <3>3. OneRequestOf(c, n)'
      BY <1>3, <2>1, <2>2, <3>2, Zenon DEF OneRequestOf
    <3>4. refs' \subseteq {c} \X Holders
      BY <2>2 DEF Holders
    <3> QED
      BY <1>1, <1>3, <2>2, <3>2, <3>3, <3>4, CallMovesOn, Zenon
  <2>3. CASE /\ busy' = (busy \/ ~BindFree)
             /\ caller' = [caller EXCEPT !.pc = IF @ = "wait" THEN "failed" ELSE @]
             /\ peer' = [peer EXCEPT ![c] = "closed"] /\ ConnGoto(c, "read") /\ UNCHANGED refs
    <3> DEFINE k == [caller EXCEPT !.pc = IF @ = "wait" THEN "failed" ELSE @]
    <3>2. PICK n \in Connections : conns' = [conns EXCEPT ![c] = n] /\ n.pc = "read" /\ n.frames = 0
      BY <1>2, <2>1, <2>3, Zenon DEF ConnGoto
    <3>3. k \in CallRecords /\ k.conn = caller.conn /\ k.pc = "failed"
      BY <1>1, <2>1, Zenon DEF CallRecords
    <3> HIDE DEF k
    <3>4. caller' = k /\ ~busy'
      BY <1>1, <2>1, <2>3, Zenon DEF BindFree, k
    <3>5. OneRequestOf(c, n)'
      BY <1>3, <2>1, <2>3, <3>2, <3>3, <3>4, Zenon DEF OneRequestOf
    <3>6. peer' \in [Conns -> {"none", "live", "closed"}] /\ \A d \in Conns : peer'[d] = "none" => peer[d] = "none"
      BY <1>3, <2>3, Zenon
    <3> QED
      BY <1>1, <1>3, <2>1, <2>3, <3>2, <3>3, <3>4, <3>5, <3>6, CallMovesOn, Zenon
  <2> QED
    BY <1>4, <2>2, <2>3, Zenon DEF HandleBindPort
<1>5. CASE WriteResponseWithFD(c)
  <2>1. conns[c].pc = "send" /\ UNCHANGED <<peer, caller, busy>>
    BY <1>5, Zenon DEF WriteResponseWithFD, ConnAt
  <2>2. PICK n \in Connections : conns' = [conns EXCEPT ![c] = n] /\ n.pc = "close" /\ n.frames = conns[c].frames
    BY <1>2, <1>5, Zenon DEF WriteResponseWithFD, ConnGoto
  <2>3. refs \subseteq refs' /\ refs' \subseteq refs \cup {<<c, "flight">>}
    BY <1>5, Zenon DEF WriteResponseWithFD
  <2>4. refs' \subseteq {c} \X Holders
    BY <1>1, <2>3 DEF Holders
  <2>5. OneRequestOf(c, n)'
    BY <1>1, <1>3, <2>1, <2>2, <2>3, Zenon DEF OneRequestOf
  <2> QED
    BY <1>1, <1>3, <2>1, <2>2, <2>4, <2>5, CallMovesOn, Zenon
<1>6. CASE CloseFile(c)
  <2>1. /\ conns[c].pc = "close" /\ UNCHANGED <<peer, caller, busy>>
        /\ refs' = refs \ {<<c, "daemon">>}
    BY <1>6, Zenon DEF CloseFile, ConnAt
  <2>2. PICK n \in Connections : conns' = [conns EXCEPT ![c] = n] /\ n.pc = "read" /\ n.frames = conns[c].frames
    BY <1>2, <1>6, Zenon DEF CloseFile, ConnGoto
  <2>3. refs' \subseteq {c} \X Holders
    BY <1>1, <2>1, Zenon
  <2>4. OneRequestOf(c, n)'
    BY <1>1, <1>3, <2>1, <2>2, Zenon DEF OneRequestOf
  <2> QED
    BY <1>1, <1>3, <2>1, <2>2, <2>3, <2>4, CallMovesOn, Zenon
<1> QED
  BY <1>4, <1>5, <1>6, Zenon

LEMMA CallSteps ==
  ASSUME ServeInv, NEW c \in Conns, Flush(c) \/ Receive(c) \/ GiveUp(c) \/ InspectSocket(c)
  PROVE  ServeInv'
<1>1. /\ c \in caller.conn /\ caller.conn = {c} /\ conns[c] \in Connections /\ OneRequestOf(c, conns[c])
      /\ caller \in CallRecords /\ caller.pc \notin {"idle", "dial"} /\ caller.attempt \in Nat
      /\ refs \subseteq {c} \X Holders /\ ~busy
      /\ peer \in [Conns -> {"none", "live", "closed"}] /\ conns \in [Conns -> Connections] /\ flushed \subseteq Conns
  <2>1. c \in caller.conn
    BY Zenon DEF Flush, Receive, GiveUp, InspectSocket, CallersOwn, ServeInv, ServeTypeOK
  <2>2. caller \in CallRecords
    BY Zenon DEF ServeInv, ServeTypeOK, CallRecords
  <2>3. caller.attempt \in Nat
    BY <2>2, Zenon DEF CallRecords
  <2> QED
    BY <2>1, <2>2, <2>3, Zenon DEF ServeInv, ServeTypeOK, OneCall, CallRequest, RetryPortFree
<1>2. conns' = conns /\ busy' = busy
  BY Zenon DEF Flush, Receive, GiveUp, InspectSocket
<1>3. PICK n \in Connections : n = conns[c]
  BY <1>1, Zenon
<1>4. conns' = [conns EXCEPT ![c] = n] /\ OneRequestOf(c, n)
  BY <1>1, <1>2, <1>3, Zenon
<1>5. [peer EXCEPT ![c] = "closed"] \in [Conns -> {"none", "live", "closed"}]
      /\ \A d \in Conns : [peer EXCEPT ![c] = "closed"][d] = "none" => peer[d] = "none"
  BY <1>1, Zenon
<1>6. ASSUME NEW p \in {"inspect", "held", "failed"}
      PROVE  [caller EXCEPT !.pc = p] \in CallRecords /\ [caller EXCEPT !.pc = p].pc = p
             /\ [caller EXCEPT !.pc = p].conn = caller.conn
  BY <1>1, Zenon DEF CallRecords
<1>7. CASE Flush(c)
  <2>1. <<c, "flight">> \in refs /\ <<c, "daemon">> \notin refs /\ flushed' = flushed \cup {c} /\ UNCHANGED <<peer, refs, caller>>
    BY <1>7, Zenon DEF Flush
  <2>2. n.pc \in {"read", "gone"}
    BY <1>4, <2>1, Zenon DEF OneRequestOf
  <2>3. OneRequestOf(c, n)'
    BY <1>4, <2>1, <2>2, Zenon DEF OneRequestOf
  <2> QED
    BY <1>1, <1>2, <1>4, <2>1, <2>3, CallMovesOn, Zenon
<1>8. CASE Receive(c)
  <2>1. /\ caller.pc = "wait" /\ <<c, "flight">> \in refs /\ flushed' = flushed
        /\ refs' = (refs \ {<<c, "flight">>}) \cup {<<c, "client">>} /\ peer' = [peer EXCEPT ![c] = "closed"]
    BY <1>8, Zenon DEF Receive
  <2>2. PICK k \in CallRecords : caller' = k /\ k.pc = "inspect" /\ k.conn = caller.conn
    BY <1>6, <1>8, Zenon DEF Receive
  <2>3. refs' \subseteq {c} \X Holders
    BY <1>1, <2>1, SMTT(20) DEF Holders
  <2>4. OneRequestOf(c, n)'
    BY <1>4, <2>1, <2>2 DEF OneRequestOf
  <2> QED
    BY <1>1, <1>2, <1>4, <1>5, <2>1, <2>2, <2>3, <2>4, CallMovesOn, Zenon
<1>9. CASE GiveUp(c)
  <2>1. /\ caller.pc = "wait" /\ flushed' = flushed
        /\ refs' = refs \ {<<c, "flight">>} /\ peer' = [peer EXCEPT ![c] = "closed"]
    BY <1>9, Zenon DEF GiveUp
  <2>2. PICK k \in CallRecords : caller' = k /\ k.pc = "failed" /\ k.conn = caller.conn
    BY <1>6, <1>9, Zenon DEF GiveUp
  <2>3. refs' \subseteq {c} \X Holders
    BY <1>1, <2>1, Zenon
  <2>4. OneRequestOf(c, n)'
    BY <1>4, <2>1, <2>2, Zenon DEF OneRequestOf
  <2> QED
    BY <1>1, <1>2, <1>4, <1>5, <2>1, <2>2, <2>3, <2>4, CallMovesOn, Zenon
<1>10. CASE InspectSocket(c) /\ caller'.pc # "dial"
  <2>1. /\ caller.pc = "inspect" /\ UNCHANGED <<flushed, peer>>
        /\ refs' \subseteq refs /\ (<<c, "daemon">> \in refs => <<c, "daemon">> \in refs')
    BY <1>10, Zenon DEF InspectSocket
  <2>2. \A a \in Nat : [caller EXCEPT !.pc = "dial", !.attempt = a, !.conn = {}].pc = "dial"
    BY <1>1, Zenon DEF CallRecords
  <2>3. PICK k \in CallRecords : caller' = k /\ k.pc \in {"held", "failed"} /\ k.conn = caller.conn
    BY <1>1, <1>6, <1>10, <2>2, ZenonT(40) DEF InspectSocket
  <2>4. OneRequestOf(c, n)'
    BY <1>4, <2>1, <2>3, Zenon DEF OneRequestOf
  <2> QED
    BY <1>1, <1>2, <1>4, <2>1, <2>3, <2>4, CallMovesOn, Zenon
<1>11. CASE InspectSocket(c) /\ caller'.pc = "dial"
  <2>1. /\ caller.pc = "inspect" /\ c \in flushed /\ UNCHANGED <<flushed, peer>> /\ refs' = refs \ {<<c, "client">>}
        /\ caller' = [caller EXCEPT !.pc = "dial", !.attempt = @ + 1, !.conn = {}]
    BY <1>6, <1>11, Zenon DEF InspectSocket
  <2>2. caller.attempt + 1 \in Nat
    BY <1>1
  <2>3. caller' \in CallRecords /\ caller'.pc = "dial" /\ caller'.conn = {}
    BY <1>1, <2>1, <2>2, Zenon DEF CallRecords
  <2>4. conns[c].pc \in {"read", "gone"} /\ <<c, "daemon">> \notin refs /\ <<c, "flight">> \notin refs
    BY <1>1, <2>1, Zenon DEF OneRequestOf
  <2>5. refs' = {}
    BY <1>1, <2>1, <2>4 DEF Holders
  <2>6. ServeTypeOK'
    BY <1>1, <1>2, <2>1, <2>3, <2>5, Zenon DEF ServeTypeOK, CallRecords
  <2>7. (Fresh /\ OneCall)'
    BY <1>1, <1>2, <2>1, <2>3, <2>4, Zenon DEF ServeInv, Fresh, OneCall
  <2> QED
    BY <1>1, <1>2, <2>3, <2>6, <2>7, Zenon DEF ServeInv, CallRequest, RetryPortFree
<1> QED
  BY <1>7, <1>8, <1>9, <1>10, <1>11, Zenon

\* The call's first dial and a peer's, and the steps that leave the call alone.
LEMMA PeerSteps ==
  ASSUME ServeInv, NEW c \in Conns, Dial(c) \/ PeerLeaves(c) PROVE ServeInv'
<1>1. /\ peer \in [Conns -> {"none", "live", "closed"}] /\ conns \in [Conns -> Connections]
      /\ caller \in CallRecords /\ flushed \subseteq Conns /\ ~busy /\ UNCHANGED <<refs, flushed, busy>>
  BY Zenon DEF ServeInv, ServeTypeOK, CallRecords, RetryPortFree, Dial, PeerLeaves, portVars
<1>2. CASE PeerLeaves(c)
  <2>1. peer' = [peer EXCEPT ![c] = "closed"] /\ peer[c] = "live" /\ UNCHANGED <<conns, caller>>
    BY <1>2, Zenon DEF PeerLeaves
  <2>2. ServeTypeOK'
    BY <1>1, <2>1, Zenon DEF ServeInv, ServeTypeOK
  <2>3. Fresh'
    BY <1>1, <2>1, Zenon DEF ServeInv, Fresh
  <2> QED
    BY <1>1, <2>1, <2>2, <2>3, ZenonT(40)
       DEF ServeInv, OneCall, CallRequest, OneRequestOf, RetryPortFree
<1>3. CASE Dial(c)
  <2>1. /\ peer' = [peer EXCEPT ![c] = "live"] /\ peer[c] = "none" /\ conns[c].pc = "none"
        /\ c \notin flushed /\ c \notin caller.conn
    BY <1>3, Zenon DEF Dial, ServeInv, Fresh
  <2>2. PICK mine \in BOOLEAN :
          /\ mine => caller.pc = "dial"
          /\ caller' = IF mine THEN [caller EXCEPT !.pc = "wait", !.conn = {c}] ELSE caller
          /\ conns' = [conns EXCEPT ![c] = [pc |-> "queued", fd |-> FALSE, frames |-> IF mine THEN 1 ELSE MaxFrames]]
    BY <1>3, Zenon DEF Dial
  <2>3. conns' \in [Conns -> Connections] /\ conns'[c].pc = "queued" /\ (mine => conns'[c].frames = 1)
        /\ \A d \in Conns \ {c} : conns'[d] = conns[d]
    BY <1>1, <2>2, ServeAssumption, Zenon DEF Connections
  <2>4. peer' \in [Conns -> {"none", "live", "closed"}] /\ peer'[c] = "live" /\ \A d \in Conns \ {c} : peer'[d] = peer[d]
    BY <1>1, <2>1, Zenon
  <2>5. CASE mine
    <3>1. caller' \in CallRecords /\ caller'.pc = "wait" /\ caller'.conn = {c}
      BY <1>1, <2>2, <2>5, ZenonT(40) DEF CallRecords
    <3>2. caller.conn = {} /\ refs = {}
      BY <2>2, <2>5, Zenon DEF ServeInv, OneCall, ServeTypeOK
    <3>3. ServeTypeOK'
      BY <1>1, <2>3, <2>4, <3>1, <3>2, Zenon DEF ServeTypeOK, CallRecords
    <3>4. (Fresh /\ OneCall)'
      BY <1>1, <2>3, <2>4, <3>1, <3>2 DEF ServeInv, Fresh, OneCall
    <3>5. CallRequest'
      BY <1>1, <2>1, <2>3, <2>5, <3>1, <3>2, Zenon DEF CallRequest, OneRequestOf
    <3> QED
      BY <1>1, <3>3, <3>4, <3>5, Zenon DEF ServeInv, RetryPortFree
  <2>6. CASE ~mine
    <3>1. caller' = caller
      BY <2>2, <2>6, Zenon
    <3>2. ServeTypeOK'
      BY <1>1, <2>3, <2>4, <3>1, Zenon DEF ServeInv, ServeTypeOK
    <3>3. (Fresh /\ OneCall)'
      BY <1>1, <2>1, <2>3, <2>4, <3>1 DEF ServeInv, Fresh, OneCall
    <3>4. CallRequest'
      <4> SUFFICES ASSUME NEW d \in caller.conn PROVE OneRequestOf(d, conns[d])'
        BY <3>1, Zenon DEF CallRequest
      <4>1. conns'[d] = conns[d] /\ OneRequestOf(d, conns[d])
        BY <2>1, <2>3, Zenon DEF ServeInv, ServeTypeOK, CallRecords, CallRequest
      <4> QED
        BY <1>1, <3>1, <4>1, Zenon DEF OneRequestOf
    <3> QED
      BY <1>1, <3>2, <3>3, <3>4 DEF ServeInv, RetryPortFree
  <2> QED
    BY <2>5, <2>6, Zenon
<1> QED
  BY <1>2, <1>3, Zenon

LEMMA LoopSteps ==
  ASSUME ServeInv, \/ UNCHANGED serveVars \/ Loop \/ AcceptFails \/ Watchdog \/ BindPort
                   \/ SocketReplaced \/ CancelContext
  PROVE  ServeInv'
<1>1. CASE UNCHANGED <<peer, conns, portVars, caller>>
  <2>1. UNCHANGED <<peer, conns, refs, flushed, busy, caller>>
    BY <1>1, Zenon DEF portVars
  <2> QED
    BY <2>1 DEF ServeInv, ServeTypeOK, Fresh, OneCall, CallRequest, OneRequestOf, RetryPortFree
<1>2. CASE AcceptFails
  <2>1. UNCHANGED <<peer, refs, flushed, busy, caller>>
    BY <1>2, Zenon DEF AcceptFails, portVars
  <2>2. conns \in [Conns -> Connections]
    BY Zenon DEF ServeInv, ServeTypeOK
  <2>3. ASSUME NEW d \in Conns
        PROVE  /\ conns'[d] \in Connections /\ conns'[d].frames = conns[d].frames
               /\ conns'[d].pc = IF conns[d].pc = "queued" THEN "gone" ELSE conns[d].pc
    <3>1. conns'[d] = IF conns[d].pc = "queued" THEN [conns[d] EXCEPT !.pc = "gone"] ELSE conns[d]
      BY <1>2, Zenon DEF AcceptFails, ConnAt
    <3>2. conns[d] \in Connections
      BY <2>2, Zenon
    <3> QED
      BY <3>1, <3>2, Zenon DEF Connections
  <2>4. ServeTypeOK'
    <3>1. conns' = [d \in Conns |-> conns'[d]]
      BY <1>2, Zenon DEF AcceptFails
    <3>2. conns' \in [Conns -> Connections]
      BY <2>3, <3>1, Zenon
    <3> QED
      BY <2>1, <3>2, Zenon DEF ServeInv, ServeTypeOK
  <2>5. (Fresh /\ OneCall)'
    BY <2>1, <2>3, Zenon DEF ServeInv, Fresh, OneCall
  <2>6. CallRequest'
    <3> SUFFICES ASSUME NEW d \in caller.conn PROVE OneRequestOf(d, conns[d])'
      BY <2>1, Zenon DEF CallRequest
    <3>1. d \in Conns /\ OneRequestOf(d, conns[d])
      BY Zenon DEF ServeInv, ServeTypeOK, CallRecords, CallRequest
    <3> QED
      BY <2>1, <2>3, <3>1, Zenon DEF OneRequestOf
  <2> QED
    BY <2>1, <2>4, <2>5, <2>6, Zenon DEF ServeInv, RetryPortFree
<1>3. CASE BindPort
  <2>1. UNCHANGED <<peer, conns, refs, flushed, busy>> /\ caller.pc \in {"idle", "dial"}
    BY <1>3, Zenon DEF BindPort, portVars
  <2>2. caller \in CallRecords /\ caller.conn = {} /\ refs = {}
    BY <2>1, Zenon DEF ServeInv, ServeTypeOK, CallRecords, OneCall
  <2>3. caller' \in CallRecords /\ caller'.conn = {}
    <3>1. CASE caller' = [caller EXCEPT !.pc = "dial", !.attempt = 1]
      BY <2>2, <3>1, Zenon DEF CallRecords
    <3>2. CASE caller' = [caller EXCEPT !.pc = "failed"]
      BY <2>2, <3>2, Zenon DEF CallRecords
    <3> QED
      BY <1>3, <3>1, <3>2, Zenon DEF BindPort
  <2>4. ServeTypeOK'
    BY <2>1, <2>2, <2>3, Zenon DEF ServeInv, ServeTypeOK, CallRecords
  <2> QED
    BY <2>1, <2>2, <2>3, <2>4, Zenon DEF ServeInv, Fresh, OneCall, CallRequest, RetryPortFree
<1>4. CASE UNCHANGED serveVars
  BY <1>1, <1>4, Zenon DEF serveVars, portVars
<1>5. CASE Drained \/ CloseOnCancel \/ Watchdog \/ SocketReplaced \/ CancelContext
  BY <1>1, <1>5, Zenon
     DEF Drained, CloseOnCancel, Watchdog, CheckSocketPath, ReportLost, SocketReplaced,
         CancelContext
<1> QED
  BY <1>2, <1>3, <1>4, <1>5, ZenonT(40) DEF Loop

LEMMA ServePreserved == ServeInv /\ [ServeNext]_serveVars => ServeInv'
BY HandleSteps, BindSteps, CallSteps, PeerSteps, LoopSteps, Zenon DEF ServeNext, Handle, Call

\* No bind of a BindPort call finds the socket of an earlier attempt open (roundTripSocket,
\* handleBindPort), however the kernel flushes what is in flight and whatever other peers
\* do, for any number of connections and attempts.
THEOREM RetriesFindPortFree == ServeSpec => []RetryPortFree
<1>1. ServeInv => RetryPortFree
  BY Zenon DEF ServeInv
<1> QED
  BY <1>1, ServeInitial, ServePreserved, PTL DEF ServeSpec

=============================================================================
