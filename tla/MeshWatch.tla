----------------------------- MODULE MeshWatch -----------------------------
(***************************************************************************)
(* The MeshPeer watcher and its status writer (pkg/mesh/watch.go), and the *)
(* Mesh whose Reconcile it drives (mesh.go).                               *)
(*                                                                         *)
(* Several nodes of an HA control plane each run one, over one MeshPeer.   *)
(* An informer's store follows the apiserver with a delay; a handler runs  *)
(* after the store has changed. The reconcile loop and the status writer   *)
(* are two goroutines with a one-slot trigger each. A spec of 0 is a       *)
(* MeshPeer that does not exist, and a time of 0 is no handshake.          *)
(***************************************************************************)
EXTENDS Naturals

CONSTANTS
  Watchers,
  MaxSpec,       \* the specs a MeshPeer is given, 1 .. MaxSpec
  MaxTime,       \* the handshake times, in whole seconds
  MaxPeerWrites, \* bounds the writes of the MeshPeer's spec
  MaxWatchFaults \* bounds the failed passes, reads and patches, lost devices and cancelled watchers

VARIABLES
  meshPeer,    \* the MeshPeer at the apiserver: its spec and status.lastHandshakeTime
  peerCache,   \* each informer's store
  notified,    \* whether each informer has a notification not yet handled
  kick, statusKick,
  loop,        \* each reconcileLoop: "sync", "select", "apply", "waiting", "returned"
  snapshot,    \* the spec its resync read
  statusLoop,  \* each status writer: "off", "select", "patch" or "exited"
  patch,       \* the time it is about to write
  programmed,  \* the spec each node's device carries
  handshake,   \* the last handshake each device reports
  now,         \* the time of the last handshake anywhere
  done,        \* whether each watcher's ctx is cancelled
  peerWrites, watchFaults

loopVars == <<loop, snapshot>>
statusVars == <<statusLoop, patch>>
nodeVars == <<programmed, handshake, now>>
apiVars == <<meshPeer, peerWrites>>
meshWatchVars == <<apiVars, peerCache, notified, kick, statusKick, loopVars, statusVars,
                   nodeVars, done, watchFaults>>

\* A watcher may be cancelled before it starts, and the MeshPeer may exist; the budgets
\* of a behaviour are chosen here.
MeshWatchInit ==
  /\ meshPeer \in {[spec |-> s, status |-> 0] : s \in 0..MaxSpec} /\ peerCache = [w \in Watchers |-> [spec |-> 0, status |-> 0]]
  /\ notified = [w \in Watchers |-> FALSE]
  /\ kick = [w \in Watchers |-> FALSE] /\ statusKick = [w \in Watchers |-> FALSE]
  /\ loop = [w \in Watchers |-> "sync"] /\ snapshot = [w \in Watchers |-> 0]
  /\ statusLoop = [w \in Watchers |-> "off"] /\ patch = [w \in Watchers |-> 0]
  /\ programmed = [w \in Watchers |-> 0] /\ handshake = [w \in Watchers |-> 0]
  /\ done \in [Watchers -> BOOLEAN]
  /\ peerWrites \in 0..MaxPeerWrites /\ watchFaults \in 0..MaxWatchFaults /\ now \in 0..MaxTime

Fault == watchFaults < MaxWatchFaults /\ watchFaults' = watchFaults + 1
\* A call fails by itself, or because its ctx was cancelled.
CallFails(w) == Fault \/ (done[w] /\ UNCHANGED watchFaults)

-----------------------------------------------------------------------------
(* The apiserver, the informer and the device. *)

\* The MeshPeer is created, changed or deleted; a deleted one loses its status.
WritePeer(s) ==
  /\ peerWrites < MaxPeerWrites /\ s # meshPeer.spec
  /\ meshPeer' = [spec |-> s, status |-> IF s = 0 THEN 0 ELSE meshPeer.status]
  /\ peerWrites' = peerWrites + 1
  /\ UNCHANGED <<peerCache, notified, kick, statusKick, loopVars, statusVars, nodeVars, done,
                 watchFaults>>

\* The informer catches up, by a watch event or a relist. Its notification is
\* queued once the store has changed; what is delivered again unchanged has none.
Deliver(w) ==
  /\ ~done[w] /\ loop[w] # "sync" /\ peerCache[w] # meshPeer
  /\ peerCache' = [peerCache EXCEPT ![w] = meshPeer]
  /\ notified' = [notified EXCEPT ![w] = TRUE]
  /\ UNCHANGED <<apiVars, kick, statusKick, loopVars, statusVars, nodeVars, done, watchFaults>>

\* handler and trigger: a full slot already owes a pass.
Handle(w) ==
  /\ ~done[w] /\ notified[w]
  /\ notified' = [notified EXCEPT ![w] = FALSE]
  /\ kick' = [kick EXCEPT ![w] = TRUE]
  /\ UNCHANGED <<apiVars, peerCache, statusKick, loopVars, statusVars, nodeVars, done, watchFaults>>

\* The peer shakes hands with the node's device.
Handshake(w) ==
  /\ programmed[w] # 0 /\ now < MaxTime
  /\ now' = now + 1 /\ handshake' = [handshake EXCEPT ![w] = now + 1]
  /\ UNCHANGED <<apiVars, peerCache, notified, kick, statusKick, loopVars, statusVars,
                 programmed, done, watchFaults>>

\* netd restarts: the device and what it was told are gone.
DeviceLost(w) ==
  /\ programmed[w] # 0 /\ Fault
  /\ programmed' = [programmed EXCEPT ![w] = 0]
  /\ handshake' = [handshake EXCEPT ![w] = 0]
  /\ UNCHANGED <<apiVars, peerCache, notified, kick, statusKick, loopVars, statusVars, now, done>>

Cancel(w) ==
  /\ ~done[w] /\ Fault /\ done' = [done EXCEPT ![w] = TRUE]
  /\ UNCHANGED <<apiVars, peerCache, notified, kick, statusKick, loopVars, statusVars, nodeVars>>

-----------------------------------------------------------------------------
(* Run and reconcileLoop. *)

\* Run: the first list is in the store, and the loop starts its status writer. The
\* adds it delivers may be handled before or after.
Synced(w) ==
  /\ loop[w] = "sync" /\ ~done[w]
  /\ peerCache' = [peerCache EXCEPT ![w] = meshPeer]
  /\ notified' = [notified EXCEPT ![w] = meshPeer.spec # 0]
  /\ loop' = [loop EXCEPT ![w] = "select"]
  /\ statusLoop' = [statusLoop EXCEPT ![w] = "select"]
  /\ UNCHANGED <<apiVars, kick, statusKick, snapshot, patch, nodeVars, done, watchFaults>>

\* A tick arms the same trigger.
Tick(w) ==
  /\ loop[w] = "select" /\ ~kick[w]
  /\ kick' = [kick EXCEPT ![w] = TRUE]
  /\ UNCHANGED <<apiVars, peerCache, notified, statusKick, loopVars, statusVars, nodeVars, done,
                 watchFaults>>

\* The trigger is drained, and resync lists the store.
Resync(w) ==
  /\ loop[w] = "select" /\ kick[w]
  /\ kick' = [kick EXCEPT ![w] = FALSE]
  /\ snapshot' = [snapshot EXCEPT ![w] = peerCache[w].spec]
  /\ loop' = [loop EXCEPT ![w] = "apply"]
  /\ UNCHANGED <<apiVars, peerCache, notified, statusKick, statusVars, nodeVars, done, watchFaults>>

\* Mesh.Reconcile has programmed the plan, and triggerStatus arms the status writer.
Reconciled(w) ==
  /\ loop[w] = "apply"
  /\ programmed' = [programmed EXCEPT ![w] = snapshot[w]]
  /\ handshake' = [handshake EXCEPT ![w] = IF snapshot[w] = 0 THEN 0 ELSE @]
  /\ statusKick' = [statusKick EXCEPT ![w] = TRUE]
  /\ loop' = [loop EXCEPT ![w] = "select"]
  /\ UNCHANGED <<apiVars, peerCache, notified, kick, snapshot, statusVars, now, done, watchFaults>>

\* A failed pass is logged; it neither re-arms the trigger nor the status writer.
ReconcileFails(w) ==
  /\ loop[w] = "apply" /\ CallFails(w)
  /\ loop' = [loop EXCEPT ![w] = "select"]
  /\ UNCHANGED <<apiVars, peerCache, notified, kick, statusKick, snapshot, statusVars,
                 programmed, handshake, now, done>>

\* The loop sees that ctx is cancelled; one that never synced has no status writer.
LoopStops(w) ==
  /\ done[w]
  /\ \/ loop[w] = "select" /\ loop' = [loop EXCEPT ![w] = "waiting"]
     \/ loop[w] = "sync" /\ loop' = [loop EXCEPT ![w] = "returned"]
  /\ UNCHANGED <<apiVars, peerCache, notified, kick, statusKick, snapshot, statusVars, nodeVars,
                 done, watchFaults>>

\* reconcileLoop returns once its status writer has exited.
LoopReturns(w) ==
  /\ loop[w] = "waiting" /\ statusLoop[w] = "exited"
  /\ loop' = [loop EXCEPT ![w] = "returned"]
  /\ UNCHANGED <<apiVars, peerCache, notified, kick, statusKick, snapshot, statusVars, nodeVars,
                 done, watchFaults>>

-----------------------------------------------------------------------------
(* statusLoop and writeHandshakeStatus. *)

\* Mutant of Newer: any time other than the recorded one is written.
NewerOther(t, cached) == t # cached

\* Only a newer time is written.
Newer(t, cached) == t > cached

\* A status pass reads the device and compares with the store; what it has to write
\* it writes next.
StatusPass(w) ==
  /\ statusLoop[w] = "select" /\ statusKick[w]
  /\ statusKick' = [statusKick EXCEPT ![w] = FALSE]
  /\ IF handshake[w] # 0 /\ peerCache[w].spec # 0 /\ Newer(handshake[w], peerCache[w].status)
     THEN /\ statusLoop' = [statusLoop EXCEPT ![w] = "patch"]
          /\ patch' = [patch EXCEPT ![w] = handshake[w]]
     ELSE UNCHANGED statusVars
  /\ UNCHANGED <<apiVars, peerCache, notified, kick, loopVars, nodeVars, done, watchFaults>>

\* The device's handshakes cannot be read: the pass writes nothing.
StatusReadFails(w) ==
  /\ statusLoop[w] = "select" /\ statusKick[w] /\ Fault
  /\ statusKick' = [statusKick EXCEPT ![w] = FALSE]
  /\ UNCHANGED <<apiVars, peerCache, notified, kick, loopVars, statusVars, nodeVars, done>>

\* patchOneStatus: the merge patch replaces whatever time the apiserver holds; it
\* fails for a MeshPeer that is gone, and at its timeout.
PatchStatus(w) ==
  /\ statusLoop[w] = "patch"
  /\ statusLoop' = [statusLoop EXCEPT ![w] = "select"]
  /\ patch' = [patch EXCEPT ![w] = 0]
  /\ \/ /\ meshPeer' = [meshPeer EXCEPT !.status = IF meshPeer.spec = 0 THEN 0 ELSE patch[w]]
        /\ UNCHANGED watchFaults
     \/ CallFails(w) /\ UNCHANGED meshPeer
  /\ UNCHANGED <<peerWrites, peerCache, notified, kick, statusKick, loopVars, nodeVars, done>>

StatusExits(w) ==
  /\ statusLoop[w] = "select" /\ done[w]
  /\ statusLoop' = [statusLoop EXCEPT ![w] = "exited"]
  /\ UNCHANGED <<apiVars, peerCache, notified, kick, statusKick, loopVars, patch, nodeVars, done,
                 watchFaults>>

-----------------------------------------------------------------------------
Informer(w) == Deliver(w) \/ Handle(w)
ReconcileLoop(w) ==
  \/ Synced(w) \/ Tick(w) \/ Resync(w) \/ Reconciled(w) \/ ReconcileFails(w)
  \/ LoopStops(w) \/ LoopReturns(w)
StatusLoop(w) == StatusPass(w) \/ StatusReadFails(w) \/ PatchStatus(w) \/ StatusExits(w)

MeshWatchNext ==
  \/ \E s \in 0..MaxSpec : WritePeer(s)
  \/ \E w \in Watchers :
       \/ Informer(w) \/ ReconcileLoop(w) \/ StatusLoop(w)
       \/ Handshake(w) \/ DeviceLost(w) \/ Cancel(w)

-----------------------------------------------------------------------------
(* Every watcher that goes on running converges: its device carries the MeshPeer's spec,
   after failed passes and a restarted netd too, and two status writers with stale stores
   settle on a time no older than either device's last handshake instead of overwriting each
   other for ever (resync, writeHandshakeStatus). *)
WatchersConverge ==
  \A w \in Watchers :
    <>[](~done[w] => /\ programmed[w] = meshPeer.spec
                     /\ meshPeer.spec # 0 => meshPeer.status >= handshake[w])
=============================================================================
