------------------------------- MODULE MCMesh -------------------------------
(***************************************************************************)
(* The WireGuard device, with this node's own MeshPeer and up to two       *)
(* others, and the MeshPeer watchers of an HA control plane: a behaviour   *)
(* is one of either.                                                       *)
(***************************************************************************)
EXTENDS MeshDevice, MeshWatch, TLC

CONSTANTS self, n1, n2, ks, ka, kb, kc, cs, c1, c2, e1, e2, Second

VARIABLE part

PeerSpec(k, c, u) == [key |-> k, cidr |-> c, endpoint |-> e1, underlay |-> u, valid |-> TRUE]

First == PeerSpec(ka, c1, NoEndpoint)
SomeSpecs ==
  self :> {PeerSpec(ks, cs, NoEndpoint)}
    @@ n1 :> {First, PeerSpec(ka, c1, e2), PeerSpec(kb, c1, e2)} @@ n2 :> {PeerSpec(kc, c2, NoEndpoint)}

\* Either n1 is the only peer, and moves and rotates its key; or it stays as it is, and n2
\* and the node's own MeshPeer come and go beside it: nobody roams then, and only n2's
\* prefix is taken by another interface.
PeerScope ==
  CASE part = "moving" -> peers'[n2] = NoSpec /\ peers'[self] = NoSpec
    [] part = "coming" -> /\ peers'[n1] \in {NoSpec, First} /\ kernel'[c1] # "other"
                           /\ \A k \in Keys : wg'[k].endpoint # e2

(* One MeshPeer watcher runs, with every fault; or two do, over a peer that stays. *)
MeshScope ==
  /\ \A w \in Watchers \ {Second} : ~done[w]
  /\ \/ done[Second] /\ watchFaults = 0 /\ peerWrites = 0 /\ meshPeer.spec = 0 /\ now + 1 = MaxTime
     \/ ~done[Second] /\ watchFaults = MaxWatchFaults /\ peerWrites = MaxPeerWrites /\ meshPeer.spec = 1 /\ now = 0

\* While the device runs, the watchers are cancelled before they start.
MeshIdle ==
  peerWrites = 0 /\ watchFaults = 0 /\ meshPeer.spec = 0 /\ now = 0 /\ \A w \in Watchers : done[w]

MeshInit ==
  /\ Init /\ MeshWatchInit
  /\ \/ part \in {"moving", "coming"} /\ MeshIdle
     \/ part = "watch" /\ MeshScope
MeshNext ==
  /\ part' = part
  /\ \/ part # "watch" /\ Next /\ PeerScope /\ UNCHANGED meshWatchVars
     \/ part = "watch" /\ MeshWatchNext /\ UNCHANGED vars

(* The periodic resync applies the store again and again, and its commands do not fail for
   ever; the watchers' goroutines and informers do not stop by themselves. *)
MeshFairness ==
  /\ SF_vars(part # "watch" /\ UpOK)
  /\ SF_vars(part # "watch" /\ ApplyPeers)
  /\ SF_vars(part # "watch" /\ op.step = "routes" /\ Requests(routes \ op.want, op.want \ routes))
  /\ SF_vars(part # "watch" /\ ReadBack)
  /\ \A w \in Watchers :
       /\ WF_meshWatchVars(part = "watch" /\ Informer(w))
       /\ WF_meshWatchVars(part = "watch" /\ ReconcileLoop(w))
       /\ WF_meshWatchVars(part = "watch" /\ StatusLoop(w))

(* Once the MeshPeers and the kernel are left alone and WireGuard takes its updates, the
   resyncs bring the device to the plan and keep it there, however many route requests and
   read-backs fail (Converges, of the device's behaviours). *)
DeviceConverges == part # "watch" => Converges

MeshSpec == MeshInit /\ [][MeshNext]_<<vars, meshWatchVars, part>> /\ MeshFairness
=============================================================================
