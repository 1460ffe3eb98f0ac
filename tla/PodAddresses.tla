---------------------------- MODULE PodAddresses ----------------------------
(***************************************************************************)
(* What the pod network promises the pods that run: a running pod keeps    *)
(* the one address it started with until it stops, and no two running pods *)
(* have the same one. The daemon and its crashes do not appear here.       *)
(***************************************************************************)
CONSTANTS Pods, Usable, NoIP

VARIABLE addr   \* the address of each running pod, NoIP for the others

Init == addr = [p \in Pods |-> NoIP]

Start(p) ==
  /\ addr[p] = NoIP
  /\ \E ip \in Usable :
       /\ \A q \in Pods : addr[q] # ip
       /\ addr' = [addr EXCEPT ![p] = ip]

Stop(p) ==
  /\ addr[p] # NoIP
  /\ addr' = [addr EXCEPT ![p] = NoIP]

Next == \E p \in Pods : Start(p) \/ Stop(p)

Spec == Init /\ [][Next]_addr
=============================================================================
