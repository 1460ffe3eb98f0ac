------------------------------ MODULE MCRelays ------------------------------
(***************************************************************************)
(* The two relays of the proxy, side by side. They share no state, so a    *)
(* behaviour is one of either, chosen at the start.                        *)
(***************************************************************************)
EXTENDS UdpRelay, PodRelay, TLC

CONSTANTS v1, v2, x1, x2, s1, p1, p2, l1, l2

VARIABLE part

OneSource == (x1 :> s1 @@ x2 :> s1)
TightLimits == {[flows |-> 1, perSource |-> 2, total |-> 2, global |-> 1],
                [flows |-> 2, perSource |-> 1, total |-> 1, global |-> 2],
                [flows |-> 2, perSource |-> 2, total |-> 3, global |-> 2]}

Init ==
  /\ UdpInit /\ RelayInit
  /\ \/ part = "udp"
     \/ part = "pod" /\ limits = CHOOSE l \in Limits : TRUE
Next ==
  \/ part = "udp" /\ UdpNext /\ UNCHANGED <<relayVarsP, part>>
  \/ part = "pod" /\ RelayNext /\ UNCHANGED <<udpVars, part>>

Spec == Init /\ [][Next]_<<udpVars, relayVarsP, part>> /\ RelayFairness

=============================================================================
