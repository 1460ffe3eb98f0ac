--------------------------- MODULE MCProxyWorker ---------------------------
(* ProxyWorker with one port, or two ports of one VIP. *)
EXTENDS ProxyWorker, TLC

CONSTANTS k1, k2, v1, w1, w2, c1, c2

OneKey == (k1 :> v1)
SharedVIP == (k1 :> v1 @@ k2 :> v1)
WorkerSymmetry == Permutations(Workers) \cup Permutations(Callers)
=============================================================================
