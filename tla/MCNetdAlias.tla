----------------------------- MODULE MCNetdAlias -----------------------------
(* NetdAlias with two /24s of one host each, and one VIP. *)
EXTENDS NetdAlias

CONSTANTS a1, b1, v1

MCCidrs == {{a1}, {b1}}
MCVIPs == {v1}
=============================================================================
