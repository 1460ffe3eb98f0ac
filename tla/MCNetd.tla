------------------------------- MODULE MCNetd -------------------------------
(***************************************************************************)
(* netd's verbs that share no state: those about the node's identity, in   *)
(* two instances, and ApplyUpdate. A behaviour is one of them:             *)
(*   mesh          pod aliases and ConfigureMesh on two connections,       *)
(*   interconnect  the interconnect verbs beside ConfigureMesh, whose      *)
(*                 device is never built: it only pins the identity,       *)
(*   update        ApplyUpdate between two clients, netd, its installers   *)
(*                 and the disk.                                           *)
(***************************************************************************)
EXTENDS NetdIdentity, NetdUpdate, TLC

CONSTANTS A, B, k1, k2, k3, h1, h2

VARIABLE part

MCCidrs == {A, B}
MCClients == {h1, h2}
ClientSymmetry == Permutations(MCClients)

Text(rank) == [num |-> FALSE, val |-> rank]
Number(n) == [num |-> TRUE, val |-> n]
Release(core, pre) == [core |-> core, pre |-> pre]

(* A ladder of releases: 1.0.0-rc < 1.0.0-rc.2 < 1.0.0-rc.11 < 1.0.0 < 1.0.1. *)
Ladder == <<Release(<<1, 0, 0>>, <<Text(1)>>), Release(<<1, 0, 0>>, <<Text(1), Number(2)>>),
            Release(<<1, 0, 0>>, <<Text(1), Number(11)>>), Release(<<1, 0, 0>>, <<>>),
            Release(<<1, 0, 1>>, <<>>)>>

Sig(valid, id, t) == [valid |-> valid, developerID |-> id, team |-> t]
K3sm(sig) == [sig |-> sig, name |-> "k3sm", type |-> "macho"]
Shim(sig) == [sig |-> sig, name |-> "shim", type |-> "macho"]
Extra(name, type) == [sig |-> Sig(FALSE, FALSE, ""), name |-> name, type |-> type]
AdHoc == Sig(TRUE, FALSE, "")
TeamX == Sig(TRUE, TRUE, "X")
Markers == <<Extra("cp", "dir"), Extra("cp/v", "marker"), Extra("LICENSE", "data")>>

MCArchive ==
  [rc2   |-> <<K3sm(TeamX), Shim(TeamX)>>,
   rc11  |-> <<K3sm(TeamX), Shim(TeamX)>> \o Markers,
   adhoc |-> <<K3sm(AdHoc), Shim(AdHoc)>>]
MCVersion == [rc2 |-> Ladder[2], rc11 |-> Ladder[3], adhoc |-> Ladder[4]]
MCDigests == DOMAIN MCArchive
MCSetFiles == {"k3sm", "shim"}
MCPayloadFiles == {"cp", "cp/v"}

Signer == [chains |-> TRUE, codeSigning |-> TRUE, names |-> TRUE]
NodeCert == [Signer EXCEPT !.codeSigning = FALSE, !.names = FALSE]
Payload(c, allow, required) ==
  [allow |-> allow, required |-> required, sha256 |-> c, version |-> MCVersion[c]]
Request(cert, p) == [cert |-> cert, peer |-> TRUE, signed |-> p, payload |-> p, archiveOK |-> TRUE]
MCRequests ==
  {Request(Signer, Payload("rc2", FALSE, FALSE)), Request(Signer, Payload("rc11", TRUE, TRUE)),
   Request(Signer, Payload("adhoc", FALSE, FALSE)), Request(NodeCert, Payload("rc11", FALSE, FALSE))}

Init ==
  /\ IdentityInit /\ UpdateInit
  /\ \/ part = "update"
     \/ part \in {"mesh", "interconnect"} /\ caFile
Next ==
  \/ part = "mesh" /\ IdentityNext({k1, k2}) /\ UNCHANGED <<updateVars, part>>
  \/ part = "interconnect" /\ IdentityNext({k2, k3}) /\ UNCHANGED <<updateVars, part>>
  \/ part = "update" /\ UpdateNext /\ UNCHANGED <<identityVars, part>>

Spec == Init /\ [][Next]_<<identityVars, updateVars, part>>

\* The bound of the interconnect instance.
NoDevice == part = "interconnect" => dev = None

(* No installer puts a release below the installed one in its place unless its payload *)
(* allows a downgrade: nothing else is installed between the comparison and the run. *)
RankOf(c) == CHOOSE n \in 1..Len(Ladder) : Ladder[n] = Version[c]
NoDowngrade ==
  [][\A i \in installers \ installers' :
       installed' # installed /\ ~i.req.payload.allow => RankOf(installed') >= RankOf(installed)]_updateVars
=============================================================================
