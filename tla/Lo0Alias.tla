------------------------------ MODULE Lo0Alias ------------------------------
(***************************************************************************)
(* The kernel's /32 state of an address and what one call of the direct    *)
(* lo0 alias manager (pkg/podnet/alias.go) does to it.                     *)
(*                                                                         *)
(* A lo0 alias and the blackhole route that replaces it share one /32 key, *)
(* so the kernel side of an address is one value:                          *)
(*   "none"       no host route: the address follows the cluster aggregate *)
(*   "alias"      aliased on lo0                                           *)
(*   "blackhole"  an RTF_BLACKHOLE host route holds it on lo0              *)
(*   "cloned"     a cache entry the kernel cloned from the aggregate       *)
(* The manager's side is aliasState: "no" (untracked), "live", "pending".  *)
(*                                                                         *)
(* A call is described by the set of its outcomes [h, t, err]: the /32     *)
(* state and the tracking it leaves, and whether it returns an error.      *)
(* Every ifconfig and routing-socket request may fail without effect.      *)
(***************************************************************************)

HostState == {"none", "alias", "blackhole", "cloned"}
TrackState == {"no", "live", "pending"}
Outcome == [h : HostState, t : TrackState, err : BOOLEAN]

OK(h, t) == [h |-> h, t |-> t, err |-> FALSE]
Err(h, t) == [h |-> h, t |-> t, err |-> TRUE]

-----------------------------------------------------------------------------
(* BlackholeRoutes. *)

\* The /32 after a Clear that works: only a route with RTF_BLACKHOLE is deleted.
Cleared(h) == IF h = "blackhole" THEN "none" ELSE h

\* The pairs <<state, err>> an Install of the blackhole may leave. A live alias
\* refuses it (EEXIST on a route that is neither blackhole nor clone); a clone is
\* deleted and the add retried once, and either request may fail.
InstallResults(h) ==
  {<<h, TRUE>>}
    \cup (IF h = "cloned" THEN {<<"none", TRUE>>} ELSE {})
    \cup (IF h = "alias" THEN {} ELSE {<<"blackhole", FALSE>>})

-----------------------------------------------------------------------------
(* lo0AliasManager. *)

\* Ensure: a tracked live alias is left alone; otherwise a pod address has its
\* blackhole cleared, then the alias is added.
EnsureOutcomes(h, t, isPod) ==
  IF t = "live" THEN {OK(h, t)}
  ELSE LET c == IF isPod THEN Cleared(h) ELSE h
       IN  {Err(h, t), Err(c, t), OK("alias", "live")}

\* The blackhole step that ends a Remove; a failure leaves the address tracked as
\* pending.
BlackholeStep(h) ==
  {IF r[2] THEN Err(r[1], "pending") ELSE OK(r[1], "no") : r \in InstallResults(h)}

\* Mutant of RemoveOutcomes: a pending address is taken off lo0 again.
RemoveForgetsPending(h, t, isPod) ==
  LET deleted == IF h = "alias" THEN BlackholeStep("none") ELSE {}
  IN  IF t = "no" THEN {OK(h, "no")} \cup deleted ELSE {Err(h, t)} \cup deleted

\* Remove: -alias, then the blackhole. A pending address owes only the blackhole.
\* A tracked one whose -alias fails is returned as an error; an untracked one
\* whose -alias fails is taken as absent, and is not blackholed.
RemoveOutcomes(h, t, isPod) ==
  LET afterAlias == IF isPod THEN BlackholeStep("none") ELSE {OK("none", "no")}
      deleted == IF h = "alias" THEN afterAlias ELSE {}
  IN  CASE t = "pending" -> IF isPod THEN BlackholeStep(h) ELSE {OK(h, "no")}
        [] t = "live"    -> {Err(h, t)} \cup deleted
        [] OTHER         -> {OK(h, "no")} \cup deleted
=============================================================================
