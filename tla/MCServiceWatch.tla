--------------------------- MODULE MCServiceWatch ---------------------------
(* ServiceWatch with a Service that changes and one with static backends. *)
EXTENDS ServiceWatch, TLC

CONSTANTS s1, s2, p1, p2, b1

OnePort == [ports |-> {p1}, etp |-> FALSE]
TwoPorts == [ports |-> {p1, p2}, etp |-> TRUE]
SmallSpecs == {TwoPorts}
SmallInitial == [k \in Services |-> OnePort]
SmallStatic == (s2 :> {b1})
SmallStripe == (s1 :> 0 @@ s2 :> 1)

(* The first change comes while Run still starts, and then no failure is ahead of it; or it
   finds the watcher at rest. *)
WatchNextScope == (api' # api) => (log # <<>> \/ faults = MaxFaults \/ Quiet)

WatchSpec == Init /\ [][Next /\ WatchNextScope]_vars /\ Fairness
=============================================================================
