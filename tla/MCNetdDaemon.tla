---------------------------- MODULE MCNetdDaemon ----------------------------
(***************************************************************************)
(* The executor's alias operations and the daemon's accept loop, side by   *)
(* side. They share no state, so a behaviour is one of either, chosen at   *)
(* the start.                                                              *)
(***************************************************************************)
EXTENDS MCNetdAlias, NetdServe

CONSTANTS c1, c2

VARIABLE part

DaemonInit ==
  /\ Init /\ ServeInit
  /\ part = "alias" \/ (part = "serve" /\ cidr = {a1})

DaemonNext ==
  \/ part = "alias" /\ Next /\ UNCHANGED <<serveVars, part>>
  \/ part = "serve" /\ ServeNext /\ UNCHANGED <<vars, part>>

\* The executor: the mesh resync calls ConfigureMesh for ever; a command that keeps being
\* tried succeeds in the end; an operation that holds aliasMu goes on. The daemon: the
\* goroutines run and deadlines pass (a read's idle bound, a call's), so one of them moves while
\* any can; a peer is not obliged to anything.
Fairness ==
  /\ WF_vars(part = "alias" /\ Commands)
  /\ SF_vars(part = "alias" /\ ConfigureMesh)
  /\ SF_vars(part = "alias" /\ ConfigureDevice /\ synced')
  /\ WF_serveVars(part = "serve" /\ (Loop \/ Watchdog \/ \E c \in Conns : Handle(c) \/ Call(c)))

DaemonSpec == DaemonInit /\ [][DaemonNext]_<<vars, serveVars, part>> /\ Fairness

=============================================================================
