------------------------------ MODULE UdpRelay ------------------------------
(***************************************************************************)
(* The datagram relays of the UDP Service ports (pkg/proxy/udprelay.go).   *)
(*                                                                         *)
(* Each relay has a dispatcher, the only one that adds a flow, a sweeper,  *)
(* a reader per flow, and a Close; all relays share one admission budget.  *)
(* A step is what happens under one hold of the relay's mu, or one call    *)
(* outside it. What the budget does under the relay's mu belongs to that   *)
(* step: its own lock is a leaf.                                           *)
(*                                                                         *)
(* A flow is named by its client; its upstream socket is open while the    *)
(* pair of relay and client is in sockets. Payloads are left out.          *)
(***************************************************************************)
EXTENDS Integers, FiniteSets

CONSTANTS
  Relays,        \* the UDP Service ports
  Clients,       \* the client addresses, with their ports
  SourceIP,      \* the address alone: what the fair shares count
  Limits,        \* MaxUDPFlows, perSourceCap, maxTotal and maxPerSource, to choose from
  IdleTimeout,   \* in ticks
  NoClient,
  MaxUdpNow      \* bounds the clock

Sources == {SourceIP[c] : c \in Clients}

ASSUME UdpAssumption ==
  /\ IsFiniteSet(Relays) /\ IsFiniteSet(Clients) /\ DOMAIN SourceIP = Clients
  /\ Limits \subseteq [flows : Nat \ {0}, perSource : Nat \ {0}, total : Nat \ {0}, global : Nat \ {0}]
  /\ IdleTimeout \in Nat \ {0} /\ MaxUdpNow \in Nat

VARIABLES
  limits,    \* the caps; never written
  flows,     \* of each relay, the stamp of each client's flow: 0 if it has none
  perSource, \* udpRelay.perSource
  total, bySource,       \* the budget
  sockets,   \* the upstream sockets that are open, by relay and client
  disp,      \* the dispatcher of each relay, the client it serves, when its flow was stamped
  sweeper,   \* is the sweeper running?
  readers,   \* the readers that have not returned, by relay and client
  deaf,      \* the upstreams that are open and whose reader has returned
  closing,   \* how far Close has come, and the flows it drained
  udpNow     \* the monotonic clock, from 1

budgetVars == <<total, bySource>>
relayVars == <<flows, perSource>>
upstreamVars == <<sockets, deaf>>
threadVars == <<disp, sweeper, readers, closing>>
udpVars == <<limits, relayVars, budgetVars, upstreamVars, threadVars, udpNow>>

Live(r) == {c \in Clients : flows[r][c] # 0}
Closed(r) == closing[r].pc # "open"
Ready == [pc |-> "read", client |-> NoClient]

UdpInit ==
  /\ limits \in Limits
  /\ flows = [r \in Relays |-> [c \in Clients |-> 0]]
  /\ perSource = [r \in Relays |-> [s \in Sources |-> 0]]
  /\ total = 0
  /\ bySource = [s \in Sources |-> 0]
  /\ sockets = {} /\ deaf = {}
  /\ disp = [r \in Relays |-> Ready]
  /\ sweeper = [r \in Relays |-> TRUE]
  /\ readers = [r \in Relays |-> [c \in Clients |-> 0]]
  /\ closing = [r \in Relays |-> [pc |-> "open", drained |-> {}]]
  /\ udpNow = 1

-----------------------------------------------------------------------------
(* The dispatcher. *)

At(r, pc) == disp' = [disp EXCEPT ![r].pc = pc]
Dropped(r) == disp' = [disp EXCEPT ![r] = Ready]

(* The caps of this relay, at either lock. *)
PerVIPFull(r, c) ==
  Cardinality(Live(r)) >= limits.flows \/ perSource[r][SourceIP[c]] >= limits.perSource

(* peekAtCap, and the test of reserve. *)
AtCap(c) == total >= limits.total \/ bySource[SourceIP[c]] >= limits.global

(* A datagram is read and its flow looked up: found, it is stamped under mu; *)
(* new, it is dropped at once when the relay is closed or full.              *)
Lookup(r, c) ==
  /\ disp[r].pc = "read" /\ closing[r].pc \in {"open", "drained"}
  /\ IF flows[r][c] # 0
     THEN /\ flows' = [flows EXCEPT ![r][c] = udpNow]
          /\ disp' = [disp EXCEPT ![r] = [pc |-> "write", client |-> c]]
     ELSE /\ IF Closed(r) \/ PerVIPFull(r, c) THEN UNCHANGED disp
             ELSE disp' = [disp EXCEPT ![r] = [pc |-> "peek", client |-> c]]
          /\ UNCHANGED flows
  /\ UNCHANGED <<limits, perSource, budgetVars, upstreamVars, sweeper, readers, closing, udpNow>>

PeekAtCap(r) ==
  /\ disp[r].pc = "peek"
  /\ IF AtCap(disp[r].client) THEN Dropped(r) ELSE At(r, "dial")
  /\ UNCHANGED <<limits, relayVars, budgetVars, upstreamVars, sweeper, readers, closing, udpNow>>

(* The pick, the verdict and the dial: any of them may refuse the flow. *)
Dial(r) ==
  /\ disp[r].pc = "dial"
  /\ \/ Dropped(r) /\ UNCHANGED sockets
     \/ At(r, "admit") /\ sockets' = sockets \cup {<<r, disp[r].client>>}
  /\ UNCHANGED <<limits, relayVars, budgetVars, deaf, sweeper, readers, closing, udpNow>>

(* Mutant: the second lock does not look at the shared budget. *)
AdmitUnreserved(r) ==
  LET c == disp[r].client
      src == SourceIP[c]
  IN /\ disp[r].pc = "admit"
     /\ IF Closed(r) \/ PerVIPFull(r, c)
        THEN /\ sockets' = sockets \ {<<r, c>>}
             /\ Dropped(r)
             /\ UNCHANGED <<relayVars, budgetVars, readers>>
        ELSE /\ flows' = [flows EXCEPT ![r][c] = udpNow]
             /\ perSource' = [perSource EXCEPT ![r][src] = @ + 1]
             /\ total' = total + 1
             /\ bySource' = [bySource EXCEPT ![src] = @ + 1]
             /\ readers' = [readers EXCEPT ![r][c] = @ + 1]
             /\ At(r, "write")
             /\ UNCHANGED sockets
     /\ UNCHANGED <<limits, deaf, sweeper, closing, udpNow>>

(* The second lock decides: a flow that is refused closes its socket, one that *)
(* is admitted is counted, and gets its reader.                                *)
Admit(r) ==
  LET c == disp[r].client
      src == SourceIP[c]
  IN /\ disp[r].pc = "admit"
     /\ IF Closed(r) \/ PerVIPFull(r, c) \/ AtCap(c)
        THEN /\ sockets' = sockets \ {<<r, c>>}
             /\ Dropped(r)
             /\ UNCHANGED <<relayVars, budgetVars, readers>>
        ELSE /\ flows' = [flows EXCEPT ![r][c] = udpNow]
             /\ perSource' = [perSource EXCEPT ![r][src] = @ + 1]
             /\ total' = total + 1
             /\ bySource' = [bySource EXCEPT ![src] = @ + 1]
             /\ readers' = [readers EXCEPT ![r][c] = @ + 1]
             /\ At(r, "write")
             /\ UNCHANGED sockets
     /\ UNCHANGED <<limits, deaf, sweeper, closing, udpNow>>

Forward(r) ==
  /\ disp[r].pc = "write"
  /\ Dropped(r)
  /\ UNCHANGED <<limits, relayVars, budgetVars, upstreamVars, sweeper, readers, closing, udpNow>>

(* The read fails once the socket of the VIP is closed. *)
DispatchReturns(r) ==
  /\ disp[r].pc = "read" /\ closing[r].pc \in {"unblocked", "joining"}
  /\ At(r, "gone")
  /\ UNCHANGED <<limits, relayVars, budgetVars, upstreamVars, sweeper, readers, closing, udpNow>>

-----------------------------------------------------------------------------
(* The readers, the sweeper and Close. *)

(* The reader of a flow is at its upstream's Read. *)
Reading(r, c) == (flows[r][c] # 0 \/ c \in closing[r].drained) /\ <<r, c>> \notin deaf

(* A reply of the backend is relayed and stamps its flow. *)
Reply(r, c) ==
  /\ flows[r][c] # 0 /\ Reading(r, c)
  /\ flows' = [flows EXCEPT ![r][c] = udpNow]
  /\ UNCHANGED <<limits, perSource, budgetVars, upstreamVars, threadVars, udpNow>>

(* A reader returns when its upstream is closed; a new flow of the same client *)
(* may have a reader of its own by then. It also returns when the Read fails   *)
(* while the upstream is open, or the write once the socket of the VIP is not: *)
(* the flow stays in the table and nobody reads its replies.                   *)
ReaderReturns(r, c) ==
  /\ readers[r][c] > 0
  /\ \/ readers[r][c] > (IF Reading(r, c) THEN 1 ELSE 0) /\ UNCHANGED deaf
     \/ Reading(r, c) /\ deaf' = deaf \cup {<<r, c>>}
  /\ readers' = [readers EXCEPT ![r][c] = @ - 1]
  /\ UNCHANGED <<limits, relayVars, budgetVars, sockets, disp, sweeper, closing, udpNow>>

(* The upstreams of the flows of gone are closed. *)
Shut(r, gone) == sockets' = sockets \ ({r} \X gone) /\ deaf' = deaf \ ({r} \X gone)

(* releaseFlowLocked, for every flow of gone. *)
Release(r, gone) ==
  LET of(s) == Cardinality({c \in gone : SourceIP[c] = s})
  IN /\ flows' = [flows EXCEPT ![r] = [c \in Clients |-> IF c \in gone THEN 0 ELSE @[c]]]
     /\ perSource' = [perSource EXCEPT ![r] = [s \in Sources |-> @[s] - of(s)]]
     /\ total' = total - Cardinality(gone)
     /\ bySource' = [s \in Sources |-> bySource[s] - of(s)]

SweepExpired(r) ==
  LET idle == {c \in Live(r) : udpNow - flows[r][c] >= IdleTimeout}
  IN /\ sweeper[r]
     /\ idle # {}
     /\ Shut(r, idle)
     /\ Release(r, idle)
     /\ UNCHANGED <<limits, threadVars, udpNow>>

SweepReturns(r) ==
  /\ sweeper[r] /\ closing[r].pc \in {"unblocked", "joining"}
  /\ sweeper' = [sweeper EXCEPT ![r] = FALSE]
  /\ UNCHANGED <<limits, relayVars, budgetVars, upstreamVars, disp, readers, closing, udpNow>>

(* Close, under mu. Another Close returns at once. *)
CloseDrain(r) ==
  /\ ~Closed(r)
  /\ closing' = [closing EXCEPT ![r] = [pc |-> "drained", drained |-> Live(r)]]
  /\ Release(r, Live(r))
  /\ UNCHANGED <<limits, upstreamVars, disp, sweeper, readers, udpNow>>

(* It stops the sweeper and closes the socket of the VIP. *)
CloseConn(r) ==
  /\ closing[r].pc = "drained"
  /\ closing' = [closing EXCEPT ![r].pc = "unblocked"]
  /\ UNCHANGED <<limits, relayVars, budgetVars, upstreamVars, disp, sweeper, readers, udpNow>>

(* Mutant: the upstreams of the drained flows are left to their readers. *)
CloseUpstreamsKeeps(r) ==
  /\ closing[r].pc = "unblocked"
  /\ closing' = [closing EXCEPT ![r].pc = "joining"]
  /\ UNCHANGED <<limits, relayVars, budgetVars, upstreamVars, disp, sweeper, readers, udpNow>>

CloseUpstreams(r) ==
  /\ closing[r].pc = "unblocked"
  /\ Shut(r, closing[r].drained)
  /\ closing' = [closing EXCEPT ![r] = [pc |-> "joining", drained |-> {}]]
  /\ UNCHANGED <<limits, relayVars, budgetVars, disp, sweeper, readers, udpNow>>

CloseJoins(r) ==
  /\ closing[r].pc = "joining"
  /\ disp[r].pc = "gone" /\ ~sweeper[r] /\ \A c \in Clients : readers[r][c] = 0
  /\ closing' = [closing EXCEPT ![r].pc = "closed"]
  /\ UNCHANGED <<limits, relayVars, budgetVars, upstreamVars, disp, sweeper, readers, udpNow>>

UdpTick ==
  /\ udpNow < MaxUdpNow
  /\ udpNow' = udpNow + 1
  /\ UNCHANGED <<limits, relayVars, budgetVars, upstreamVars, threadVars>>

-----------------------------------------------------------------------------
Dispatch(r) == PeekAtCap(r) \/ Dial(r) \/ Admit(r) \/ Forward(r) \/ DispatchReturns(r)
CloseGoesOn(r) == CloseConn(r) \/ CloseUpstreams(r) \/ CloseJoins(r)

UdpNext ==
  \/ \E r \in Relays :
       \/ \E c \in Clients : Lookup(r, c) \/ Reply(r, c) \/ ReaderReturns(r, c)
       \/ Dispatch(r) \/ SweepExpired(r) \/ SweepReturns(r) \/ CloseDrain(r) \/ CloseGoesOn(r)
  \/ UdpTick

-----------------------------------------------------------------------------
(* The counters of every relay and of the budget they share are exactly the   *)
(* flows that are in the tables, and no cap is passed, however the admissions *)
(* of several dispatchers, the sweeps and the closes interleave (udprelay.go: *)
(* "a leaked per-source count never resets").                                 *)
FlowsCounted ==
  LET of(r, s) == Cardinality({c \in Live(r) : SourceIP[c] = s})
  IN /\ total = Cardinality({x \in Relays \X Clients : flows[x[1]][x[2]] # 0})
     /\ total <= limits.total
     /\ \A s \in Sources :
          /\ bySource[s] = Cardinality({x \in Relays \X Clients :
                                          SourceIP[x[2]] = s /\ flows[x[1]][x[2]] # 0})
          /\ bySource[s] <= limits.global
          /\ \A r \in Relays : perSource[r][s] = of(r, s) /\ of(r, s) <= limits.perSource
     /\ \A r \in Relays : Cardinality(Live(r)) <= limits.flows

(* No upstream socket outlives what owns it: a flow in the table, a dispatcher *)
(* between its dial and its admission, or a Close that has not come to its     *)
(* join: no reader it joins is left blocked. And when Close returns the relay  *)
(* has no socket, no goroutine and no slot left.                               *)
SocketsOwned ==
  /\ \A x \in sockets :
       \/ flows[x[1]][x[2]] # 0
       \/ disp[x[1]].pc = "admit" /\ disp[x[1]].client = x[2]
       \/ x[2] \in closing[x[1]].drained /\ closing[x[1]].pc \in {"drained", "unblocked"}
  /\ \A r \in Relays : closing[r].pc = "closed" =>
       /\ ~\E c \in Clients : <<r, c>> \in sockets \/ readers[r][c] # 0 \/ flows[r][c] # 0
       /\ disp[r].pc = "gone" /\ ~sweeper[r]

=============================================================================
