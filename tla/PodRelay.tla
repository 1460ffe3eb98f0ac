------------------------------ MODULE PodRelay ------------------------------
(***************************************************************************)
(* The relays of the vm pods on their published addresses                  *)
(* (pkg/proxy/podrelay.go) and the transport overrides that drive them     *)
(* (pkg/proxy/routing.go).                                                 *)
(*                                                                         *)
(* Three parties share the relays: the writer of the routing table, whose  *)
(* observer retires relays before SetTransportOverrides returns; the       *)
(* goroutine that reconciles, which binds outside the lock; and the        *)
(* connections. A step is one hold of podRelays.mu, or the calls between   *)
(* two of them. A relay object is named by its pod and the generation that *)
(* made it; it may outlive its place in the map relays.                    *)
(***************************************************************************)
EXTENDS Naturals, FiniteSets

CONSTANTS
  Pods,            \* published addresses
  Leases,          \* live addresses
  Outside,         \* of these, the ones refused whoever reports them
  Declared,        \* the port sets a pod may declare
  SvcPorts,        \* the port sets the Services may list for a pod
  MaxRelayPorts,
  NoLease,
  MaxGen, MaxBindFaults   \* bound the writes and the binds that fail

ASSUME RelayAssumption == MaxRelayPorts \in Nat /\ MaxGen \in Nat /\ MaxBindFaults \in Nat

Override == [live : Leases, ports : Declared]
None == [live |-> NoLease, ports |-> {}]

VARIABLES
  snap,     \* the current generation of the routing table
  writer,   \* what the table's writer is doing in the observer
  kick, retry,    \* the kick channel, and is the retry timer armed?
  relays,   \* podRelays.relays: of each pod, the generation of its relay, or 0
  objs,     \* the relay objects that are open, or still have a goroutine
  rec,      \* the reconcile goroutine
  stop,     \* is the context cancelled?
  bindFaults

relayVarsP == <<snap, writer, kick, retry, relays, objs, rec, stop, bindFaults>>

NoPlan == [pc |-> "select", snap |-> [gen |-> 0], gone |-> {}, jobs |-> {}, ok |-> TRUE]
Quiet == [pc |-> "idle", gone |-> {}]

RelayInit ==
  /\ snap = [gen |-> 1, tgen |-> 1, transport |-> [p \in Pods |-> None], svc |-> [p \in Pods |-> {}]]
  /\ writer = Quiet
  /\ kick = FALSE /\ retry = FALSE
  /\ relays = [p \in Pods |-> 0]
  /\ objs = {}
  /\ rec = NoPlan
  /\ stop = FALSE
  /\ bindFaults = MaxBindFaults

-----------------------------------------------------------------------------
(* Admission. *)

(* Another pod of the generation reports the same lease. *)
SharedLease(s, p) == \E q \in Pods \ {p} : s.transport[q].live = s.transport[p].live

Refused(s, p) ==
  LET live == s.transport[p].live
  IN live = NoLease \/ live \in Outside \/ SharedLease(s, p)

PortSet(s, p) == s.transport[p].ports \cup s.svc[p]
Admitted(s, p) == ~Refused(s, p) /\ Cardinality(PortSet(s, p)) <= MaxRelayPorts

Plan(s) == {p \in Pods : Admitted(s, p)}

InMap(o) == relays[o.pub] = o.gen

NewRelay(s, p) ==
  [pub |-> p, gen |-> s.gen, live |-> s.transport[p].live, closed |-> FALSE, listeners |-> {}, conn |-> "none"]

(* trimPorts: the listeners of other ports are closed; the missing ones are to be bound. *)
Trim(s, o) == [o EXCEPT !.listeners = @ \cap PortSet(s, o.pub)]
Missing(s, o) == {o.pub} \X {o.gen} \X (PortSet(s, o.pub) \ o.listeners)

(* close, of every relay of gone: one whose goroutines have returned is forgotten. *)
Close(os, gone) ==
  {IF o \in gone THEN [o EXCEPT !.closed = TRUE, !.listeners = {}] ELSE o :
     o \in {x \in os : x \notin gone \/ x.conn # "none"}}

-----------------------------------------------------------------------------
(* The writer of the table. *)

(* Store, of a generation with other overrides. The observer follows. *)
SetTransportOverrides ==
  /\ writer.pc = "idle" /\ snap.gen < MaxGen
  /\ \E next \in [Pods -> Override \cup {None}] :
       /\ next # snap.transport
       /\ snap' = [snap EXCEPT !.gen = @ + 1, !.tgen = snap.gen + 1, !.transport = next]
  /\ writer' = [pc |-> "retire", gone |-> {}]
  /\ UNCHANGED <<kick, retry, relays, objs, rec, stop, bindFaults>>

(* Store, of a generation with other backends: the observer only kicks. *)
InstallBackends ==
  /\ writer.pc = "idle" /\ snap.gen < MaxGen
  /\ \E p \in Pods, ports \in SvcPorts :
       /\ ports # snap.svc[p]
       /\ snap' = [snap EXCEPT !.gen = @ + 1, !.svc[p] = ports]
  /\ kick' = TRUE
  /\ UNCHANGED <<writer, retry, relays, objs, rec, stop, bindFaults>>

(* retire, under mu: the relays that are not kept leave the map. *)
Retire ==
  LET gone == {o \in objs : InMap(o) /\ ~(snap.transport[o.pub].live = o.live /\ Admitted(snap, o.pub))}
  IN /\ writer.pc = "retire"
     /\ relays' = [p \in Pods |-> IF \E o \in gone : o.pub = p THEN 0 ELSE relays[p]]
     /\ writer' = [pc |-> "close", gone |-> {<<o.pub, o.gen>> : o \in gone}]
     /\ UNCHANGED <<snap, kick, retry, objs, rec, stop, bindFaults>>

(* They are closed, the reconcile goroutine is kicked, and the call returns. *)
RetireCloses ==
  /\ writer.pc = "close"
  /\ objs' = Close(objs, {o \in objs : <<o.pub, o.gen>> \in writer.gone})
  /\ kick' = TRUE
  /\ writer' = Quiet
  /\ UNCHANGED <<snap, retry, relays, rec, stop, bindFaults>>

-----------------------------------------------------------------------------
(* The reconcile goroutine. *)

(* It is kicked, or its timer fires, and loads the current generation. *)
Load ==
  /\ rec.pc = "select"
  /\ \/ kick /\ kick' = FALSE /\ UNCHANGED retry
     \/ retry /\ ~stop /\ retry' = FALSE /\ UNCHANGED kick
  /\ rec' = [NoPlan EXCEPT !.pc = "apply", !.snap = snap]
  /\ UNCHANGED <<snap, writer, relays, objs, stop, bindFaults>>

(* Mutant: the relays of a generation are installed whatever was stored since. *)
ReconcileAnyGen ==
  LET s == rec.snap
      wanted == Plan(s)
      gone == {o \in objs : InMap(o) /\ ~(o.pub \in wanted /\ o.live = s.transport[o.pub].live)}
      kept == {o \in objs : InMap(o)} \ gone
      made == {NewRelay(s, p) : p \in {q \in wanted : ~\E o \in kept : o.pub = q}}
      trimmed == {Trim(s, o) : o \in kept \cup made}
  IN /\ rec.pc = "apply"
     /\ relays' = [p \in Pods |-> IF p \in wanted THEN (CHOOSE o \in trimmed : o.pub = p).gen ELSE 0]
     /\ objs' = (objs \ kept) \cup trimmed
     /\ rec' = [rec EXCEPT !.pc = "close", !.snap = [gen |-> 0],
                           !.gone = {<<o.pub, o.gen>> : o \in gone},
                           !.jobs = UNION {Missing(s, o) : o \in trimmed}]
     /\ UNCHANGED <<snap, writer, kick, retry, stop, bindFaults>>

(* reconcile, under mu: nothing when a newer generation replaced the overrides; *)
(* otherwise the relays that are not wanted leave the map, the ones that are    *)
(* missing enter it, and every relay closes the listeners it must not have.     *)
Reconcile ==
  LET s == rec.snap
      wanted == Plan(s)
      gone == {o \in objs : InMap(o) /\ ~(o.pub \in wanted /\ o.live = s.transport[o.pub].live)}
      kept == {o \in objs : InMap(o)} \ gone
      made == {NewRelay(s, p) : p \in {q \in wanted : ~\E o \in kept : o.pub = q}}
      trimmed == {Trim(s, o) : o \in kept \cup made}
  IN /\ rec.pc = "apply"
     /\ IF snap.tgen # s.tgen
        THEN rec' = [rec EXCEPT !.pc = "bind", !.snap = [gen |-> 0]] /\ UNCHANGED <<relays, objs>>
        ELSE /\ relays' = [p \in Pods |-> IF p \in wanted THEN (CHOOSE o \in trimmed : o.pub = p).gen ELSE 0]
             /\ objs' = (objs \ kept) \cup trimmed
             /\ rec' = [rec EXCEPT !.pc = "close", !.snap = [gen |-> 0],
                          !.gone = {<<o.pub, o.gen>> : o \in gone},
                          !.jobs = UNION {Missing(s, o) : o \in trimmed}]
     /\ UNCHANGED <<snap, writer, kick, retry, stop, bindFaults>>

ReconcileCloses ==
  /\ rec.pc = "close"
  /\ objs' = Close(objs, {o \in objs : <<o.pub, o.gen>> \in rec.gone})
  /\ rec' = [rec EXCEPT !.pc = "bind", !.gone = {}]
  /\ UNCHANGED <<snap, writer, kick, retry, relays, stop, bindFaults>>

(* The bind fails while another listener has the address, or for a reason of its own. *)
BindFails(j) ==
  /\ rec.pc = "bind" /\ j \in rec.jobs
  /\ \/ (\E o \in objs : o.pub = j[1] /\ j[3] \in o.listeners) /\ UNCHANGED bindFaults
     \/ stop /\ UNCHANGED bindFaults
     \/ bindFaults > 0 /\ bindFaults' = bindFaults - 1
  /\ rec' = [rec EXCEPT !.jobs = @ \ {j}, !.ok = FALSE]
  /\ UNCHANGED <<snap, writer, kick, retry, relays, objs, stop>>

(* addListener: the listener is kept unless its relay was closed meanwhile. *)
AddListener(j) ==
  LET mine == {o \in objs : o.pub = j[1] /\ o.gen = j[2] /\ ~o.closed}
  IN objs' = (objs \ mine) \cup {[o EXCEPT !.listeners = @ \cup {j[3]}] : o \in mine}

Open(j) ==
  /\ rec.pc = "bind" /\ j \in rec.jobs
  /\ ~\E o \in objs : o.pub = j[1] /\ j[3] \in o.listeners
  /\ AddListener(j)
  /\ rec' = [rec EXCEPT !.jobs = @ \ {j}]
  /\ UNCHANGED <<snap, writer, kick, retry, relays, stop, bindFaults>>

(* Mutant: only a kick starts another pass. *)
PassEndsNoRetry ==
  /\ rec.pc = "bind" /\ rec.jobs = {}
  /\ retry' = FALSE
  /\ rec' = NoPlan
  /\ UNCHANGED <<snap, writer, kick, relays, objs, stop, bindFaults>>

(* The end of a pass: the timer is stopped, or armed with its backoff. *)
PassEnds ==
  /\ rec.pc = "bind" /\ rec.jobs = {}
  /\ retry' = ~rec.ok
  /\ rec' = NoPlan
  /\ UNCHANGED <<snap, writer, kick, relays, objs, stop, bindFaults>>

(* The context is cancelled; run returns, and shutdown takes what is in the map. *)
CancelRelays ==
  /\ ~stop
  /\ stop' = TRUE
  /\ UNCHANGED <<snap, writer, kick, retry, relays, objs, rec, bindFaults>>

ShutdownRelays ==
  /\ stop /\ rec.pc = "select"
  /\ relays' = [p \in Pods |-> 0]
  /\ objs' = Close(objs, {o \in objs : InMap(o)})
  /\ rec' = [NoPlan EXCEPT !.pc = "joining"]
  /\ retry' = FALSE
  /\ UNCHANGED <<snap, writer, kick, stop, bindFaults>>

(* wg: every serve and every handle has returned. *)
ShutdownJoins ==
  /\ rec.pc = "joining"
  /\ \A o \in objs : o.listeners = {} /\ o.conn = "none"
  /\ rec' = [rec EXCEPT !.pc = "down"]
  /\ UNCHANGED <<snap, writer, kick, retry, relays, objs, stop, bindFaults>>

-----------------------------------------------------------------------------
(* The connections: at most one of each relay object. *)

Swap(o, n) == objs' = (objs \ {o}) \cup n
ConnOnly == UNCHANGED <<snap, writer, kick, retry, relays, rec, stop, bindFaults>>

(* serve accepts, and the relay tracks the client. *)
Accept(o) ==
  /\ o.listeners # {} /\ o.conn = "none"
  /\ Swap(o, {[o EXCEPT !.conn = "client"]})
  /\ ConnOnly

(* handle dials the lease; the relay tracks that too, unless it was closed. *)
DialLive(o) ==
  /\ o.conn = "client" /\ ~o.closed
  /\ Swap(o, {[o EXCEPT !.conn = "spliced"]})
  /\ ConnOnly

(* handle returns: refused, its dial failed, its relay was closed, or at the end. *)
HandleReturns(o) ==
  /\ o.conn # "none"
  /\ Swap(o, IF o.closed THEN {} ELSE {[o EXCEPT !.conn = "none"]})
  /\ ConnOnly

-----------------------------------------------------------------------------
ReconcileStep ==
  \/ Load \/ Reconcile \/ ReconcileCloses \/ PassEnds \/ ShutdownRelays \/ ShutdownJoins
  \/ \E j \in rec.jobs : Open(j) \/ BindFails(j)
RetireStep == Retire \/ RetireCloses

RelayNext ==
  \/ SetTransportOverrides \/ InstallBackends \/ RetireStep \/ ReconcileStep \/ CancelRelays
  \/ \E o \in objs : Accept(o) \/ DialLive(o) \/ HandleReturns(o)

(* The two goroutines go on; a relayed connection ends, at the latest when its *)
(* relay is closed. Nobody must write, connect, or cancel.                     *)
RelayFairness ==
  /\ WF_relayVarsP(ReconcileStep)
  /\ WF_relayVarsP(RetireStep)
  /\ WF_relayVarsP(\E o \in objs : o.closed /\ HandleReturns(o))

-----------------------------------------------------------------------------
Serves(o) == o.listeners # {} \/ (o.conn = "spliced" /\ ~o.closed)

(* Once SetTransportOverrides has returned, no relay listens or relays for a  *)
(* pod that the overrides let go, at a lease that is not its current one, or  *)
(* at a lease two pods claim; and none does once shutdown has returned. Only  *)
(* a relay that the reconcile goroutine has taken out of the map and is about *)
(* to close is left (podrelay.go, retire).                                    *)
OnlyAdmittedServe ==
  /\ writer.pc = "idle" => \A o \in objs : Serves(o) /\ <<o.pub, o.gen>> \notin rec.gone =>
                             snap.transport[o.pub].live = o.live /\ ~Refused(snap, o.pub)
  /\ rec.pc = "down" => ~\E o \in objs : Serves(o)

(* When the writers have come to rest, every pod that is admitted ends up with *)
(* a listener on exactly its ports and no other pod with one, whatever binds   *)
(* failed before; or the relays have been shut down (run, reconcile).          *)
RelaysConverge ==
  <>[](\/ rec.pc = "down"
       \/ \A p \in Pods :
            UNION {o.listeners : o \in {x \in objs : x.pub = p}}
              = IF Admitted(snap, p) THEN PortSet(snap, p) ELSE {})
=============================================================================
