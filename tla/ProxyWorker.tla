---------------------------- MODULE ProxyWorker ----------------------------
(***************************************************************************)
(* The Service proxy's per-port workers (pkg/proxy/proxy.go) and the lo0   *)
(* alias of the VIPs they bind (pkg/proxy/alias.go).                       *)
(*                                                                         *)
(* Callers (the informer handlers and the anti-entropy pass) look a worker *)
(* up under Proxy.mu and then send to its channel with no lock held, so    *)
(* the worker may have left the map, or stopped, by the time they send. A  *)
(* worker's steps are split at every lock and every command it runs.       *)
(*                                                                         *)
(* An event is an install (the port and its endpoints), a delete (the nil  *)
(* port) or a barrier; what an install says is left to RoutingTable, here  *)
(* the table only has an entry for a key or has none.                      *)
(***************************************************************************)
EXTENDS Naturals, Sequences, FiniteSets

CONSTANTS
  Keys,          \* the ClusterIP:port/protocol keys
  VIP,           \* the ClusterIP of each key
  NodePortKeys,  \* the TCP keys that also have a NodePort
  Workers,       \* the worker goroutines there may be
  Callers,
  NoWorker, NoKey,
  Cap,           \* the capacity of a worker's channel
  MaxEvents      \* bounds the events sent per key

VIPs == {VIP[k] : k \in Keys}

ASSUME WorkerAssumption ==
  /\ VIP \in [Keys -> VIPs] /\ NodePortKeys \subseteq Keys
  /\ NoWorker \notin Workers /\ NoKey \notin Keys
  /\ Cap \in Nat \ {0} /\ MaxEvents \in Nat

VARIABLES
  workers,   \* Proxy.workers: the worker of each key
  phase,     \* Run: "running", "cancelled", "stopping", "waiting" or "done"
  captured,  \* the workers shutdown took out of the map
  key,       \* each worker's key; NoKey if it was not started
  pc,        \* each worker's next step
  ch,        \* each worker's channel
  closes,    \* how many times each worker's stop channel was closed
  ln,        \* does the worker hold open sockets?
  pending,   \* does it retry a failed open?
  table,     \* the keys that have an entry in the routing table
  aliased,   \* lo0AliasManager.aliased
  lo0,       \* the VIPs aliased on lo0
  call,      \* each caller: the worker it looked up and what it sends
  barrier,   \* the call of barrier, if one is active
  sent       \* the number of events accepted for each key, up to MaxEvents

mapVars == <<workers, phase, captured, key>>
workVars == <<ch, closes, ln, pending>>
aliasVars == <<aliased, lo0>>
callVars == <<call, barrier, sent>>
vars == <<mapVars, pc, workVars, aliasVars, callVars, table>>

Events == {"install", "delete", "barrier"}
Idle == [step |-> "idle", w |-> NoWorker, kind |-> "install"]
NoBarrier == [step |-> "idle", at |-> NoWorker, left |-> {}, flushed |-> FALSE]
Opening == {"ensure", "bind", "nodePort", "undo"}
Deleting == {"closing", "delete", "remove"}
Steps == {"none", "loop", "stop", "exiting", "done"} \cup Opening \cup Deleting

TypeOK ==
  /\ workers \in [Keys -> Workers \cup {NoWorker}]
  /\ phase \in {"running", "cancelled", "stopping", "waiting", "done"}
  /\ captured \in SUBSET Workers
  /\ key \in [Workers -> Keys \cup {NoKey}] /\ pc \in [Workers -> Steps]
  /\ ch \in [Workers -> Seq(Events)] /\ \A w \in Workers : Len(ch[w]) <= Cap
  /\ closes \in [Workers -> Nat]
  /\ ln \in [Workers -> BOOLEAN] /\ pending \in [Workers -> BOOLEAN]
  /\ table \in SUBSET Keys /\ sent \in [Keys -> Nat]
  /\ aliased \in SUBSET VIPs /\ lo0 \in SUBSET VIPs
  /\ call \in [Callers -> [step : {"idle", "send"}, w : Workers \cup {NoWorker},
                           kind : {"install", "delete"}]]
  /\ barrier \in [step : {"idle", "send", "wait"}, at : Workers \cup {NoWorker},
                  left : SUBSET Workers, flushed : BOOLEAN]

Stopped(w) == closes[w] > 0
Goto(w, step) == pc' = [pc EXCEPT ![w] = step]
Full(w) == Len(ch[w]) = Cap
Sending(k) == Cardinality({c \in Callers : call[c].step = "send" /\ key[call[c].w] = k})

-----------------------------------------------------------------------------
(* The callers: reconcileServicePort, ReconcileDelete. *)

\* worker(key): the worker in the map, or a fresh one; none once shutdown began.
LookupWorker(c, k) ==
  /\ call[c] = Idle /\ sent[k] + Sending(k) < MaxEvents
  /\ phase \in {"running", "cancelled"}
  /\ IF workers[k] # NoWorker
     THEN /\ call' = [call EXCEPT ![c] = [step |-> "send", w |-> workers[k], kind |-> "install"]]
          /\ UNCHANGED <<workers, key, pc>>
     ELSE \E w \in Workers :
            /\ key[w] = NoKey
            /\ workers' = [workers EXCEPT ![k] = w]
            /\ key' = [key EXCEPT ![w] = k]
            /\ Goto(w, "loop")
            /\ call' = [call EXCEPT ![c] = [step |-> "send", w |-> w, kind |-> "install"]]
  /\ UNCHANGED <<phase, captured, workVars, aliasVars, barrier, sent, table>>

\* ReconcileDelete: only a worker in the map is told.
LookupDelete(c, k) ==
  /\ call[c] = Idle /\ sent[k] + Sending(k) < MaxEvents
  /\ workers[k] # NoWorker
  /\ call' = [call EXCEPT ![c] = [step |-> "send", w |-> workers[k], kind |-> "delete"]]
  /\ UNCHANGED <<mapVars, pc, workVars, aliasVars, barrier, sent, table>>

\* The channel takes the event whether or not its worker still reads it.
Send(c) ==
  LET w == call[c].w
      k == key[w]
  IN  /\ call[c].step = "send" /\ ~Full(w)
      /\ ch' = [ch EXCEPT ![w] = Append(@, call[c].kind)]
      /\ sent' = [sent EXCEPT ![k] = @ + 1]
      /\ call' = [call EXCEPT ![c] = Idle]
      /\ UNCHANGED <<mapVars, pc, closes, ln, pending, aliasVars, barrier, table>>

\* The other case of the select: the call returns "worker stopped".
SendStopped(c) ==
  /\ call[c].step = "send" /\ Stopped(call[c].w)
  /\ call' = [call EXCEPT ![c] = Idle]
  /\ UNCHANGED <<mapVars, pc, workVars, aliasVars, barrier, sent, table>>

-----------------------------------------------------------------------------
(* barrier: the workers of the map are flushed one after the other. *)

BarrierStart ==
  /\ barrier.step = "idle" /\ phase = "running"
  /\ LET ws == {workers[k] : k \in Keys} \ {NoWorker}
     IN  /\ ws # {}
         /\ \E w \in ws : barrier' = [step |-> "send", at |-> w, left |-> ws \ {w},
                                      flushed |-> FALSE]
  /\ UNCHANGED <<mapVars, pc, workVars, aliasVars, call, sent, table>>

\* The next worker, or the return.
BarrierAdvance ==
  IF barrier.left = {} THEN barrier' = NoBarrier
  ELSE \E w \in barrier.left :
         barrier' = [barrier EXCEPT !.step = "send", !.at = w, !.left = @ \ {w}, !.flushed = FALSE]

BarrierSend ==
  /\ barrier.step = "send" /\ ~Full(barrier.at)
  /\ ch' = [ch EXCEPT ![barrier.at] = Append(@, "barrier")]
  /\ barrier' = [barrier EXCEPT !.step = "wait"]
  /\ UNCHANGED <<mapVars, pc, closes, ln, pending, aliasVars, call, sent, table>>

\* The flush came back, or the worker stopped (before or after it took the event).
BarrierNext ==
  /\ \/ barrier.step = "wait" /\ barrier.flushed
     \/ barrier.step # "idle" /\ Stopped(barrier.at)
  /\ BarrierAdvance
  /\ UNCHANGED <<mapVars, pc, workVars, aliasVars, call, sent, table>>

BarrierCancel ==
  /\ barrier.step # "idle" /\ phase # "running"
  /\ barrier' = NoBarrier
  /\ UNCHANGED <<mapVars, pc, workVars, aliasVars, call, sent, table>>

-----------------------------------------------------------------------------
(* The alias manager. *)

\* Ensure: a tracked address is left alone; otherwise ifconfig may fail.
EnsureOK(v) ==
  \/ v \in aliased /\ UNCHANGED aliasVars
  \/ v \notin aliased /\ aliased' = aliased \cup {v} /\ lo0' = lo0 \cup {v}
EnsureFails(v) == v \notin aliased /\ UNCHANGED aliasVars

\* Remove: one -alias, which may fail; the error is only logged by every caller. An
\* address it does not track is still taken off lo0 if it is there.
Remove(v) ==
  \/ aliased' = aliased \ {v} /\ lo0' = lo0 \ {v}
  \/ UNCHANGED aliasVars

-----------------------------------------------------------------------------
(* runWorker. *)

AnswerBarrier ==
  /\ barrier' = [barrier EXCEPT !.flushed = TRUE]
  /\ UNCHANGED <<pc, ln, table>>

\* The port and its endpoints go to the table; its sockets are opened if they are not.
ApplyInstall(w) ==
  /\ table' = table \cup {key[w]}
  /\ Goto(w, IF ln[w] THEN "loop" ELSE "ensure")
  /\ UNCHANGED <<ln, barrier>>

\* The nil port: the sockets are closed first.
ApplyDelete(w) ==
  /\ ln' = [ln EXCEPT ![w] = FALSE]
  /\ Goto(w, IF ln[w] THEN "closing" ELSE "delete")
  /\ UNCHANGED <<table, barrier>>

Apply(w, ev) ==
  \/ ev = "barrier" /\ AnswerBarrier
  \/ ev = "install" /\ ApplyInstall(w)
  \/ ev = "delete" /\ ApplyDelete(w)

Receive(w) ==
  /\ pc[w] = "loop" /\ ch[w] # <<>>
  /\ ch' = [ch EXCEPT ![w] = Tail(@)]
  /\ Apply(w, Head(ch[w]))
  /\ UNCHANGED <<mapVars, closes, pending, aliasVars, call, sent>>

\* The retry timer.
Retry(w) ==
  /\ pc[w] = "loop" /\ pending[w] /\ ~ln[w]
  /\ Goto(w, "ensure")
  /\ UNCHANGED <<mapVars, workVars, aliasVars, callVars, table>>

\* stop was closed: the deferred ln.Close, then the deferred close of done.
SeeStop(w) ==
  /\ pc[w] = "loop" /\ Stopped(w)
  /\ Goto(w, IF ln[w] THEN "exiting" ELSE "done")
  /\ ln' = [ln EXCEPT ![w] = FALSE]
  /\ UNCHANGED <<mapVars, ch, closes, pending, aliasVars, callVars, table>>

\* openListener: the alias first.
OpenEnsure(w) ==
  /\ pc[w] = "ensure"
  /\ \/ EnsureOK(VIP[key[w]]) /\ Goto(w, "bind") /\ UNCHANGED pending
     \/ /\ EnsureFails(VIP[key[w]])
        /\ pending' = [pending EXCEPT ![w] = TRUE]
        /\ Goto(w, "loop")
  /\ UNCHANGED <<mapVars, ch, closes, ln, callVars, table>>

\* The ClusterIP socket is bound to the VIP itself, so the bind works only while the
\* VIP is on lo0.
OpenBind(w) ==
  /\ pc[w] = "bind"
  /\ \/ /\ VIP[key[w]] \in lo0
        /\ ln' = [ln EXCEPT ![w] = TRUE]
        /\ IF key[w] \in NodePortKeys THEN Goto(w, "nodePort") /\ UNCHANGED pending
           ELSE Goto(w, "loop") /\ pending' = [pending EXCEPT ![w] = FALSE]
     \/ Goto(w, "undo") /\ UNCHANGED <<ln, pending>>
  /\ UNCHANGED <<mapVars, ch, closes, aliasVars, callVars, table>>

OpenNodePort(w) ==
  /\ pc[w] = "nodePort"
  /\ \/ Goto(w, "loop") /\ pending' = [pending EXCEPT ![w] = FALSE] /\ UNCHANGED ln
     \/ Goto(w, "undo") /\ ln' = [ln EXCEPT ![w] = FALSE] /\ UNCHANGED pending
  /\ UNCHANGED <<mapVars, ch, closes, aliasVars, callVars, table>>

\* Mutant of OpenUndo: the failed open is left to the next event.
OpenUndoNoRetry(w) ==
  /\ pc[w] = "undo"
  /\ Remove(VIP[key[w]])
  /\ Goto(w, "loop")
  /\ UNCHANGED <<mapVars, ch, closes, pending, ln, callVars, table>>

\* A failed bind takes the alias back; the retry timer is armed.
OpenUndo(w) ==
  /\ pc[w] = "undo"
  /\ Remove(VIP[key[w]])
  /\ pending' = [pending EXCEPT ![w] = TRUE]
  /\ Goto(w, "loop")
  /\ UNCHANGED <<mapVars, ch, closes, ln, callVars, table>>

\* The end of listener.Close, on a delete and on the exit.
CloseAlias(w) ==
  /\ pc[w] \in {"closing", "exiting"}
  /\ Remove(VIP[key[w]])
  /\ Goto(w, IF pc[w] = "closing" THEN "delete" ELSE "done")
  /\ UNCHANGED <<mapVars, workVars, callVars, table>>

TableDelete(w) ==
  /\ pc[w] = "delete"
  /\ table' = table \ {key[w]}
  /\ Goto(w, "remove")
  /\ UNCHANGED <<mapVars, workVars, aliasVars, callVars>>

\* Mutant of RemoveWorker: stop is never closed.
RemoveWorkerNoStop(w) ==
  /\ pc[w] = "remove"
  /\ workers' = [k \in Keys |-> IF workers[k] = w THEN NoWorker ELSE workers[k]]
  /\ Goto(w, "done")
  /\ UNCHANGED <<phase, captured, key, workVars, aliasVars, callVars, table>>

\* removeWorker: compare-and-delete; stop is closed only by the one that removed it.
RemoveWorker(w) ==
  /\ pc[w] = "remove"
  /\ IF workers[key[w]] = w
     THEN workers' = [workers EXCEPT ![key[w]] = NoWorker] /\ Goto(w, "stop")
     ELSE UNCHANGED workers /\ Goto(w, "done")
  /\ UNCHANGED <<phase, captured, key, workVars, aliasVars, callVars, table>>

CloseStop(w) ==
  /\ pc[w] = "stop"
  /\ closes' = [closes EXCEPT ![w] = @ + 1]
  /\ Goto(w, "done")
  /\ UNCHANGED <<mapVars, ch, ln, pending, aliasVars, callVars, table>>

-----------------------------------------------------------------------------
(* Run and shutdown. *)

Cancel ==
  /\ phase = "running"
  /\ phase' = "cancelled"
  /\ UNCHANGED <<workers, captured, key, pc, workVars, aliasVars, callVars, table>>

ShutdownCapture ==
  /\ phase = "cancelled"
  /\ captured' = {workers[k] : k \in Keys} \ {NoWorker}
  /\ workers' = [k \in Keys |-> NoWorker]
  /\ phase' = "stopping"
  /\ UNCHANGED <<key, pc, workVars, aliasVars, callVars, table>>

\* Mutant of ShutdownStop: it does not wait for the workers.
ShutdownStopNoWait ==
  /\ phase = "stopping"
  /\ closes' = [w \in Workers |-> IF w \in captured THEN closes[w] + 1 ELSE closes[w]]
  /\ phase' = "done"
  /\ UNCHANGED <<workers, captured, key, pc, ch, ln, pending, aliasVars, callVars, table>>

\* The closes need no lock and no order: nothing else closes the stop of a captured worker.
ShutdownStop ==
  /\ phase = "stopping"
  /\ closes' = [w \in Workers |-> IF w \in captured THEN closes[w] + 1 ELSE closes[w]]
  /\ phase' = "waiting"
  /\ UNCHANGED <<workers, captured, key, pc, ch, ln, pending, aliasVars, callVars, table>>

ShutdownDone ==
  /\ phase = "waiting" /\ \A w \in captured : pc[w] = "done"
  /\ phase' = "done"
  /\ UNCHANGED <<workers, captured, key, pc, workVars, aliasVars, callVars, table>>

-----------------------------------------------------------------------------
Init ==
  /\ workers = [k \in Keys |-> NoWorker]
  /\ phase = "running" /\ captured = {}
  /\ key = [w \in Workers |-> NoKey] /\ pc = [w \in Workers |-> "none"]
  /\ ch = [w \in Workers |-> <<>>] /\ closes = [w \in Workers |-> 0]
  /\ ln = [w \in Workers |-> FALSE] /\ pending = [w \in Workers |-> FALSE]
  /\ table = {} /\ sent = [k \in Keys |-> 0]
  /\ aliased = {} /\ lo0 \in SUBSET VIPs
  /\ call = [c \in Callers |-> Idle] /\ barrier = NoBarrier

Work(w) ==
  \/ Receive(w) \/ Retry(w) \/ SeeStop(w)
  \/ OpenEnsure(w) \/ OpenBind(w) \/ OpenNodePort(w) \/ OpenUndo(w)
  \/ CloseAlias(w) \/ TableDelete(w) \/ RemoveWorker(w) \/ CloseStop(w)

Shutdown == ShutdownCapture \/ ShutdownStop \/ ShutdownDone
Barrier == BarrierSend \/ BarrierNext \/ BarrierCancel

Next ==
  \/ \E c \in Callers, k \in Keys : LookupWorker(c, k) \/ LookupDelete(c, k)
  \/ \E c \in Callers : Send(c) \/ SendStopped(c)
  \/ BarrierStart \/ Barrier
  \/ \E w \in Workers : Work(w)
  \/ Cancel \/ Shutdown

Spec == Init /\ [][Next]_vars

\* A goroutine that can step does (every command runs under a timeout). Go's select
\* takes a ready case at random, so a channel that is ready at the loop again and
\* again is read; a sender blocked on a channel is queued, and gets its turn.
Fairness ==
  /\ \A w \in Workers : WF_vars(Work(w)) /\ SF_vars(Receive(w)) /\ SF_vars(SeeStop(w))
  /\ \A c \in Callers : SF_vars(Send(c) \/ SendStopped(c))
  /\ WF_vars(Barrier) /\ SF_vars(BarrierSend) /\ WF_vars(Shutdown)

FairSpec == Spec /\ Fairness

-----------------------------------------------------------------------------
(* Properties. *)

Touches(w) == pc[w] \notin {"none", "stop", "done"}

\* Two workers never own the sockets of one key at the same time: a fresh worker is
\* started (worker) only when the old one has closed everything (runWorker).
SingleOwner ==
  \A v, w \in Workers : Touches(v) /\ Touches(w) /\ key[v] = key[w] => v = w

\* removeWorker and shutdown never close the same stop channel twice, which would panic.
StopClosedOnce == \A w \in Workers : closes[w] <= 1

\* An open ClusterIP socket has its VIP on lo0, so that it can be reached.
VipOnLo0 == \A w \in Workers : ln[w] => VIP[key[w]] \in lo0

\* An installed port is served or its retry is armed: no failed open, update or earlier
\* retry leaves a worker with a routing entry, no socket and nothing that would open it.
ServedOrRetried ==
  \A w \in Workers : pc[w] = "loop" /\ key[w] \in table => ln[w] \/ pending[w]

\* When shutdown has returned, every socket any worker opened is closed.
ShutdownReleases == phase = "done" => \A w \in Workers : ~ln[w] /\ ~Touches(w)

\* A caller blocked in its send, or in the barrier, always returns: the worker reads the
\* channel, or its stop is closed.
CallerReturns ==
  /\ \A c \in Callers : call[c].step = "send" ~> call[c].step = "idle"
  /\ barrier.step # "idle" ~> barrier.step = "idle"

=============================================================================
