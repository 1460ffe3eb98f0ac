---------------------------- MODULE ProxyProofs -----------------------------
(***************************************************************************)
(* The safety of the proxy's listeners: the workers that serve the         *)
(* Services' ports, and the relays to the pods.                            *)
(*                                                                         *)
(* The workers, for any number of keys, workers and callers and any        *)
(* channel capacity: one worker at a time owns a key, stop is closed once, *)
(* an installed port is served or retried, and shutdown leaves no socket   *)
(* behind. None of these is inductive by itself. Ownership rests on where  *)
(* a worker that touches a key can be found (Owned): in the map, or among  *)
(* those the shutdown captured when it emptied the map. The count of       *)
(* closes rests on who may still close a stop (StopOwner), and the served  *)
(* ports on a table that has no entry for a key nobody owns (TableOwned).  *)
(*                                                                         *)
(* The pod relays, for any number of pods, leases, ports and writes. The   *)
(* writer and the reconcile goroutine work on two generations of the table *)
(* at once. What keeps them apart is the comparison of tgen under the      *)
(* lock, and the argument is about generations: a relay object outside the *)
(* map is older than the generation a pass may still install from (Out),   *)
(* so that a new relay never takes its name, and one inside it that is of  *)
(* that generation is what the generation asks for (In). Every open object *)
(* outside the map is on the list of the party that is to close it         *)
(* (Accounted).                                                            *)
(***************************************************************************)
EXTENDS ProxyWorker, PodRelay, TLAPS

-----------------------------------------------------------------------------
(* The workers. *)

Up == {"running", "cancelled"}

\* A worker has a key from its start on, and callers hold workers that were started.
Started ==
  /\ \A w \in Workers : key[w] = NoKey <=> pc[w] = "none"
  /\ \A c \in Callers : call[c].step = "send" => call[c].w \in Workers /\ key[call[c].w] \in Keys
  /\ barrier.step # "idle" => barrier.at \in Workers

\* A worker in the map works on the key it is mapped from, and its stop is open.
MapOwns ==
  \A k \in Keys : workers[k] # NoWorker =>
    /\ key[workers[k]] = k /\ closes[workers[k]] = 0 /\ workers[k] \notin captured
    /\ Touches(workers[k]) /\ pc[workers[k]] # "exiting"

\* A worker that touches a key is in the map, or was captured.
Owned == \A w \in Workers : Touches(w) => w \in captured \/ workers[key[w]] = w

\* The map empties in the step that captures, and one worker is captured per key.
Captured ==
  /\ phase \in Up => captured = {}
  /\ phase \notin Up => \A k \in Keys : workers[k] = NoWorker
  /\ \A v, w \in captured : key[v] = key[w] => v = w

\* removeWorker closes what it took out of the map, shutdown what it captured.
StopOwner ==
  /\ \A w \in captured : closes[w] = IF phase = "stopping" THEN 0 ELSE 1
  /\ \A w \in Workers : pc[w] = "stop" => closes[w] = 0 /\ w \notin captured
  /\ \A w \in Workers \ captured : closes[w] = 0 \/ (closes[w] = 1 /\ pc[w] = "done")

\* A key that nobody owns, or whose worker is about to leave, is not in the table.
TableOwned ==
  /\ \A k \in Keys : phase \in Up /\ workers[k] = NoWorker => k \notin table
  /\ \A w \in Workers : pc[w] = "remove" => key[w] \notin table

\* Sockets are held in the loop and while the NodePort is opened.
Sockets ==
  \A w \in Workers :
    /\ ln[w] => pc[w] \in {"loop", "nodePort"}
    /\ pc[w] = "nodePort" => ln[w]

Waited == phase = "done" => \A w \in captured : pc[w] = "done"

IInv ==
  /\ TypeOK /\ Started /\ MapOwns /\ Owned /\ Captured /\ StopOwner /\ TableOwned
  /\ Sockets /\ ServedOrRetried /\ Waited

-----------------------------------------------------------------------------
\* An event sent to a worker whose channel is not full leaves no channel overfull.
LEMMA Queued ==
  ASSUME NEW q \in [Workers -> Seq(Events)], \A v \in Workers : Len(q[v]) <= Cap, Cap \in Nat,
         NEW w \in Workers, Len(q[w]) # Cap, NEW e \in Events
  PROVE  LET r == [q EXCEPT ![w] = Append(@, e)]
         IN  r \in [Workers -> Seq(Events)] /\ \A v \in Workers : Len(r[v]) <= Cap
OBVIOUS

LEMMA CountedUp ==
  ASSUME NEW n \in [Keys -> Nat], NEW k \in Keys
  PROVE  [n EXCEPT ![k] = @ + 1] \in [Keys -> Nat]
OBVIOUS

LEMMA Initial == Init => IInv
BY WorkerAssumption
   DEF Init, IInv, TypeOK, Started, MapOwns, Owned, Captured, StopOwner,
       TableOwned, Sockets, ServedOrRetried, Waited, Touches, Up, VIPs, Idle, NoBarrier,
       Steps, Opening, Deleting, Events

\* A key has one owner: in the map there is one, and no other was captured with it.
LEMMA OneOwner == IInv => SingleOwner
<1>. SUFFICES ASSUME IInv, NEW v \in Workers, NEW w \in Workers, 
                     Touches(v), Touches(w), key[v] = key[w]
              PROVE  v = w
  BY Zenon DEF SingleOwner
<1>. key[v] \in Keys /\ key[w] \in Keys
  BY DEF IInv, TypeOK, Started, Touches
<1>1. CASE captured = {}
  BY <1>1, Zenon DEF IInv, Owned
<1>2. CASE captured # {}
  <2>1. workers[key[v]] = NoWorker /\ workers[key[w]] = NoWorker
    BY <1>2, Zenon DEF IInv, Captured
  <2>. QED  BY <2>1, WorkerAssumption, Zenon DEF IInv, Owned, Captured
<1>. QED  BY <1>1, <1>2, Zenon

\* A worker that goes on with its work disturbs neither the ownership nor the stops.
LEMMA StaysAtWork ==
  ASSUME IInv, TypeOK', NEW w \in Workers, Touches(w), UNCHANGED <<mapVars, closes, call>>,
         NEW s \in Steps \ {"none", "stop", "exiting", "done"}, pc' = [pc EXCEPT ![w] = s],
         barrier'.step = barrier.step, barrier'.at = barrier.at
  PROVE  (Started /\ MapOwns /\ Owned /\ Captured /\ StopOwner /\ Waited)'
<1>. USE DEF IInv, TypeOK, mapVars
<1>1. Started'
  BY Zenon DEF Started, Touches
<1>2. (MapOwns /\ Owned /\ Captured)'
  BY DEF MapOwns, Owned, Captured, Touches, Up
<1>3. (StopOwner /\ Waited)'
  BY DEF StopOwner, Waited, Touches
<1>. QED  BY <1>1, <1>2, <1>3, Zenon

\* Every step of a worker preserves the invariant (runWorker).
LEMMA WorkSteps ==
  ASSUME IInv, NEW w \in Workers, Work(w)
  PROVE  IInv'
<1>. USE WorkerAssumption DEF Goto, mapVars, workVars, aliasVars, callVars
<1>0. /\ TypeOK /\ Started /\ Owned /\ TableOwned /\ Sockets /\ ServedOrRetried /\ SingleOwner
      /\ key[w] \in Keys /\ VIP[key[w]] \in VIPs
  <2>1. pc[w] # "none"
    BY Zenon DEF Work, Receive, Retry, SeeStop, OpenEnsure, OpenBind, OpenNodePort, OpenUndo,
           CloseAlias, TableDelete, RemoveWorker, CloseStop
  <2>. QED  BY <2>1, OneOwner, SMTT(20) DEF IInv, TypeOK, Started
<1>1. CASE Receive(w)
  <2>1. CASE Head(ch[w]) = "barrier" /\ AnswerBarrier
    <3>0. /\ pc' = [pc EXCEPT ![w] = "loop"]
          /\ barrier' \in [step : {"idle", "send", "wait"}, at : Workers \cup {NoWorker},
                           left : SUBSET Workers, flushed : BOOLEAN]
          /\ barrier'.step = barrier.step /\ barrier'.at = barrier.at
      BY <1>0, <1>1, <2>1, Zenon DEF TypeOK, Receive, AnswerBarrier
    <3>1. TypeOK'
      <4>1. ch' \in [Workers -> Seq(Events)] /\ \A v \in Workers : Len(ch'[v]) <= Cap
        BY <1>0, <1>1 DEF TypeOK, Receive
      <4>. QED  BY <1>0, <1>1, <2>1, <3>0, <4>1, ZenonT(40)
                   DEF TypeOK, Steps, Receive, AnswerBarrier
    <3>2. (Started /\ MapOwns /\ Owned /\ Captured /\ StopOwner /\ Waited)'
      BY <1>1, <2>1, <3>0, <3>1, StaysAtWork, Zenon
         DEF Touches, Steps, Opening, Deleting, Receive, AnswerBarrier
    <3>3. (TableOwned /\ Sockets)'
      BY <1>0, <1>1, <2>1, <3>1, Zenon DEF TypeOK, TableOwned, Sockets, Receive, AnswerBarrier
    <3>4. ServedOrRetried'
      BY <1>0, <1>1, <2>1, <3>1, Zenon DEF TypeOK, ServedOrRetried, Receive, AnswerBarrier
    <3>. QED  BY <3>1, <3>2, <3>3, <3>4, Zenon DEF IInv
  <2>2. CASE Head(ch[w]) = "install" /\ ApplyInstall(w)
    <3>1. TypeOK'
      BY <1>0, <1>1, <2>2, SMTT(20)
         DEF TypeOK, Steps, Opening, Deleting, Receive, ApplyInstall, Events
    <3>2. (Started /\ MapOwns /\ Owned /\ Captured /\ StopOwner /\ Waited)'
      BY <1>1, <2>2, <3>1, StaysAtWork, Zenon
         DEF Touches, Steps, Opening, Deleting, Receive, ApplyInstall
    <3>3. (TableOwned /\ Sockets)'
      <4>1. w \in captured \/ workers[key[w]] = w
        BY <1>0, <1>1, Zenon DEF Owned, Touches, Receive
      <4>2. TableOwned'
        BY <1>0, <1>1, <2>2, <3>2, <4>1, ZenonT(40)
           DEF TypeOK, TableOwned, SingleOwner, Touches, Captured, Receive, ApplyInstall
      <4>3. Sockets'
        BY <1>0, <1>1, <2>2, ZenonT(40) DEF TypeOK, Sockets, Receive, ApplyInstall
      <4>. QED  BY <4>2, <4>3, Zenon
    <3>4. ServedOrRetried'
      BY <1>0, <1>1, <2>2, <3>1, ZenonT(40)
         DEF TypeOK, ServedOrRetried, SingleOwner, Touches, Receive, ApplyInstall
    <3>. QED  BY <3>1, <3>2, <3>3, <3>4 DEF IInv
  <2>3. CASE Head(ch[w]) = "delete" /\ ApplyDelete(w)
    <3>1. TypeOK'
      BY <1>0, <1>1, <2>3, SMTT(20)
         DEF TypeOK, Steps, Opening, Deleting, Receive, ApplyDelete, Events
    <3>2. (Started /\ MapOwns /\ Owned /\ Captured /\ StopOwner /\ Waited)'
      BY <1>1, <2>3, <3>1, StaysAtWork, Zenon
         DEF Touches, Steps, Opening, Deleting, Receive, ApplyDelete
    <3>3. (TableOwned /\ Sockets)'
      BY <1>0, <1>1, <2>3, <3>1, SMTT(20) DEF TypeOK, TableOwned, Sockets, Receive, ApplyDelete
    <3>4. ServedOrRetried'
      BY <1>0, <1>1, <2>3, <3>1, SMTT(20) DEF TypeOK, ServedOrRetried, Receive, ApplyDelete
    <3>. QED  BY <3>1, <3>2, <3>3, <3>4 DEF IInv
  <2>. QED  BY <1>1, <2>1, <2>2, <2>3, Zenon DEF Receive, Apply, ApplyDelete, Events
<1>2. CASE Retry(w)
  <2>1. TypeOK'
    BY <1>0, <1>2, ZenonT(40) DEF TypeOK, Steps, Opening, Deleting, Retry
  <2>2. (Started /\ MapOwns /\ Owned /\ Captured /\ StopOwner /\ Waited)'
    BY <1>2, <2>1, StaysAtWork, Zenon DEF Touches, Steps, Opening, Deleting, Retry
  <2>3. (TableOwned /\ Sockets /\ ServedOrRetried)'
    BY <1>0, <1>2, <2>1 DEF TypeOK, TableOwned, Sockets, ServedOrRetried, Retry
  <2>. QED  BY <2>2, <2>1, <2>3, Zenon DEF IInv
<1>3. CASE SeeStop(w)
  <2>1. TypeOK'
    BY <1>0, <1>3, ZenonT(40) DEF TypeOK, Steps, Opening, Deleting, SeeStop, Stopped
  <2>2. (Started /\ MapOwns /\ Owned /\ Captured)'
    BY <1>0, <1>3, <2>1, SMTT(20)
      DEF IInv, TypeOK, Started, MapOwns, Owned, Captured, StopOwner, Touches, Up, SeeStop,
           Stopped
  <2>3. (StopOwner /\ Waited)'
    BY <1>0, <1>3, <2>1, SMTT(20) DEF IInv, TypeOK, MapOwns, StopOwner, Waited, SeeStop, Stopped
  <2>4. (TableOwned /\ Sockets /\ ServedOrRetried)'
    BY <1>0, <1>3, <2>1, SMTT(20)
       DEF TypeOK, TableOwned, Sockets, ServedOrRetried, SeeStop, Stopped
  <2>. QED  BY <2>1, <2>2, <2>3, <2>4, Zenon DEF IInv
<1>4. CASE OpenEnsure(w)
  <2>1. CASE EnsureOK(VIP[key[w]]) /\ pc' = [pc EXCEPT ![w] = "bind"] /\ UNCHANGED pending
    <3>1. TypeOK'
      BY <1>0, <1>4, <2>1, ZenonT(40)
         DEF TypeOK, Steps, Opening, Deleting, OpenEnsure, EnsureOK, EnsureFails
    <3>2. (Started /\ MapOwns /\ Owned /\ Captured /\ StopOwner /\ Waited)'
      BY <1>4, <2>1, <3>1, StaysAtWork, ZenonT(40)
         DEF Touches, Steps, Opening, Deleting, OpenEnsure, EnsureOK, EnsureFails
    <3>3. (TableOwned /\ Sockets)'
      BY <1>0, <1>4, <2>1, <3>1, SMTT(20) DEF TypeOK, TableOwned, Sockets, OpenEnsure
    <3>4. ServedOrRetried'
      BY <1>0, <1>4, <2>1, <3>1, ZenonT(40) DEF TypeOK, ServedOrRetried, OpenEnsure
    <3>. QED  BY <3>1, <3>2, <3>3, <3>4 DEF IInv
  <2>2. CASE /\ EnsureFails(VIP[key[w]])
             /\ pending' = [pending EXCEPT ![w] = TRUE]
             /\ pc' = [pc EXCEPT ![w] = "loop"]
    <3>1. TypeOK'
      BY <1>0, <1>4, <2>2, Zenon
         DEF TypeOK, Steps, Opening, Deleting, OpenEnsure, EnsureOK, EnsureFails
    <3>2. (Started /\ MapOwns /\ Owned /\ Captured /\ StopOwner /\ Waited)'
      BY <1>4, <2>2, <3>1, StaysAtWork, ZenonT(40)
         DEF Touches, Steps, Opening, Deleting, OpenEnsure, EnsureOK, EnsureFails
    <3>3. (TableOwned /\ Sockets)'
      BY <1>0, <1>4, <2>2, <3>1, SMTT(20) DEF TypeOK, TableOwned, Sockets, OpenEnsure
    <3>4. ServedOrRetried'
      BY <1>0, <1>4, <2>2, <3>1, ZenonT(40) DEF TypeOK, ServedOrRetried, OpenEnsure
    <3>. QED  BY <3>1, <3>2, <3>3, <3>4 DEF IInv
  <2>. QED  BY <1>4, <2>1, <2>2, Zenon DEF OpenEnsure
<1>5. CASE OpenBind(w)
  <2>1. CASE UNCHANGED <<ln, pending>> /\ pc' = [pc EXCEPT ![w] = "undo"]
    <3>1. TypeOK'
      BY <1>0, <1>5, <2>1, Zenon DEF TypeOK, Steps, Opening, Deleting, OpenBind
    <3>2. (Started /\ MapOwns /\ Owned /\ Captured /\ StopOwner /\ Waited)'
      BY <1>5, <2>1, <3>1, StaysAtWork, Zenon DEF Touches, Steps, Opening, Deleting, OpenBind
    <3>3. (TableOwned /\ Sockets)'
      BY <1>0, <1>5, <2>1, <3>1, ZenonT(40) DEF TypeOK, TableOwned, Sockets, OpenBind
    <3>4. ServedOrRetried'
      BY <1>0, <1>5, <2>1, <3>1, ZenonT(40) DEF TypeOK, ServedOrRetried, OpenBind
    <3>. QED  BY <3>1, <3>2, <3>3, <3>4 DEF IInv
  <2>2. CASE /\ key[w] \in NodePortKeys
             /\ ln' = [ln EXCEPT ![w] = TRUE]
             /\ pc' = [pc EXCEPT ![w] = "nodePort"]
             /\ UNCHANGED pending
    <3>1. TypeOK'
      BY <1>0, <1>5, <2>2, Zenon DEF TypeOK, Steps, Opening, Deleting, OpenBind
    <3>2. (Started /\ MapOwns /\ Owned /\ Captured /\ StopOwner /\ Waited)'
      BY <1>5, <2>2, <3>1, StaysAtWork, ZenonT(40) DEF Touches, Steps, Opening, Deleting, OpenBind
    <3>3. (TableOwned /\ Sockets)'
      BY <1>0, <1>5, <2>2, <3>1, SMTT(20) DEF TypeOK, TableOwned, Sockets, OpenBind
    <3>4. ServedOrRetried'
      BY <1>0, <1>5, <2>2, <3>1 DEF TypeOK, ServedOrRetried, OpenBind
    <3>. QED  BY <3>1, <3>2, <3>3, <3>4 DEF IInv
  <2>3. CASE /\ ln' = [ln EXCEPT ![w] = TRUE]
             /\ pc' = [pc EXCEPT ![w] = "loop"]
             /\ pending' = [pending EXCEPT ![w] = FALSE]
    <3>1. TypeOK'
      BY <1>0, <1>5, <2>3, ZenonT(40) DEF TypeOK, Steps, Opening, Deleting, OpenBind
    <3>2. (Started /\ MapOwns /\ Owned /\ Captured /\ StopOwner /\ Waited)'
      BY <1>5, <2>3, <3>1, StaysAtWork, Zenon DEF Touches, Steps, Opening, Deleting, OpenBind
    <3>3. (TableOwned /\ Sockets)'
      BY <1>0, <1>5, <2>3, <3>1, SMTT(20) DEF TypeOK, TableOwned, Sockets, OpenBind
    <3>4. ServedOrRetried'
      BY <1>0, <1>5, <2>3, <3>1 DEF TypeOK, ServedOrRetried, OpenBind
    <3>. QED  BY <3>1, <3>2, <3>3, <3>4 DEF IInv
  <2>. QED  BY <1>5, <2>1, <2>2, <2>3, Zenon DEF OpenBind
<1>6. CASE OpenNodePort(w)
  <2>1. CASE /\ pc' = [pc EXCEPT ![w] = "loop"]
             /\ pending' = [pending EXCEPT ![w] = FALSE]
             /\ UNCHANGED ln
    <3>1. TypeOK'
      BY <1>0, <1>6, <2>1, ZenonT(40) DEF TypeOK, Steps, Opening, Deleting, OpenNodePort
    <3>2. (Started /\ MapOwns /\ Owned /\ Captured /\ StopOwner /\ Waited)'
      BY <1>6, <2>1, <3>1, StaysAtWork, Zenon DEF Touches, Steps, Opening, Deleting, OpenNodePort
    <3>3. (TableOwned /\ Sockets)'
      BY <1>0, <1>6, <2>1, <3>1 DEF TypeOK, TableOwned, Sockets, OpenNodePort
    <3>4. ServedOrRetried'
      <4>1. ln[w]
        BY <1>0, <1>6, Zenon DEF Sockets, OpenNodePort
      <4>. QED  BY <1>0, <1>6, <2>1, <4>1, ZenonT(40) DEF TypeOK, ServedOrRetried, OpenNodePort
    <3>. QED  BY <3>1, <3>2, <3>3, <3>4 DEF IInv
  <2>2. CASE /\ pc' = [pc EXCEPT ![w] = "undo"]
             /\ ln' = [ln EXCEPT ![w] = FALSE]
             /\ UNCHANGED pending
    <3>1. TypeOK'
      BY <1>0, <1>6, <2>2, Zenon DEF TypeOK, Steps, Opening, Deleting, OpenNodePort
    <3>2. (Started /\ MapOwns /\ Owned /\ Captured /\ StopOwner /\ Waited)'
      BY <1>6, <2>2, <3>1, StaysAtWork, ZenonT(40)
         DEF Touches, Steps, Opening, Deleting, OpenNodePort
    <3>3. (TableOwned /\ Sockets)'
      BY <1>0, <1>6, <2>2, <3>1, SMTT(20) DEF TypeOK, TableOwned, Sockets, OpenNodePort
    <3>4. ServedOrRetried'
      BY <1>0, <1>6, <2>2, <3>1 DEF TypeOK, ServedOrRetried, Sockets, OpenNodePort
    <3>. QED  BY <3>1, <3>2, <3>3, <3>4 DEF IInv
  <2>. QED  BY <1>6, <2>1, <2>2, Zenon DEF OpenNodePort
<1>7. CASE OpenUndo(w)
  <2>1. TypeOK'
    BY <1>0, <1>7, ZenonT(40) DEF TypeOK, Steps, Opening, Deleting, OpenUndo, Remove
  <2>2. (Started /\ MapOwns /\ Owned /\ Captured /\ StopOwner /\ Waited)'
    BY <1>7, <2>1, StaysAtWork, Zenon DEF Touches, Steps, Opening, Deleting, OpenUndo, Remove
  <2>3. (TableOwned /\ Sockets /\ ServedOrRetried)'
    BY <1>0, <1>7, <2>1 DEF TypeOK, TableOwned, Sockets, ServedOrRetried, OpenUndo, Remove
  <2>. QED  BY <2>2, <2>1, <2>3 DEF IInv
<1>8. CASE CloseAlias(w)
  <2>1. TypeOK'
    BY <1>0, <1>8, SMTT(20) DEF TypeOK, Steps, Opening, Deleting, CloseAlias, Remove
  <2>2. (Started /\ MapOwns /\ Owned /\ Captured)'
    BY <1>0, <1>8, <2>1, SMTT(20)
      DEF IInv, TypeOK, Started, MapOwns, Owned, Captured, StopOwner, Touches, Up, CloseAlias,
           Remove
  <2>3. (StopOwner /\ Waited)'
    BY <1>0, <1>8, <2>1, SMTT(20) DEF IInv, TypeOK, MapOwns, StopOwner, Waited, CloseAlias, Remove
  <2>4. (TableOwned /\ Sockets /\ ServedOrRetried)'
    BY <1>0, <1>8, <2>1, ZenonT(40)
       DEF TypeOK, TableOwned, Sockets, ServedOrRetried, CloseAlias, Remove
  <2>. QED  BY <2>1, <2>2, <2>3, <2>4, SMTT(20) DEF IInv
<1>9. CASE TableDelete(w)
  <2>1. TypeOK'
    BY <1>0, <1>9, Zenon DEF TypeOK, Steps, Opening, Deleting, TableDelete
  <2>2. (Started /\ MapOwns /\ Owned /\ Captured /\ StopOwner /\ Waited)'
    BY <1>9, <2>1, StaysAtWork, Zenon DEF Touches, Steps, Opening, Deleting, TableDelete
  <2>3. (TableOwned /\ Sockets /\ ServedOrRetried)'
    BY <1>0, <1>9, <2>1, ZenonT(40) DEF TypeOK, TableOwned, Sockets, ServedOrRetried, TableDelete
  <2>. QED  BY <2>2, <2>1, <2>3 DEF IInv
<1>10. CASE RemoveWorker(w)
  <2>1. TypeOK'
    BY <1>0, <1>10, ZenonT(40) DEF TypeOK, Steps, Opening, Deleting, RemoveWorker
  <2>2. (Started /\ MapOwns /\ Owned /\ Captured)'
    <3>1. CASE workers[key[w]] = w
      <4>1. /\ workers' = [workers EXCEPT ![key[w]] = NoWorker] /\ pc' = [pc EXCEPT ![w] = "stop"]
            /\ UNCHANGED <<phase, captured, key, closes, call, barrier>>
        BY <1>10, <3>1, ZenonT(40) DEF RemoveWorker
      <4>2. (Started /\ MapOwns)'
        BY <1>0, <1>10, <4>1, SMTT(20) DEF IInv, TypeOK, Started, MapOwns, Touches, RemoveWorker
      <4>3. Owned'
        BY <1>0, <1>10, <4>1 DEF TypeOK, SingleOwner, Started, Owned, Touches, RemoveWorker
      <4>4. Captured'
        BY <1>0, <4>1, ZenonT(40) DEF IInv, TypeOK, Captured
      <4>. QED  BY <4>2, <4>3, <4>4, Zenon
    <3>2. CASE workers[key[w]] # w
      BY <1>0, <1>10, <2>1, <3>2, SMTT(20)
        DEF IInv, TypeOK, Started, MapOwns, Owned, Captured, Touches, Up, RemoveWorker
    <3>. QED  BY <3>1, <3>2, Zenon
  <2>3. (StopOwner /\ Waited)'
    BY <1>0, <1>10, <2>1, SMTT(20) DEF IInv, TypeOK, MapOwns, StopOwner, Waited, RemoveWorker
  <2>4. (TableOwned /\ Sockets /\ ServedOrRetried)'
    <3>1. TableOwned'
      BY <1>0, <1>10 DEF TypeOK, TableOwned, RemoveWorker
    <3>2. Sockets'
      BY <1>0, <1>10, ZenonT(40) DEF TypeOK, Sockets, RemoveWorker
    <3>. QED  BY <1>0, <1>10, <3>1, <3>2, SMTT(20) DEF TypeOK, ServedOrRetried, RemoveWorker
  <2>. QED  BY <2>1, <2>2, <2>3, <2>4 DEF IInv
<1>11. CASE CloseStop(w)
  <2>1. TypeOK'
    BY <1>0, <1>11, SMTT(20) DEF TypeOK, Steps, Opening, Deleting, CloseStop
  <2>0. /\ pc[w] = "stop" /\ pc' = [pc EXCEPT ![w] = "done"] /\ closes' = [closes EXCEPT ![w] = @ + 1]
        /\ UNCHANGED <<phase, captured, key, workers, call, barrier>>
    BY <1>11, Zenon DEF CloseStop, Goto
  <2>5. /\ pc \in [Workers -> Steps] /\ closes \in [Workers -> Nat]
        /\ key \in [Workers -> Keys \cup {NoKey}] /\ workers \in [Keys -> Workers \cup {NoWorker}]
        /\ captured \in SUBSET Workers
    BY <1>0, Zenon DEF TypeOK
  <2>6. closes[w] = 0 /\ w \notin captured /\ (\A k \in Keys : workers[k] # w)
    BY <1>0, <2>0, <2>5 DEF IInv, StopOwner, MapOwns, Touches
  <2>2. (Started /\ MapOwns /\ Owned /\ Captured)'
    <3>1. (Started /\ Captured)'
      BY <1>0, <2>0, <2>5, Zenon DEF IInv, Started, Captured
    <3>2. MapOwns'
      BY <1>0, <2>0, <2>5, <2>6 DEF IInv, MapOwns, Touches
    <3>3. Owned'
      BY <1>0, <2>0, <2>5, <2>6, Zenon DEF IInv, Owned, Touches
    <3>. QED  BY <3>1, <3>2, <3>3, Zenon
  <2>3. (StopOwner /\ Waited)'
    BY <1>0, <2>0, <2>5, <2>6 DEF IInv, StopOwner, Waited
  <2>4. (TableOwned /\ Sockets /\ ServedOrRetried)'
    BY <1>0, <1>11, <2>1, ZenonT(40) DEF TypeOK, TableOwned, Sockets, ServedOrRetried, CloseStop
  <2>. QED  BY <2>1, <2>2, <2>3, <2>4 DEF IInv
<1>. QED  BY <1>1, <1>2, <1>3, <1>4, <1>5, <1>6, <1>7, <1>8, <1>9, <1>10, <1>11, Zenon DEF Work

\* The callers, the barrier and Run start workers and empty the map.
LEMMA CallerSteps ==
  ASSUME IInv, NEW c \in Callers, NEW k \in Keys, LookupWorker(c, k) \/ LookupDelete(c, k)
  PROVE  IInv'
<1>. USE WorkerAssumption DEF Goto, mapVars, workVars, aliasVars, callVars
<1>0. TypeOK /\ Started
  BY Zenon DEF IInv
<1>1. CASE LookupDelete(c, k)
  <2>1. (TypeOK /\ Started)'
    BY <1>0, <1>1, SMTT(20) DEF IInv, TypeOK, Started, MapOwns, LookupDelete
  <2>. QED  BY <1>1, <2>1, ZenonT(40)
               DEF IInv, MapOwns, Owned, Captured, StopOwner, TableOwned, Sockets,
                   ServedOrRetried, Waited, Touches, Up, LookupDelete
<1>2. CASE LookupWorker(c, k) /\ workers[k] # NoWorker
  <2>1. (TypeOK /\ Started)'
    <3>1. /\ call' = [call EXCEPT ![c] = [step |-> "send", w |-> workers[k], kind |-> "install"]]
          /\ UNCHANGED <<mapVars, pc, workVars, aliasVars, barrier, sent, table>>
      BY <1>2, Zenon DEF LookupWorker
    <3>. QED  BY <1>0, <1>2, <3>1, SMTT(20) DEF IInv, TypeOK, Started, MapOwns
  <2>. QED  BY <1>2, <2>1, SMTT(20)
              DEF IInv, MapOwns, Owned, Captured, StopOwner, TableOwned, Sockets,
                   ServedOrRetried, Waited, Touches, Up, LookupWorker
<1>3. CASE LookupWorker(c, k) /\ workers[k] = NoWorker
  <2>1. PICK w \in Workers : 
          /\ key[w] = NoKey /\ workers' = [workers EXCEPT ![k] = w] /\ key' = [key EXCEPT ![w] = k]
          /\ pc' = [pc EXCEPT ![w] = "loop"]
          /\ call' = [call EXCEPT ![c] = [step |-> "send", w |-> w, kind |-> "install"]]
    BY <1>3, Zenon DEF LookupWorker
  <2>2. /\ UNCHANGED <<phase, captured, ch, closes, ln, pending, aliased, lo0, barrier, sent, table>>
        /\ phase \in Up /\ captured = {} /\ k \notin table /\ pc[w] = "none"
    BY <1>0, <1>3, <2>1, Zenon DEF LookupWorker, IInv, Captured, TableOwned, Started, Up
  <2>3. TypeOK'
    BY <1>0, <2>1, <2>2, Zenon DEF TypeOK, Steps
  <2>4. Started'
    BY <1>0, <2>1, <2>2 DEF TypeOK, Started
  <2>5. (MapOwns /\ Owned /\ Captured)'
    <3>1. /\ pc \in [Workers -> Steps] /\ key \in [Workers -> Keys \cup {NoKey}]
          /\ workers \in [Keys -> Workers \cup {NoWorker}]
      BY <1>0, ZenonT(40) DEF TypeOK
    <3>2. (Owned /\ Captured)'
      BY <1>0, <1>3, <2>1, <2>2, <3>1 DEF IInv, Started, Owned, Captured, Touches
    <3>3. closes[w] = 0
      BY <2>2, ZenonT(40) DEF IInv, StopOwner
    <3>4. MapOwns'
      BY <1>0, <1>3, <2>1, <2>2, <3>1, <3>3, SMTT(20) DEF IInv, Started, MapOwns, Touches
    <3>. QED  BY <3>2, <3>4, Zenon
  <2>6. (StopOwner /\ Waited)'
    BY <1>0, <2>1, <2>2, ZenonT(40) DEF IInv, TypeOK, StopOwner, Waited
  <2>7. (TableOwned /\ Sockets /\ ServedOrRetried)'
    BY <1>0, <2>1, <2>2, ZenonT(40) DEF IInv, TypeOK, TableOwned, Sockets, ServedOrRetried
  <2>. QED  BY <2>3, <2>4, <2>5, <2>6, <2>7, Zenon DEF IInv
<1>. QED  BY <1>1, <1>2, <1>3, Zenon

\* Sends and the barrier change the channels, the callers and nothing the workers own.
LEMMA SendSteps ==
  ASSUME IInv, \/ \E c \in Callers : Send(c) \/ SendStopped(c)
               \/ BarrierStart \/ Barrier
  PROVE  IInv'
<1>. USE WorkerAssumption DEF mapVars, workVars, aliasVars, callVars
<1>0. TypeOK /\ Started
  BY Zenon DEF IInv
<1>1. /\ (TypeOK /\ Started)'
      /\ UNCHANGED <<mapVars, pc, closes, ln, pending, table>>
  <2>1. ASSUME NEW c \in Callers, Send(c) \/ SendStopped(c)
        PROVE  /\ (TypeOK /\ Started)' /\ UNCHANGED <<mapVars, pc, closes, ln, pending, table>>
    <3>1. CASE Send(c)
      <4>0. /\ call[c].w \in Workers /\ key[call[c].w] \in Keys /\ call[c].kind \in Events
            /\ Len(ch[call[c].w]) # Cap
        BY <1>0, <3>1, Zenon DEF TypeOK, Started, Send, Full, Events
      <4>1. ch' \in [Workers -> Seq(Events)] /\ \A v \in Workers : Len(ch'[v]) <= Cap
        <5>1. ch' = [ch EXCEPT ![call[c].w] = Append(@, call[c].kind)]
          BY <3>1, Zenon DEF Send
        <5>2. ch \in [Workers -> Seq(Events)] /\ (\A v \in Workers : Len(ch[v]) <= Cap) /\ Cap \in Nat
          BY <1>0, Zenon DEF TypeOK
        <5>. QED  BY <4>0, <5>1, <5>2, Queued, ZenonT(30)
      <4>2. /\ call' = [call EXCEPT ![c] = Idle]
            /\ sent' = [sent EXCEPT ![key[call[c].w]] = @ + 1]
            /\ UNCHANGED <<mapVars, pc, closes, ln, pending, aliasVars, barrier, table>>
        BY <3>1, Zenon DEF Send
      <4>3. sent' \in [Keys -> Nat]
        BY <1>0, <4>0, <4>2, CountedUp, Zenon DEF TypeOK
      <4>. QED  BY <1>0, <4>1, <4>2, <4>3, SMTT(20) DEF TypeOK, Started, Idle
    <3>2. CASE SendStopped(c)
      BY <1>0, <3>2, SMTT(20) DEF TypeOK, Started, SendStopped, Idle
    <3>. QED  BY <2>1, <3>1, <3>2, ZenonT(40)
  <2>2. CASE BarrierStart
    BY <1>0, <2>2, SMTT(20) DEF TypeOK, Started, BarrierStart
  <2>3. CASE BarrierSend
    <3>1. ch' \in [Workers -> Seq(Events)] /\ \A v \in Workers : Len(ch'[v]) <= Cap
      <4>1. barrier.at \in Workers /\ Len(ch[barrier.at]) # Cap /\ "barrier" \in Events
        BY <1>0, <2>3, Zenon DEF Started, BarrierSend, Full, Events
      <4>. QED  BY <1>0, <2>3, <4>1, Queued, Zenon DEF TypeOK, BarrierSend
    <3>. QED  BY <1>0, <2>3, <3>1, Zenon DEF TypeOK, Started, BarrierSend
  <2>4. CASE BarrierNext
    <3>1. barrier' = NoBarrier \/ \E w \in barrier.left :
            barrier' = [barrier EXCEPT !.step = "send", !.at = w, !.left = @ \ {w}, !.flushed = FALSE]
      BY <2>4, Zenon DEF BarrierNext, BarrierAdvance
    <3>2. /\ barrier' \in [step : {"idle", "send", "wait"}, at : Workers \cup {NoWorker},
                           left : SUBSET Workers, flushed : BOOLEAN]
          /\ barrier'.step # "idle" => barrier'.at \in Workers
      <4>1. CASE barrier' = NoBarrier
        BY <4>1, Zenon DEF NoBarrier
      <4>2. ASSUME NEW w \in barrier.left,
                   barrier' = [barrier EXCEPT !.step = "send", !.at = w, !.left = @ \ {w}, !.flushed = FALSE]
            PROVE  /\ barrier' \in [step : {"idle", "send", "wait"}, at : Workers \cup {NoWorker},
                                    left : SUBSET Workers, flushed : BOOLEAN]
                   /\ barrier'.step # "idle" => barrier'.at \in Workers
        BY <1>0, <4>2, Zenon DEF TypeOK
      <4>. QED  BY <3>1, <4>1, <4>2, Zenon
    <3>. QED  BY <1>0, <2>4, <3>2, Zenon DEF TypeOK, Started, BarrierNext
  <2>5. CASE BarrierCancel
    BY <1>0, <2>5, Zenon DEF TypeOK, Started, BarrierCancel, NoBarrier
  <2>. QED  BY <2>1, <2>2, <2>3, <2>4, <2>5, Zenon DEF Barrier
<1>. QED
  BY <1>1, ZenonT(40)
     DEF IInv, MapOwns, Owned, Captured, StopOwner, TableOwned, Sockets, ServedOrRetried,
         Waited, Touches

\* Run is cancelled, and shutdown empties the map, closes the stops and waits.
LEMMA RunSteps ==
  ASSUME IInv, Cancel \/ Shutdown
  PROVE  IInv'
<1>. USE WorkerAssumption DEF workVars, aliasVars, callVars
<1>0. TypeOK
  BY Zenon DEF IInv
<1>1. CASE Cancel
  BY <1>1, ZenonT(40)
     DEF IInv, TypeOK, Started, MapOwns, Owned, Captured, StopOwner, TableOwned, Sockets,
              ServedOrRetried, Waited, Touches, Up, Cancel
<1>2. CASE ShutdownCapture
  <2>1. /\ captured = {} /\ captured' = {workers[k] : k \in Keys} \ {NoWorker}
        /\ workers' = [k \in Keys |-> NoWorker] /\ phase' = "stopping"
        /\ UNCHANGED <<key, pc, workVars, aliasVars, callVars, table>>
    BY <1>2, Zenon DEF IInv, Captured, Up, ShutdownCapture
  <2>2. (TypeOK /\ Started)'
    BY <1>0, <2>1, SMTT(20) DEF IInv, TypeOK, Started
  <2>3. (MapOwns /\ Owned /\ Captured)'
    BY <1>0, <2>1, SMTT(20) DEF IInv, TypeOK, Started, MapOwns, Owned, Captured, Touches, Up
  <2>4. StopOwner'
    BY <1>0, <2>1, SMTT(20) DEF IInv, TypeOK, MapOwns, StopOwner, Touches
  <2>5. (TableOwned /\ Sockets /\ ServedOrRetried /\ Waited)'
    BY <2>1, Zenon DEF IInv, TableOwned, Sockets, ServedOrRetried, Waited, Up
  <2>. QED  BY <2>2, <2>3, <2>4, <2>5, Zenon DEF IInv
<1>3. CASE ShutdownStop
  <2>1. (TypeOK /\ Started /\ MapOwns /\ Owned /\ Captured)'
    BY <1>0, <1>3, SMTT(20)
       DEF IInv, TypeOK, Started, MapOwns, Owned, Captured, Touches, Up, ShutdownStop
  <2>2. (StopOwner /\ TableOwned /\ Sockets /\ ServedOrRetried /\ Waited)'
    BY <1>0, <1>3, SMTT(20)
       DEF IInv, TypeOK, StopOwner, TableOwned, Sockets, ServedOrRetried, Waited, Up,
           ShutdownStop
  <2>. QED  BY <2>1, <2>2, ZenonT(40) DEF IInv
<1>4. CASE ShutdownDone
  BY <1>4, SMTT(20)
     DEF IInv, TypeOK, Started, MapOwns, Owned, Captured, StopOwner, TableOwned, Sockets,
              ServedOrRetried, Waited, Touches, Up, ShutdownDone
<1>. QED  BY <1>1, <1>2, <1>3, <1>4, Zenon DEF Shutdown

\* A step of the whole system is a step of one of them.
LEMMA Preserved == IInv /\ [Next]_vars => IInv'
<1>. SUFFICES ASSUME IInv, [Next]_vars PROVE IInv'
  BY Zenon
<1>1. CASE Next
  BY <1>1, WorkSteps, CallerSteps, SendSteps, RunSteps, ZenonT(40) DEF Next
<1>2. CASE UNCHANGED vars
  BY <1>2, SMTT(20)
     DEF IInv, TypeOK, Started, MapOwns, Owned, Captured, StopOwner, TableOwned, Sockets,
              ServedOrRetried, Waited, Touches, vars, mapVars, workVars, aliasVars, callVars
<1>. QED  BY <1>1, <1>2, Zenon

LEMMA Invariance == Spec => []IInv
BY Initial, Preserved, PTL DEF Spec

\* One worker at a time touches the sockets, the alias and the routing entry of a key,
\* although callers find workers without holding the lock they send under.
THEOREM WorkerOwnership == Spec => []SingleOwner
BY Invariance, OneOwner, PTL

\* removeWorker and shutdown never close one stop channel twice, which would panic.
THEOREM StopOnce == Spec => []StopClosedOnce
<1>1. IInv => StopClosedOnce
  <2>. SUFFICES ASSUME IInv, NEW w \in Workers PROVE closes[w] <= 1
    BY Zenon DEF StopClosedOnce
  <2>1. closes[w] = 0 \/ closes[w] = 1
    BY Zenon DEF IInv, StopOwner
  <2>. QED  BY <2>1
<1>. QED  BY <1>1, Invariance, PTL

\* No failed open leaves a port with a routing entry, no socket and no retry.
THEOREM PortsServed == Spec => []ServedOrRetried
<1>1. IInv => ServedOrRetried
  BY Zenon DEF IInv
<1>. QED  BY <1>1, Invariance, PTL

\* When shutdown returns no worker holds a socket or will touch one again.
THEOREM ShutdownComplete == Spec => []ShutdownReleases
<1>1. IInv => ShutdownReleases
  <2>. SUFFICES ASSUME IInv, phase = "done", NEW w \in Workers
                PROVE  ~ln[w] /\ ~Touches(w)
    BY Zenon DEF ShutdownReleases
  <2>1. Touches(w) => key[w] \in Keys
    BY Zenon DEF IInv, TypeOK, Started, Touches
  <2>2. ~Touches(w)
    BY <2>1, WorkerAssumption, Zenon DEF IInv, Owned, Captured, Waited, Touches, Up
  <2>. QED  BY <2>2, Zenon DEF IInv, Sockets, Touches
<1>. QED  BY <1>1, Invariance, PTL

-----------------------------------------------------------------------------
(* The pod relays. *)

Ports == UNION (Declared \cup SvcPorts)
Ids == Pods \X Nat
Snaps == [gen : Nat, tgen : Nat, transport : [Pods -> Override \cup {None}],
          svc : [Pods -> SvcPorts \cup {{}}]]
Objs == [pub : Pods, gen : Nat, live : Leases \cup {NoLease}, closed : BOOLEAN,
         listeners : SUBSET Ports, conn : {"none", "client", "spliced"}]

RelayTypeOK ==
  /\ snap \in Snaps /\ 1 <= snap.tgen /\ snap.tgen <= snap.gen
  /\ writer \in [pc : {"idle", "retire", "close"}, gone : SUBSET Ids]
  /\ relays \in [Pods -> Nat]
  /\ objs \in SUBSET Objs
  /\ rec \in [pc : {"select", "apply", "close", "bind", "joining", "down"},
              snap : Snaps \cup {[gen |-> 0]}, gone : SUBSET Ids,
              jobs : SUBSET (Pods \X Nat \X Ports), ok : BOOLEAN]

\* A relay object is known by its pod and generation, and a closed one listens nowhere.
Named ==
  /\ \A x, y \in objs : x.pub = y.pub /\ x.gen = y.gen => x = y
  /\ \A x \in objs : 1 <= x.gen /\ x.gen <= snap.gen
  /\ \A x \in objs : x.closed => x.listeners = {}

\* A pass may install what it loaded while the table holds the same overrides.
Installing == rec.pc = "apply" /\ rec.snap.tgen = snap.tgen

\* The generation a pass has loaded.
Loaded ==
  /\ rec.pc = "apply" =>
       /\ rec.snap \in Snaps /\ rec.gone = {}
       /\ rec.snap.gen <= snap.gen /\ rec.snap.tgen <= snap.tgen
       /\ rec.snap.tgen <= rec.snap.gen
       /\ rec.snap.gen = snap.gen => rec.snap = snap
       /\ \A x \in objs : x.gen <= rec.snap.gen
  /\ Installing => rec.snap.transport = snap.transport
  /\ Installing /\ writer.pc = "retire" => rec.snap = snap
  /\ rec.pc \in {"select", "bind"} => rec.gone = {}

\* An object of generation s, in the map, is one that s asks for.
AsOf(s) ==
  \A x \in objs : InMap(x) /\ x.gen = s.gen =>
    x.live = s.transport[x.pub].live /\ Admitted(s, x.pub)
In == AsOf(snap) /\ (rec.pc = "apply" => AsOf(rec.snap))

Out ==
  \A x \in objs : ~InMap(x) /\ rec.pc \notin {"joining", "down"} =>
    x.gen < snap.gen /\ (Installing => x.gen < rec.snap.gen)

Matches ==
  writer.pc # "retire" => \A x \in objs : InMap(x) =>
    snap.transport[x.pub].live = x.live /\ ~Refused(snap, x.pub)

Accounted ==
  \A x \in objs : ~x.closed /\ ~InMap(x) =>
    \/ writer.pc = "close" /\ <<x.pub, x.gen>> \in writer.gone
    \/ <<x.pub, x.gen>> \in rec.gone

Joined == rec.pc = "down" => \A x \in objs : x.listeners = {} /\ x.conn = "none"

RelayInv == RelayTypeOK /\ Named /\ Loaded /\ In /\ Out /\ Matches /\ Accounted /\ Joined

RelaySpec == RelayInit /\ [][RelayNext]_relayVarsP

-----------------------------------------------------------------------------
(* Steps that only touch the sockets of relay objects. *)

\* Every object comes from one with its name and lease, and a closed one stays closed.
Descends ==
  /\ objs' \in SUBSET Objs
  /\ \A x, y \in objs' : x.pub = y.pub /\ x.gen = y.gen => x = y
  /\ \A x \in objs' : x.closed => x.listeners = {}
  /\ \A x \in objs' : \E y \in objs :
       y.pub = x.pub /\ y.gen = x.gen /\ y.live = x.live /\ (y.closed => x.closed)

LEMMA DescendsByName ==
  ASSUME RelayInv, NEW S \in SUBSET objs, NEW f \in [S -> Objs], objs' = {f[o] : o \in S},
         \A o \in S : /\ f[o].pub = o.pub /\ f[o].gen = o.gen /\ f[o].live = o.live
                      /\ o.closed => f[o].closed
                      /\ f[o].closed => f[o].listeners = {}
  PROVE  Descends
<1>1. objs' \in SUBSET Objs
  OBVIOUS
<1>2. ASSUME NEW x \in objs', NEW y \in objs', x.pub = y.pub, x.gen = y.gen PROVE x = y
  <2>1. PICK o \in S : x = f[o]
    BY Zenon
  <2>2. PICK p \in S : y = f[p]
    BY Zenon
  <2>3. o = p
    BY <1>2, <2>1, <2>2 DEF RelayInv, Named
  <2>. QED  BY <2>1, <2>2, <2>3, Zenon
<1>3. ASSUME NEW x \in objs'
      PROVE  /\ x.closed => x.listeners = {}
             /\ \E y \in objs : /\ y.pub = x.pub /\ y.gen = x.gen /\ y.live = x.live
                                /\ y.closed => x.closed
  BY <1>3
<1>. QED  BY <1>1, <1>2, <1>3, Zenon DEF Descends

LEMMA DescendsUnchanged ==
  ASSUME RelayInv, UNCHANGED objs
  PROVE  Descends
BY Zenon DEF RelayInv, RelayTypeOK, Named, Descends

\* What such a step keeps, when the pass it finds goes on or is past its installation.
LEMMA Kept ==
  ASSUME RelayInv, Descends, UNCHANGED <<snap, relays>>,
         rec'.pc = "apply" => rec' = rec,
         rec.pc \in {"joining", "down"} => rec'.pc \in {"joining", "down"},
         rec'.pc \in {"select", "bind"} => rec'.gone = {},
         writer'.pc = "retire" <=> writer.pc = "retire"
  PROVE  Named' /\ Loaded' /\ In' /\ Out' /\ Matches'
<1>1. \A x \in objs' : \E y \in objs :
        y.pub = x.pub /\ y.gen = x.gen /\ y.live = x.live /\ (relays'[x.pub] = x.gen <=> relays[y.pub] = y.gen)
  BY DEF Descends
<1>2. Named'
  BY <1>1 DEF Named, Descends, RelayInv
<1>3. Loaded'
  <2>1. CASE rec'.pc # "apply"
    BY <2>1, Zenon DEF Loaded, Installing
  <2>2. CASE rec'.pc = "apply"
    <3>1. rec' = rec
      BY <2>2, Zenon
    <3>2. \A x \in objs' : x.gen <= rec.snap.gen
      BY <1>1, <2>2, <3>1, Zenon DEF RelayInv, Loaded
    <3>. QED  BY <2>2, <3>1, <3>2, Zenon DEF RelayInv, Loaded, Installing
  <2>. QED  BY <2>1, <2>2, Zenon
<1>4. \A t : AsOf(t) => \A x \in objs' : relays'[x.pub] = x.gen /\ x.gen = t.gen =>
               x.live = t.transport[x.pub].live /\ Admitted(t, x.pub)
  BY <1>1 DEF AsOf, InMap
<1>5. In'
  <2>1. AsOf(snap)'
    BY <1>4, Zenon DEF RelayInv, In, AsOf, InMap
  <2>2. rec'.pc = "apply" => AsOf(rec.snap)'
    <3>. SUFFICES ASSUME rec'.pc = "apply" PROVE AsOf(rec.snap)'
      BY Zenon
    <3>1. rec' = rec
      BY Zenon
    <3>. QED  BY <1>4, <3>1, Zenon DEF RelayInv, In, AsOf, InMap
  <2>. QED  BY <2>1, <2>2, Zenon DEF In
<1>6. Out'
  <2>. SUFFICES ASSUME NEW x \in objs', relays'[x.pub] # x.gen, rec'.pc \notin {"joining", "down"}
                PROVE  x.gen < snap'.gen /\ (Installing' => x.gen < rec'.snap.gen)
    BY Zenon DEF Out, InMap
  <2>1. PICK y \in objs : y.pub = x.pub /\ y.gen = x.gen /\ relays[y.pub] # y.gen
    BY <1>1, Zenon
  <2>2. y.gen < snap.gen /\ (Installing => y.gen < rec.snap.gen)
    BY <2>1, Zenon DEF RelayInv, Out, InMap
  <2>3. Installing' => Installing /\ rec' = rec
    BY Zenon DEF Installing
  <2>. QED  BY <2>1, <2>2, <2>3, Zenon
<1>7. Matches'
  <2>. SUFFICES ASSUME writer'.pc # "retire", NEW x \in objs', relays'[x.pub] = x.gen
                PROVE  snap.transport[x.pub].live = x.live /\ ~Refused(snap, x.pub)
    BY Zenon DEF Matches, InMap
  <2>1. PICK y \in objs : y.pub = x.pub /\ y.live = x.live /\ relays[y.pub] = y.gen
    BY <1>1, Zenon
  <2>. QED  BY <2>1, Zenon DEF RelayInv, Matches, InMap
<1>. QED  BY <1>2, <1>3, <1>5, <1>6, <1>7, Zenon

\* Closing objects: those named are closed, and no socket comes to be.
LEMMA CloseDescends ==
  ASSUME RelayInv, NEW gone \in SUBSET objs, objs' = Close(objs, gone)
  PROVE  /\ Descends
         /\ \A x \in objs' : (\E y \in gone : y.pub = x.pub /\ y.gen = x.gen) => x.closed
         /\ \A x \in objs' : \E y \in objs :
              x.conn = y.conn /\ (y.listeners = {} => x.listeners = {})
<1>. DEFINE S == {x \in objs : x \notin gone \/ x.conn # "none"}
            f == [o \in S |-> IF o \in gone THEN [o EXCEPT !.closed = TRUE, !.listeners = {}] ELSE o]
<1>1. \A o \in S : o \in Objs /\ [o EXCEPT !.closed = TRUE, !.listeners = {}] \in Objs
  BY ZenonT(40) DEF RelayInv, RelayTypeOK, Objs
<1>2. S \in SUBSET objs /\ f \in [S -> Objs]
  BY <1>1, Zenon
<1>3. objs' = {f[o] : o \in S}
  BY Zenon DEF Close
<1>4. ASSUME NEW o \in S
      PROVE  /\ f[o].pub = o.pub /\ f[o].gen = o.gen /\ f[o].live = o.live /\ f[o].conn = o.conn
             /\ o \in gone => f[o].closed /\ f[o].listeners = {}
             /\ o \notin gone => f[o] = o
  BY <1>1, Zenon DEF Objs
<1>. HIDE DEF S, f
<1>5. \A o \in S : /\ o.closed => f[o].closed
                   /\ f[o].closed => f[o].listeners = {}
  BY <1>2, <1>4 DEF RelayInv, Named, RelayTypeOK, Objs
<1>6. Descends
  BY <1>2, <1>3, <1>4, <1>5, DescendsByName
<1>7. ASSUME NEW x \in objs', NEW y \in gone, y.pub = x.pub, y.gen = x.gen PROVE x.closed
  <2>1. PICK o \in S : x = f[o]
    BY <1>3, Zenon
  <2>2. o = y
    BY <1>2, <1>4, <1>7, <2>1 DEF RelayInv, Named
  <2>. QED  BY <1>4, <2>1, <2>2, Zenon
<1>8. ASSUME NEW x \in objs'
      PROVE  \E y \in objs : x.conn = y.conn /\ (y.listeners = {} => x.listeners = {})
  <2>1. PICK o \in S : x = f[o]
    BY <1>3, Zenon
  <2>. QED  BY <1>2, <1>4, <2>1
<1>. QED  BY <1>6, <1>7, <1>8, Zenon

LEMMA CloseSteps ==
  ASSUME RelayInv, RetireCloses \/ ReconcileCloses
  PROVE  RelayInv'
<1>1. CASE RetireCloses
  <2>. DEFINE gone == {o \in objs : <<o.pub, o.gen>> \in writer.gone}
  <2>1. /\ writer.pc = "close" /\ objs' = Close(objs, gone) /\ writer' = Quiet
        /\ UNCHANGED <<snap, relays, rec>>
    BY <1>1, Zenon DEF RetireCloses
  <2>2. /\ Descends
        /\ \A x \in objs' : (\E y \in gone : y.pub = x.pub /\ y.gen = x.gen) => x.closed
        /\ \A x \in objs' : \E y \in objs :
             x.conn = y.conn /\ (y.listeners = {} => x.listeners = {})
    BY <2>1, CloseDescends, Zenon
  <2>3. writer' \in [pc : {"idle", "retire", "close"}, gone : SUBSET Ids] /\ writer'.pc = "idle"
    BY <2>1, Zenon DEF Quiet
  <2>4. RelayTypeOK'
    BY <2>1, <2>2, <2>3, Zenon DEF RelayInv, RelayTypeOK, Descends
  <2>5. Named' /\ Loaded' /\ In' /\ Out' /\ Matches'
    <3>1. rec.pc \in {"select", "bind"} => rec.gone = {}
      BY Zenon DEF RelayInv, Loaded
    <3>. QED  BY <2>1, <2>2, <2>3, <3>1, Kept, Zenon
  <2>6. Accounted'
    <3>. SUFFICES ASSUME NEW x \in objs', ~x.closed, relays'[x.pub] # x.gen
                  PROVE  <<x.pub, x.gen>> \in rec'.gone
      BY Zenon DEF Accounted, InMap
    <3>1. PICK y \in objs : y.pub = x.pub /\ y.gen = x.gen /\ ~y.closed
      BY <2>2, Zenon DEF Descends
    <3>2. <<y.pub, y.gen>> \notin writer.gone
      BY <2>2, <3>1, Zenon
    <3>3. ~InMap(y)
      BY <2>1, <3>1, Zenon DEF InMap
    <3>4. <<y.pub, y.gen>> \in rec.gone
      BY <3>1, <3>2, <3>3, Zenon DEF RelayInv, Accounted
    <3>. QED  BY <2>1, <3>1, <3>4, Zenon
  <2>7. Joined'
    BY <2>1, <2>2, Zenon DEF RelayInv, Joined
  <2>. QED  BY <2>4, <2>5, <2>6, <2>7, Zenon DEF RelayInv
<1>2. CASE ReconcileCloses
  <2>. DEFINE gone == {o \in objs : <<o.pub, o.gen>> \in rec.gone}
  <2>1. /\ rec.pc = "close" /\ objs' = Close(objs, gone)
        /\ rec' = [rec EXCEPT !.pc = "bind", !.gone = {}]
        /\ UNCHANGED <<snap, relays, writer>>
    BY <1>2, Zenon DEF ReconcileCloses
  <2>2. /\ Descends
        /\ \A x \in objs' : (\E y \in gone : y.pub = x.pub /\ y.gen = x.gen) => x.closed
    BY <2>1, CloseDescends, Zenon
  <2>3. /\ rec' \in [pc : {"select", "apply", "close", "bind", "joining", "down"},
                     snap : Snaps \cup {[gen |-> 0]}, gone : SUBSET Ids,
                     jobs : SUBSET (Pods \X Nat \X Ports), ok : BOOLEAN]
        /\ rec'.pc = "bind" /\ rec'.gone = {}
    BY <2>1, Zenon DEF RelayInv, RelayTypeOK
  <2>4. RelayTypeOK'
    BY <2>1, <2>2, <2>3, Zenon DEF RelayInv, RelayTypeOK, Descends
  <2>5. Named' /\ Loaded' /\ In' /\ Out' /\ Matches'
    BY <2>1, <2>2, <2>3, Kept, Zenon
  <2>6. Accounted'
    <3>. SUFFICES ASSUME NEW x \in objs', ~x.closed, relays'[x.pub] # x.gen
                  PROVE  writer'.pc = "close" /\ <<x.pub, x.gen>> \in writer'.gone
      BY Zenon DEF Accounted, InMap
    <3>1. PICK y \in objs : y.pub = x.pub /\ y.gen = x.gen /\ ~y.closed
      BY <2>2, Zenon DEF Descends
    <3>2. <<y.pub, y.gen>> \notin rec.gone
      BY <2>2, <3>1, Zenon
    <3>3. ~InMap(y)
      BY <2>1, <3>1, Zenon DEF InMap
    <3>4. writer.pc = "close" /\ <<y.pub, y.gen>> \in writer.gone
      BY <3>1, <3>2, <3>3, Zenon DEF RelayInv, Accounted
    <3>. QED  BY <2>1, <3>1, <3>4, Zenon
  <2>7. Joined'
    BY <2>3, Zenon DEF Joined
  <2>. QED  BY <2>4, <2>5, <2>6, <2>7 DEF RelayInv
<1>. QED  BY <1>1, <1>2, Zenon

Recs == [pc : {"select", "apply", "close", "bind", "joining", "down"},
         snap : Snaps \cup {[gen |-> 0]}, gone : SUBSET Ids,
         jobs : SUBSET (Pods \X Nat \X Ports), ok : BOOLEAN]

\* A step that keeps the map, the table and the lists of what is to be closed.
LEMMA SocketStep ==
  ASSUME RelayInv, Descends, UNCHANGED <<snap, relays, writer>>, Joined',
         rec' \in Recs, rec'.gone = rec.gone,
         rec'.pc = "apply" => rec' = rec,
         rec.pc \in {"joining", "down"} => rec'.pc \in {"joining", "down"},
         rec'.pc \in {"select", "bind"} => rec'.gone = {}
  PROVE  RelayInv'
<1>1. RelayTypeOK'
  BY Zenon DEF RelayInv, RelayTypeOK, Descends, Recs
<1>2. Named' /\ Loaded' /\ In' /\ Out' /\ Matches'
  BY Kept, Zenon
<1>3. Accounted'
  BY DEF RelayInv, Accounted, InMap, Descends
<1>. QED  BY <1>1, <1>2, <1>3, Zenon DEF RelayInv

\* The object of a connection is replaced by one that differs in the connection only.
LEMMA SwapDescends ==
  ASSUME RelayInv, NEW o \in objs, NEW c \in {"none", "client", "spliced"}, NEW n,
         n = {[o EXCEPT !.conn = c]} \/ n = {}, Swap(o, n)
  PROVE  Descends
<1>. DEFINE S == IF n = {} THEN objs \ {o} ELSE objs
            f == [x \in S |-> IF x = o THEN [o EXCEPT !.conn = c] ELSE x]
<1>1. o \in Objs /\ objs \in SUBSET Objs
  BY Zenon DEF RelayInv, RelayTypeOK
<1>2. [o EXCEPT !.conn = c] \in Objs
  BY <1>1, Zenon DEF Objs
<1>3. S \in SUBSET objs /\ f \in [S -> Objs]
  BY <1>1, <1>2, Zenon
<1>4. objs' = {f[x] : x \in S}
  BY Zenon DEF Swap
<1>5. \A x \in S : /\ f[x].pub = x.pub /\ f[x].gen = x.gen /\ f[x].live = x.live
                   /\ f[x].closed = x.closed /\ f[x].listeners = x.listeners
  BY <1>1, Zenon DEF Objs
<1>6. \A x \in S : x.closed => x.listeners = {}
  BY <1>3, Zenon DEF RelayInv, Named
<1>. HIDE DEF S, f
<1>. QED  BY <1>3, <1>4, <1>5, <1>6, DescendsByName

LEMMA ConnectionSteps ==
  ASSUME RelayInv, NEW o \in objs, Accept(o) \/ DialLive(o) \/ HandleReturns(o)
  PROVE  RelayInv'
<1>1. UNCHANGED <<snap, relays, writer, rec>>
  BY Zenon DEF Accept, DialLive, HandleReturns, ConnOnly
<1>2. Descends
  BY SwapDescends, Zenon DEF Accept, DialLive, HandleReturns
<1>3. rec.pc # "down"
  BY Zenon DEF RelayInv, Joined, Accept, DialLive, HandleReturns
<1>4. Joined'
  BY <1>1, <1>3, Zenon DEF Joined
<1>5. rec \in Recs /\ (rec.pc \in {"select", "bind"} => rec.gone = {})
  BY Zenon DEF RelayInv, RelayTypeOK, Loaded, Recs
<1>. QED  BY <1>1, <1>2, <1>4, <1>5, SocketStep, Zenon

\* A bound listener joins the object it was bound for, if that is still open.
LEMMA OpenStep ==
  ASSUME RelayInv, NEW j \in rec.jobs, Open(j)
  PROVE  RelayInv'
<1>. DEFINE Mine(o) == o.pub = j[1] /\ o.gen = j[2] /\ ~o.closed
            f == [o \in objs |-> IF Mine(o) THEN [o EXCEPT !.listeners = @ \cup {j[3]}] ELSE o]
<1>1. /\ rec.pc = "bind" /\ rec' = [rec EXCEPT !.jobs = @ \ {j}]
      /\ UNCHANGED <<snap, relays, writer>>
  BY Zenon DEF Open
<1>2. /\ objs' = (objs \ {o \in objs : Mine(o)})
                   \cup {[o EXCEPT !.listeners = @ \cup {j[3]}] : o \in {x \in objs : Mine(x)}}
  BY Zenon DEF Open, AddListener
<1>3. j[3] \in Ports
  BY Zenon DEF RelayInv, RelayTypeOK
<1>4. \A o \in objs : o \in Objs /\ [o EXCEPT !.listeners = @ \cup {j[3]}] \in Objs
  BY <1>3 DEF RelayInv, RelayTypeOK, Objs
<1>5. f \in [objs -> Objs]
  BY <1>4, Zenon
<1>6. objs' = {f[o] : o \in objs}
  BY <1>2, Zenon
<1>7. \A o \in objs : /\ f[o].pub = o.pub /\ f[o].gen = o.gen /\ f[o].live = o.live
                      /\ f[o].closed = o.closed
                      /\ o.closed => f[o] = o
  BY <1>4, Zenon DEF Objs
<1>8. \A o \in objs : o.closed => o.listeners = {}
  BY Zenon DEF RelayInv, Named
<1>. HIDE DEF f
<1>9. Descends
  BY <1>5, <1>6, <1>7, <1>8, DescendsByName
<1>10. rec' \in Recs /\ rec'.pc = "bind" /\ rec'.gone = rec.gone /\ rec.gone = {}
  BY <1>1, Zenon DEF RelayInv, RelayTypeOK, Recs, Loaded
<1>11. Joined'
  BY <1>10, Zenon DEF Joined
<1>. QED  BY <1>1, <1>9, <1>10, <1>11, SocketStep, Zenon

\* The other steps of the reconcile goroutine that leave the objects alone.
LEMMA GoroutineSteps ==
  ASSUME RelayInv, PassEnds \/ CancelRelays \/ ShutdownJoins \/ \E j \in rec.jobs : BindFails(j)
  PROVE  RelayInv'
<1>1. UNCHANGED <<snap, relays, writer, objs>>
  BY Zenon DEF PassEnds, CancelRelays, ShutdownJoins, BindFails
<1>2. Descends
  BY <1>1, DescendsUnchanged, Zenon
<1>3. rec \in Recs /\ (rec.pc \in {"select", "bind"} => rec.gone = {})
  BY Zenon DEF RelayInv, RelayTypeOK, Loaded, Recs
<1>4. CASE PassEnds
  <2>1. rec' = NoPlan /\ rec.pc = "bind"
    BY <1>4, Zenon DEF PassEnds
  <2>2. rec' \in Recs /\ rec'.pc = "select" /\ rec'.gone = {}
    BY <2>1, Zenon DEF NoPlan, Recs
  <2>3. Joined'
    BY <2>2, Zenon DEF Joined
  <2>. QED  BY <1>1, <1>2, <1>3, <2>1, <2>2, <2>3, SocketStep, Zenon
<1>5. CASE CancelRelays
  <2>1. rec' = rec
    BY <1>5, Zenon DEF CancelRelays
  <2>2. Joined'
    BY <1>1, <2>1, Zenon DEF RelayInv, Joined
  <2>. QED  BY <1>1, <1>2, <1>3, <2>1, <2>2, SocketStep, Zenon
<1>6. CASE ShutdownJoins
  <2>1. /\ rec.pc = "joining" /\ rec' = [rec EXCEPT !.pc = "down"]
        /\ \A o \in objs : o.listeners = {} /\ o.conn = "none"
    BY <1>6, Zenon DEF ShutdownJoins
  <2>2. rec' \in Recs /\ rec'.pc = "down" /\ rec'.gone = rec.gone
    BY <1>3, <2>1, Zenon DEF Recs
  <2>3. Joined'
    BY <1>1, <2>1, Zenon DEF Joined
  <2>. QED  BY <1>1, <1>2, <2>2, <2>3, SocketStep, Zenon
<1>7. CASE \E j \in rec.jobs : BindFails(j)
  <2>1. rec.pc = "bind" /\ \E j \in rec.jobs : rec' = [rec EXCEPT !.jobs = @ \ {j}, !.ok = FALSE]
    BY <1>7, Zenon DEF BindFails
  <2>2. rec' \in Recs /\ rec'.pc = "bind" /\ rec'.gone = rec.gone
    BY <1>3, <2>1, ZenonT(40) DEF Recs
  <2>3. Joined'
    BY <2>2, Zenon DEF Joined
  <2>. QED  BY <1>1, <1>2, <1>3, <2>1, <2>2, <2>3, SocketStep, Zenon
<1>. QED  BY <1>4, <1>5, <1>6, <1>7, Zenon

\* A pass begins with the generation in force.
LEMMA LoadStep ==
  ASSUME RelayInv, Load
  PROVE  RelayInv'
<1>1. /\ rec.pc = "select" /\ rec' = [NoPlan EXCEPT !.pc = "apply", !.snap = snap]
      /\ UNCHANGED <<snap, writer, relays, objs>>
  BY Zenon DEF Load
<1>2. rec' \in Recs /\ rec'.pc = "apply" /\ rec'.snap = snap /\ rec'.gone = {}
  BY <1>1, Zenon DEF RelayInv, RelayTypeOK, NoPlan, Recs
<1>3. rec.gone = {}
  BY <1>1, Zenon DEF RelayInv, Loaded
<1>4. RelayTypeOK'
  BY <1>1, <1>2, Zenon DEF RelayInv, RelayTypeOK, Recs
<1>5. Named' /\ Accounted'
  BY <1>1, <1>2, <1>3, Zenon DEF RelayInv, Named, Accounted, InMap
<1>6. Loaded'
  <2>1. snap' = snap /\ snap \in Snaps /\ snap.gen \in Nat /\ snap.tgen \in Nat /\ snap.tgen <= snap.gen
    BY <1>1, Zenon DEF RelayInv, RelayTypeOK, Snaps
  <2>2. \A x \in objs' : x.gen <= snap.gen
    BY <1>1, Zenon DEF RelayInv, Named
  <2>. QED  BY <1>2, <2>1, <2>2 DEF Loaded, Installing
<1>7. In'
  <2>1. AsOf(snap)'
    BY <1>1, Zenon DEF RelayInv, In, AsOf, InMap
  <2>. QED  BY <1>1, <1>2, <2>1, Zenon DEF In, AsOf
<1>8. Out'
  BY <1>1, <1>2, Zenon DEF RelayInv, Out, InMap, Installing
<1>9. Matches'
  BY <1>1, Zenon DEF RelayInv, Matches, InMap
<1>10. Joined'
  BY <1>2, Zenon DEF Joined
<1>. QED  BY <1>4, <1>5, <1>6, <1>7, <1>8, <1>9, <1>10, Zenon DEF RelayInv

-----------------------------------------------------------------------------
(* The writer of the table. *)

\* Whether a pod is refused, and its lease, are a matter of the overrides.
LEMMA ByTransport ==
  ASSUME NEW s, NEW t, s.transport = t.transport, NEW p \in Pods
  PROVE  Refused(s, p) <=> Refused(t, p)
BY Zenon DEF Refused, SharedLease

\* Writing fields of a snapshot.
LEMMA SnapFields ==
  ASSUME NEW T, NEW V, NEW s \in [gen : Nat, tgen : Nat, transport : T, svc : V],
         NEW g \in Nat, NEW t \in T, NEW v \in V
  PROVE  /\ LET u == [s EXCEPT !.gen = g, !.tgen = g, !.transport = t]
            IN u \in [gen : Nat, tgen : Nat, transport : T, svc : V] /\ u.gen = g /\ u.tgen = g
         /\ LET u == [s EXCEPT !.gen = g, !.svc = v]
            IN /\ u \in [gen : Nat, tgen : Nat, transport : T, svc : V]
               /\ u.gen = g /\ u.tgen = s.tgen /\ u.transport = s.transport
BY Zenon

\* A new generation.
LEMMA StoreSteps ==
  ASSUME RelayInv, SetTransportOverrides \/ InstallBackends
  PROVE  RelayInv'
<1>1. /\ writer.pc = "idle"
      /\ UNCHANGED <<relays, objs, rec>>
  BY Zenon DEF SetTransportOverrides, InstallBackends
<1>2. snap \in Snaps /\ snap.gen \in Nat /\ snap.tgen \in Nat /\ 1 <= snap.tgen /\ snap.tgen <= snap.gen
  BY Zenon DEF RelayInv, RelayTypeOK, Snaps
<1>3. /\ snap' \in Snaps /\ snap'.gen = snap.gen + 1
      /\ \/ /\ snap'.tgen = snap.gen + 1
            /\ writer' \in [pc : {"idle", "retire", "close"}, gone : SUBSET Ids]
            /\ writer'.pc = "retire"
         \/ /\ snap'.tgen = snap.tgen /\ snap'.transport = snap.transport
            /\ writer' = writer
  <2>1. CASE SetTransportOverrides
    <3>1. PICK next \in [Pods -> Override \cup {None}] :
            snap' = [snap EXCEPT !.gen = snap.gen + 1, !.tgen = snap.gen + 1, !.transport = next]
      BY <2>1, Zenon DEF SetTransportOverrides
    <3>2. snap' \in Snaps /\ snap'.gen = snap.gen + 1 /\ snap'.tgen = snap.gen + 1
      <4>1. snap.gen + 1 \in Nat /\ snap.svc \in [Pods -> SvcPorts \cup {{}}]
        BY <1>2 DEF Snaps
      <4>. QED  BY <1>2, <3>1, <4>1, SnapFields, Zenon DEF Snaps
    <3>3. writer' = [pc |-> "retire", gone |-> {}]
      BY <2>1, Zenon DEF SetTransportOverrides
    <3>. QED  BY <3>2, <3>3, Zenon
  <2>2. CASE InstallBackends
    <3>1. PICK p \in Pods, ports \in SvcPorts :
            snap' = [snap EXCEPT !.gen = @ + 1, !.svc[p] = ports]
      BY <2>2, Zenon DEF InstallBackends
    <3>2. snap.svc \in [Pods -> SvcPorts \cup {{}}]
      BY <1>2, Zenon DEF Snaps
    <3>3. [snap.svc EXCEPT ![p] = ports] \in [Pods -> SvcPorts \cup {{}}]
      BY <3>2, Zenon
    <3>4. snap' = [snap EXCEPT !.gen = snap.gen + 1, !.svc = [snap.svc EXCEPT ![p] = ports]]
      BY <3>1, Zenon
    <3>5. /\ snap' \in Snaps /\ snap'.gen = snap.gen + 1 /\ snap'.tgen = snap.tgen
          /\ snap'.transport = snap.transport
      <4>1. snap.gen + 1 \in Nat /\ snap.transport \in [Pods -> Override \cup {None}]
        BY <1>2 DEF Snaps
      <4>. QED  BY <1>2, <3>3, <3>4, <4>1, SnapFields, Zenon DEF Snaps
    <3>6. writer' = writer
      BY <2>2, Zenon DEF InstallBackends
    <3>. QED  BY <3>5, <3>6, Zenon
  <2>. QED  BY <2>1, <2>2, Zenon
<1>4. writer' \in [pc : {"idle", "retire", "close"}, gone : SUBSET Ids]
  BY <1>3, Zenon DEF RelayInv, RelayTypeOK
<1>5. RelayTypeOK'
  BY <1>1, <1>2, <1>3, <1>4 DEF RelayInv, RelayTypeOK
<1>6. \A x \in objs : x.gen \in Nat /\ x.gen <= snap.gen /\ x.pub \in Pods
  BY Zenon DEF RelayInv, RelayTypeOK, Named, Objs
<1>7. Named'
  BY <1>1, <1>2, <1>3, <1>6 DEF RelayInv, Named
<1>8. rec.pc = "apply" =>
        /\ rec.snap \in Snaps /\ rec.gone = {} /\ rec.snap.gen \in Nat /\ rec.snap.tgen \in Nat
        /\ rec.snap.gen <= snap.gen /\ rec.snap.tgen <= snap.tgen /\ rec.snap.tgen <= rec.snap.gen
        /\ \A x \in objs : x.gen <= rec.snap.gen
  BY Zenon DEF RelayInv, Loaded, Snaps
<1>9. Installing' => Installing /\ snap'.tgen = snap.tgen /\ snap'.transport = snap.transport
                     /\ writer' = writer
  BY <1>1, <1>2, <1>3, <1>8 DEF Installing
<1>10. Loaded'
  <2>1. rec.pc = "apply" =>
          /\ rec.snap.gen <= snap'.gen /\ rec.snap.tgen <= snap'.tgen
          /\ rec.snap.gen # snap'.gen
    BY <1>2, <1>3, <1>8
  <2>2. Installing' => rec.snap.transport = snap'.transport /\ writer'.pc # "retire"
    BY <1>1, <1>9, Zenon DEF RelayInv, Loaded
  <2>3. rec.pc \in {"select", "bind"} => rec.gone = {}
    BY DEF RelayInv, Loaded
  <2>. QED  BY <1>1, <1>8, <2>1, <2>2, <2>3, Zenon DEF Loaded
<1>11. In'
  <2>1. AsOf(snap)'
    BY <1>1, <1>2, <1>3, <1>6 DEF AsOf
  <2>2. rec'.pc = "apply" => AsOf(rec.snap)'
    BY <1>1, Zenon DEF RelayInv, In, AsOf, InMap
  <2>. QED  BY <2>1, <2>2, Zenon DEF In
<1>12. Out'
  <2>. SUFFICES ASSUME NEW x \in objs, relays[x.pub] # x.gen, rec.pc \notin {"joining", "down"}
                PROVE  x.gen < snap'.gen /\ (Installing' => x.gen < rec.snap.gen)
    BY <1>1, Zenon DEF Out, InMap
  <2>1. Installing => x.gen < rec.snap.gen
    BY Zenon DEF RelayInv, Out, InMap
  <2>. QED  BY <1>2, <1>3, <1>6, <1>9, <2>1
<1>13. Matches'
  <2>. SUFFICES ASSUME writer'.pc # "retire", NEW x \in objs, relays[x.pub] = x.gen
                PROVE  snap'.transport[x.pub].live = x.live /\ ~Refused(snap', x.pub)
    BY <1>1, Zenon DEF Matches, InMap
  <2>1. snap'.transport = snap.transport
    BY <1>3, Zenon
  <2>2. snap.transport[x.pub].live = x.live /\ ~Refused(snap, x.pub)
    BY <1>1, Zenon DEF RelayInv, Matches, InMap
  <2>. QED  BY <1>6, <2>1, <2>2, ByTransport, Zenon
<1>14. Accounted'
  BY <1>1, Zenon DEF RelayInv, Accounted, InMap
<1>15. Joined'
  BY <1>1, Zenon DEF RelayInv, Joined
<1>. QED  BY <1>5, <1>7, <1>10, <1>11, <1>12, <1>13, <1>14, <1>15, Zenon DEF RelayInv

\* The identities (pod and generation) of a set of relays are a set of Ids.
LEMMA IdsTyped ==
  ASSUME NEW S, \A o \in S : o.pub \in Pods /\ o.gen \in Nat
  PROVE  {<<o.pub, o.gen>> : o \in S} \in SUBSET Ids
<1>1. ASSUME NEW o \in S PROVE <<o.pub, o.gen>> \in Ids
  <2>1. o.pub \in Pods /\ o.gen \in Nat
    BY Zenon
  <2>2. ASSUME NEW p \in Pods, NEW n \in Nat PROVE <<p, n>> \in Pods \X Nat
    OBVIOUS
  <2>. QED  BY <2>1, <2>2, Zenon DEF Ids
<1>. QED  BY <1>1, Zenon

\* The relays that the new overrides do not keep leave the map.
LEMMA RetireKeeps ==
  ASSUME RelayInv, Retire
  PROVE  RelayInv'
<1>. DEFINE Keep(o) == snap.transport[o.pub].live = o.live /\ Admitted(snap, o.pub)
            gone == {o \in objs : InMap(o) /\ ~Keep(o)}
<1>1. /\ writer.pc = "retire"
      /\ relays' = [p \in Pods |-> IF \E o \in gone : o.pub = p THEN 0 ELSE relays[p]]
      /\ writer' = [pc |-> "close", gone |-> {<<o.pub, o.gen>> : o \in gone}]
      /\ UNCHANGED <<snap, objs, rec>>
  BY Zenon DEF Retire
<1>2. \A o \in objs : o.pub \in Pods /\ o.gen \in Nat /\ 1 <= o.gen /\ o.gen <= snap.gen
  BY ZenonT(40) DEF RelayInv, RelayTypeOK, Named, Objs
<1>3. /\ writer' \in [pc : {"idle", "retire", "close"}, gone : SUBSET Ids] /\ writer'.pc = "close"
      /\ writer'.gone = {<<o.pub, o.gen>> : o \in gone}
  <2>1. {<<o.pub, o.gen>> : o \in gone} \in SUBSET Ids
    <3>1. \A o \in gone : o.pub \in Pods /\ o.gen \in Nat
      BY <1>2, Zenon
    <3>. HIDE DEF gone
    <3>. QED  BY <3>1, IdsTyped, Zenon
  <2>. HIDE DEF gone
  <2>. QED  BY <1>1, <2>1, Zenon
<1>4. RelayTypeOK'
  BY <1>1, <1>3, ZenonT(40) DEF RelayInv, RelayTypeOK
<1>5. ASSUME NEW x \in objs
      PROVE  relays'[x.pub] = x.gen <=> InMap(x) /\ Keep(x)
  <2>1. relays'[x.pub] = IF \E o \in gone : o.pub = x.pub THEN 0 ELSE relays[x.pub]
    BY <1>1, <1>2, Zenon
  <2>2. ASSUME NEW o \in gone, o.pub = x.pub PROVE InMap(x) => o = x
    BY <2>2, Zenon DEF InMap, RelayInv, Named
  <2>. QED  BY <1>2, <2>1, <2>2 DEF InMap
<1>6. \A x \in gone : x.gen < snap.gen
  <2>. SUFFICES ASSUME NEW x \in gone PROVE x.gen # snap.gen
    BY <1>2 DEF RelayInv, RelayTypeOK, Snaps
  <2>. QED  BY Zenon DEF RelayInv, In, AsOf
<1>7. Named'
  BY <1>1, Zenon DEF RelayInv, Named
<1>8. Loaded'
  BY <1>1, <1>3, Zenon DEF RelayInv, Loaded, Installing
<1>9. In'
  <2>1. AsOf(snap)'
    BY <1>1, <1>5, Zenon DEF RelayInv, In, AsOf, InMap
  <2>2. rec'.pc = "apply" => AsOf(rec.snap)'
    BY <1>1, <1>5, Zenon DEF RelayInv, In, AsOf, InMap
  <2>. QED  BY <2>1, <2>2, Zenon DEF In
<1>10. Out'
  <2>. SUFFICES ASSUME NEW x \in objs, relays'[x.pub] # x.gen, rec.pc \notin {"joining", "down"}
                PROVE  x.gen < snap.gen /\ (Installing => x.gen < rec.snap.gen)
    BY <1>1, Zenon DEF Out, InMap, Installing
  <2>1. CASE ~InMap(x)
    BY <2>1, Zenon DEF RelayInv, Out
  <2>2. CASE InMap(x)
    <3>1. x.gen < snap.gen
      BY <1>5, <1>6, <2>2, Zenon
    <3>2. Installing => rec.snap = snap
      BY <1>1, Zenon DEF RelayInv, Loaded
    <3>. QED  BY <3>1, <3>2, Zenon
  <2>. QED  BY <2>1, <2>2, Zenon
<1>11. Matches'
  BY <1>1, <1>5, Zenon DEF Matches, InMap, Admitted
<1>12. Accounted'
  <2>. SUFFICES ASSUME NEW x \in objs, ~x.closed, relays'[x.pub] # x.gen
                PROVE  <<x.pub, x.gen>> \in writer'.gone \/ <<x.pub, x.gen>> \in rec.gone
    BY <1>1, <1>3, Zenon DEF Accounted, InMap
  <2>1. CASE InMap(x)
    BY <1>3, <1>5, <2>1, Zenon
  <2>2. CASE ~InMap(x)
    BY <1>1, <2>2, Zenon DEF RelayInv, Accounted
  <2>. QED  BY <2>1, <2>2, Zenon
<1>13. Joined'
  BY <1>1, Zenon DEF RelayInv, Joined
<1>. QED  BY <1>4, <1>7, <1>8, <1>9, <1>10, <1>11, <1>12, <1>13, Zenon DEF RelayInv

\* A shutdown closes what is in the map, and empties it.
LEMMA ShutdownStep ==
  ASSUME RelayInv, ShutdownRelays
  PROVE  RelayInv'
<1>. DEFINE gone == {o \in objs : InMap(o)}
<1>1. /\ rec.pc = "select" /\ relays' = [p \in Pods |-> 0]
      /\ objs' = Close(objs, gone) /\ rec' = [NoPlan EXCEPT !.pc = "joining"]
      /\ UNCHANGED <<snap, writer>>
  BY Zenon DEF ShutdownRelays
<1>2. /\ Descends
      /\ \A x \in objs' : (\E y \in gone : y.pub = x.pub /\ y.gen = x.gen) => x.closed
  BY <1>1, CloseDescends, Zenon
<1>3. rec' \in Recs /\ rec'.pc = "joining" /\ rec'.gone = {}
  BY <1>1, Zenon DEF NoPlan, Recs
<1>4. RelayTypeOK'
  BY <1>1, <1>2, <1>3, Zenon DEF RelayInv, RelayTypeOK, Descends, Recs
<1>5. \A x \in objs' : x.pub \in Pods /\ \E y \in objs :
        y.pub = x.pub /\ y.gen = x.gen /\ (y.closed => x.closed)
  BY <1>2, ZenonT(40) DEF Descends, Objs
<1>6. \A x \in objs' : x.gen \in Nat /\ 1 <= x.gen /\ x.gen <= snap.gen
  BY <1>2, <1>5 DEF Descends, RelayInv, Named, Objs
<1>7. \A x \in objs' : relays'[x.pub] # x.gen
  BY <1>1, <1>5, <1>6
<1>8. Named'
  BY <1>1, <1>2, <1>6, Zenon DEF Named, Descends
<1>9. Loaded' /\ Out' /\ Joined'
  BY <1>3, Zenon DEF Loaded, Out, Joined, Installing
<1>10. In' /\ Matches'
  BY <1>3, <1>7, Zenon DEF In, AsOf, Matches, InMap
<1>11. Accounted'
  <2>. SUFFICES ASSUME NEW x \in objs', ~x.closed
                PROVE  writer.pc = "close" /\ <<x.pub, x.gen>> \in writer.gone
    BY <1>1, Zenon DEF Accounted
  <2>1. PICK y \in objs : y.pub = x.pub /\ y.gen = x.gen /\ ~y.closed
    BY <1>5, Zenon
  <2>2. ~InMap(y)
    BY <1>2, <2>1, Zenon
  <2>3. rec.gone = {}
    BY <1>1, Zenon DEF RelayInv, Loaded
  <2>. QED  BY <2>1, <2>2, <2>3, Zenon DEF RelayInv, Accounted
<1>. QED  BY <1>4, <1>8, <1>9, <1>10, <1>11, Zenon DEF RelayInv

-----------------------------------------------------------------------------
(* The installation of a pass. *)

\* What trimming keeps of an object.
LEMMA TrimKeeps ==
  ASSUME NEW s, NEW o \in Objs
  PROVE  LET t == Trim(s, o)
         IN /\ t \in Objs /\ t.pub = o.pub /\ t.gen = o.gen /\ t.live = o.live
            /\ t.closed = o.closed /\ (o.listeners = {} => t.listeners = {})
BY Zenon DEF Trim, Objs

\* A relay that is made has its name and lease from the generation.
LEMMA MadeFromSnap ==
  ASSUME NEW s \in Snaps, NEW p \in Pods
  PROVE  LET t == NewRelay(s, p)
         IN /\ t \in Objs /\ t.pub = p /\ t.gen = s.gen /\ t.live = s.transport[p].live
            /\ ~t.closed
<1>1. s.gen \in Nat /\ s.transport[p].live \in Leases \cup {NoLease}
  BY DEF Snaps, Override, None
<1>. QED  BY <1>1, Zenon DEF NewRelay, Objs

\* The ports that are to be bound.
LEMMA MissingTyped ==
  ASSUME NEW s \in Snaps, NEW o \in Objs
  PROVE  Missing(s, o) \subseteq Pods \X Nat \X Ports
<1>1. o.pub \in Pods /\ o.gen \in Nat
  BY Zenon DEF Objs
<1>2. s.transport[o.pub].ports \in Declared \cup {{}} /\ s.svc[o.pub] \in SvcPorts \cup {{}}
  BY <1>1 DEF Snaps, Override, None
<1>3. PortSet(s, o.pub) \subseteq Ports
  BY <1>2, Zenon DEF PortSet, Ports
<1>. QED  BY <1>1, <1>3, Zenon DEF Missing

LEMMA InstallStep ==
  ASSUME RelayInv, Reconcile
  PROVE  RelayInv'
<1>. DEFINE s == rec.snap
            wanted == Plan(s)
            gone == {o \in objs : InMap(o) /\ ~(o.pub \in wanted /\ o.live = s.transport[o.pub].live)}
            kept == {o \in objs : InMap(o)} \ gone
            made == {NewRelay(s, p) : p \in {q \in wanted : ~\E o \in kept : o.pub = q}}
            trimmed == {Trim(s, o) : o \in kept \cup made}
<1>1. rec.pc = "apply" /\ UNCHANGED <<snap, writer>>
  BY Zenon DEF Reconcile
<1>2. /\ s \in Snaps /\ s.gen \in Nat /\ s.gen <= snap.gen /\ s.tgen <= s.gen /\ rec.gone = {}
      /\ s.gen = snap.gen => s = snap
      /\ \A x \in objs : x.gen <= s.gen
  BY <1>1, Zenon DEF RelayInv, Loaded, Snaps
<1>3. snap.gen \in Nat /\ snap.tgen \in Nat /\ 1 <= snap.tgen /\ rec \in Recs
  BY Zenon DEF RelayInv, RelayTypeOK, Snaps, Recs
<1>4. CASE snap.tgen # s.tgen
  <2>1. UNCHANGED <<relays, objs>> /\ rec' = [rec EXCEPT !.pc = "bind", !.snap = [gen |-> 0]]
    BY <1>4, Zenon DEF Reconcile
  <2>2. rec'.pc = "bind" /\ rec'.gone = {} /\ rec' \in Recs
    BY <1>2, <1>3, <2>1, Zenon DEF Recs
  <2>3. Descends
    BY <2>1, DescendsUnchanged, Zenon
  <2>4. Named' /\ Loaded' /\ In' /\ Out' /\ Matches'
    BY <1>1, <2>1, <2>2, <2>3, Kept, Zenon
  <2>5. RelayTypeOK'
    BY <1>1, <2>1, <2>2, Zenon DEF RelayInv, RelayTypeOK, Recs
  <2>6. Accounted' /\ Joined'
    BY <1>1, <1>2, <2>1, <2>2, Zenon DEF RelayInv, Accounted, Joined, InMap
  <2>. QED  BY <2>4, <2>5, <2>6, Zenon DEF RelayInv
<1>5. CASE snap.tgen = s.tgen
  <2>1. /\ relays' = [p \in Pods |-> IF p \in wanted THEN (CHOOSE o \in trimmed : o.pub = p).gen ELSE 0]
        /\ objs' = (objs \ kept) \cup trimmed
        /\ rec' = [rec EXCEPT !.pc = "close", !.snap = [gen |-> 0],
                     !.gone = {<<o.pub, o.gen>> : o \in gone},
                     !.jobs = UNION {Missing(s, o) : o \in trimmed}]
    BY <1>5, Zenon DEF Reconcile
  <2>2. Installing /\ s.transport = snap.transport
    BY <1>1, <1>5, Zenon DEF Installing, RelayInv, Loaded
  <2>3. \A p \in wanted : p \in Pods /\ Admitted(s, p) /\ ~Refused(s, p)
    BY Zenon DEF Plan, Admitted
  <2>4. /\ objs \in SUBSET Objs
        /\ \A o \in objs : o.pub \in Pods /\ o.gen \in Nat /\ 1 <= o.gen
        /\ \A o \in objs : o.closed => o.listeners = {}
        /\ \A x, y \in objs : x.pub = y.pub /\ x.gen = y.gen => x = y
    BY Zenon DEF RelayInv, RelayTypeOK, Named, Objs
  <2>5. \A k \in kept : /\ k \in objs /\ relays[k.pub] = k.gen /\ k.pub \in wanted
                        /\ k.live = s.transport[k.pub].live
    BY Zenon DEF InMap
  <2>6. \A m \in made : /\ m \in Objs /\ m.pub \in wanted /\ m.gen = s.gen /\ ~m.closed
                        /\ m.live = s.transport[m.pub].live /\ m = NewRelay(s, m.pub)
                        /\ ~\E k \in kept : k.pub = m.pub
    BY <1>2, <2>3, MadeFromSnap
  <2>7. \A p \in wanted : (\E k \in kept : k.pub = p) \/ (\E m \in made : m.pub = p)
    <3>. SUFFICES ASSUME NEW p \in wanted, ~\E k \in kept : k.pub = p PROVE \E m \in made : m.pub = p
      BY Zenon
    <3>1. NewRelay(s, p) \in made
      BY Zenon
    <3>. QED  BY <1>2, <2>3, <3>1, MadeFromSnap, Zenon
  <2>8. \A x \in objs \ kept : x.gen < s.gen /\ (relays[x.pub] = x.gen => x \in gone)
    <3>. SUFFICES ASSUME NEW x \in objs \ kept
                  PROVE  x.gen # s.gen /\ (relays[x.pub] = x.gen => x \in gone)
      BY <1>2, <2>4, SMTT(20)
    <3>1. CASE ~InMap(x)
      BY <1>1, <2>2, <2>4, <3>1, <1>2 DEF RelayInv, Out, InMap
    <3>2. CASE InMap(x)
      <4>1. x \in gone /\ x.pub \in Pods
        BY <2>4, <3>2, Zenon
      <4>2. x.gen = s.gen => x.live = s.transport[x.pub].live /\ Admitted(s, x.pub)
        BY <1>1, <3>2, Zenon DEF RelayInv, In, AsOf
      <4>. QED  BY <4>1, <4>2, Zenon DEF Plan
    <3>. QED  BY <3>1, <3>2, ZenonT(40)
  <2>9. \A g \in gone : g \in objs \ kept
    BY Zenon
  <2>10. rec' \in Recs /\ rec'.pc = "close" /\ rec'.gone = {<<o.pub, o.gen>> : o \in gone}
    <3>1. {<<o.pub, o.gen>> : o \in gone} \in SUBSET Ids
      <4>1. \A o \in gone : o.pub \in Pods /\ o.gen \in Nat
        BY <2>4, <2>9, Zenon
      <4>. HIDE DEF gone
      <4>. QED  BY <4>1, IdsTyped, Zenon
    <3>2. kept \cup made \subseteq Objs
      BY <2>4, <2>5, <2>6, ZenonT(40)
    <3>3. trimmed \subseteq Objs
      BY <3>2, TrimKeeps
    <3>4. UNION {Missing(s, o) : o \in trimmed} \in SUBSET (Pods \X Nat \X Ports)
      BY <1>2, <3>3, MissingTyped, Zenon
    <3>. HIDE DEF trimmed, gone
    <3>. QED  BY <1>3, <2>1, <3>1, <3>4, Zenon DEF Recs
  <2>. HIDE DEF kept, made, gone, wanted, s
  <2>11. \A t \in trimmed :
           /\ t \in Objs /\ t.pub \in wanted /\ t.live = s.transport[t.pub].live
           /\ t.closed => t.listeners = {}
           /\ t.gen \in Nat /\ 1 <= t.gen /\ t.gen <= s.gen
           /\ \/ \E k \in kept : k.pub = t.pub /\ k.gen = t.gen /\ t = Trim(s, k)
              \/ t.gen = s.gen /\ (~\E k \in kept : k.pub = t.pub) /\ t = Trim(s, NewRelay(s, t.pub))
    <3>. SUFFICES ASSUME NEW o \in kept \cup made
                  PROVE  LET t == Trim(s, o) IN
                         /\ t \in Objs /\ t.pub \in wanted /\ t.live = s.transport[t.pub].live
                         /\ t.closed => t.listeners = {}
                         /\ t.gen \in Nat /\ 1 <= t.gen /\ t.gen <= s.gen
                         /\ \/ \E k \in kept : k.pub = t.pub /\ k.gen = t.gen /\ t = Trim(s, k)
                            \/ /\ t.gen = s.gen /\ ~\E k \in kept : k.pub = t.pub
                               /\ t = Trim(s, NewRelay(s, t.pub))
      OBVIOUS
    <3>1. 1 <= s.gen
      BY <1>2, <1>3, <1>5, SMTT(20)
    <3>2. o \in Objs /\ o.pub \in wanted /\ o.live = s.transport[o.pub].live
          /\ (o.closed => o.listeners = {}) /\ o.gen \in Nat /\ 1 <= o.gen /\ o.gen <= s.gen
      BY <1>2, <2>4, <2>5, <2>6, <3>1
    <3>. DEFINE t == Trim(s, o)
    <3>3. /\ t \in Objs /\ t.pub = o.pub /\ t.gen = o.gen /\ t.live = o.live
          /\ t.closed = o.closed /\ (o.listeners = {} => t.listeners = {})
      BY <3>2, TrimKeeps, Zenon
    <3>4. \/ \E k \in kept : k.pub = t.pub /\ k.gen = t.gen /\ t = Trim(s, k)
          \/ /\ t.gen = s.gen /\ ~\E k \in kept : k.pub = t.pub
             /\ t = Trim(s, NewRelay(s, t.pub))
      <4>1. CASE o \in kept
        BY <3>3, <4>1, Zenon
      <4>2. CASE o \in made
        BY <2>6, <3>3, <4>2, Zenon
      <4>. QED  BY <4>1, <4>2, Zenon
    <3>. HIDE DEF t
    <3>5. /\ t \in Objs /\ t.pub \in wanted /\ t.live = s.transport[t.pub].live
          /\ t.closed => t.listeners = {}
          /\ t.gen \in Nat /\ 1 <= t.gen /\ t.gen <= s.gen
      BY <3>2, <3>3, Zenon
    <3>. QED  BY <3>4, <3>5, Zenon DEF t
  <2>12. \A p \in wanted : \E t \in trimmed : t.pub = p
    <3>. SUFFICES ASSUME NEW p \in wanted PROVE \E t \in trimmed : t.pub = p
      BY Zenon
    <3>1. PICK o \in kept \cup made : o.pub = p
      BY <2>7, Zenon
    <3>2. o \in Objs
      BY <2>4, <2>5, <2>6, Zenon
    <3>. QED  BY <3>1, <3>2, TrimKeeps
  <2>. HIDE DEF trimmed
  <2>13. \A t, u \in trimmed : t.pub = u.pub => t = u
    BY <2>4, <2>5, <2>11
  <2>14. \A t \in trimmed : relays'[t.pub] = t.gen
    <3>. SUFFICES ASSUME NEW t \in trimmed PROVE relays'[t.pub] = t.gen
      BY Zenon
    <3>. DEFINE c == CHOOSE o \in trimmed : o.pub = t.pub
    <3>1. c \in trimmed /\ c.pub = t.pub
      BY Zenon
    <3>2. c = t
      BY <2>13, <3>1, Zenon
    <3>3. t.pub \in wanted /\ t.pub \in Pods
      BY <2>3, <2>11, ZenonT(40)
    <3>. QED  BY <2>1, <3>2, <3>3, Zenon
  <2>15. \A x \in objs \ kept, t \in trimmed : ~(x.pub = t.pub /\ x.gen = t.gen)
    BY <1>2, <2>4, <2>5, <2>8, <2>11
  <2>16. \A x \in objs \ kept : relays'[x.pub] # x.gen
    <3>. SUFFICES ASSUME NEW x \in objs \ kept PROVE relays'[x.pub] # x.gen
      BY Zenon
    <3>1. CASE x.pub \in wanted
      BY <2>12, <2>14, <2>15, <3>1
    <3>2. CASE x.pub \notin wanted
      BY <2>1, <2>4, <3>2
    <3>. QED  BY <3>1, <3>2, Zenon
  <2>17. relays' \in [Pods -> Nat]
    <3>. SUFFICES ASSUME NEW p \in Pods, p \in wanted
                  PROVE  (CHOOSE o \in trimmed : o.pub = p).gen \in Nat
      BY <2>1, Zenon
    <3>. QED  BY <2>11, <2>12, Zenon
  <2>18. RelayTypeOK'
    BY <1>1, <2>1, <2>4, <2>10, <2>11, <2>17, Zenon DEF RelayInv, RelayTypeOK, Recs
  <2>19. Named'
    <3>1. \A x \in objs' : 1 <= x.gen /\ x.gen <= snap.gen /\ (x.closed => x.listeners = {})
      BY <1>2, <1>3, <2>1, <2>4, <2>11 DEF RelayInv, Named
    <3>2. \A x, y \in objs' : x.pub = y.pub /\ x.gen = y.gen => x = y
      BY <2>1, <2>4, <2>13, <2>15
    <3>. QED  BY <1>1, <3>1, <3>2, Zenon DEF Named
  <2>20. Loaded'
    BY <2>10, Zenon DEF Loaded, Installing
  <2>21. In'
    <3>. SUFFICES ASSUME NEW x \in objs', relays'[x.pub] = x.gen, x.gen = snap.gen
                  PROVE  x.live = snap.transport[x.pub].live /\ Admitted(snap, x.pub)
      BY <1>1, <2>10, Zenon DEF In, AsOf, InMap
    <3>1. x \in trimmed
      BY <2>1, <2>16, ZenonT(40)
    <3>2. s.gen = snap.gen
      BY <1>2, <1>3, <2>11, <3>1
    <3>3. s = snap
      BY <1>2, <3>2, ZenonT(40)
    <3>. QED  BY <2>3, <2>11, <3>1, <3>3, Zenon
  <2>22. Out'
    <3>. SUFFICES ASSUME NEW x \in objs', relays'[x.pub] # x.gen PROVE x.gen < snap.gen
      BY <1>1, <2>10, Zenon DEF Out, InMap, Installing
    <3>1. x \in objs \ kept
      BY <2>1, <2>14, Zenon
    <3>. QED  BY <1>2, <1>3, <2>4, <2>8, <3>1
  <2>23. Matches'
    <3>. SUFFICES ASSUME NEW x \in objs', relays'[x.pub] = x.gen
                  PROVE  snap.transport[x.pub].live = x.live /\ ~Refused(snap, x.pub)
      BY <1>1, Zenon DEF Matches, InMap
    <3>1. x \in trimmed
      BY <2>1, <2>16, Zenon
    <3>2. x.pub \in Pods /\ ~Refused(s, x.pub) /\ x.live = s.transport[x.pub].live
      BY <2>3, <2>11, <3>1, Zenon
    <3>. QED  BY <2>2, <3>2, ByTransport, Zenon DEF s
  <2>24. Accounted'
    <3>. SUFFICES ASSUME NEW x \in objs', ~x.closed, relays'[x.pub] # x.gen
                  PROVE  \/ writer.pc = "close" /\ <<x.pub, x.gen>> \in writer.gone
                         \/ <<x.pub, x.gen>> \in rec'.gone
      BY <1>1, Zenon DEF Accounted, InMap
    <3>1. x \in objs \ kept
      BY <2>1, <2>14, Zenon
    <3>2. CASE relays[x.pub] = x.gen
      BY <2>8, <2>10, <3>1, <3>2, Zenon
    <3>3. CASE relays[x.pub] # x.gen
      BY <1>2, <3>1, <3>3, Zenon DEF RelayInv, Accounted, InMap
    <3>. QED  BY <3>2, <3>3, Zenon
  <2>25. Joined'
    BY <2>10, Zenon DEF Joined
  <2>. QED  BY <2>18, <2>19, <2>20, <2>21, <2>22, <2>23, <2>24, <2>25 DEF RelayInv
<1>. QED  BY <1>4, <1>5, Zenon

-----------------------------------------------------------------------------
(* The theorem. *)

LEMMA RelayInitial == RelayInit => RelayInv
<1>. SUFFICES ASSUME RelayInit PROVE RelayInv
  BY Zenon
<1>1. /\ snap \in Snaps /\ snap.tgen = 1 /\ snap.gen = 1 /\ objs = {}
      /\ rec.pc = "select" /\ rec.gone = {} /\ relays \in [Pods -> Nat]
  BY ZenonT(40) DEF RelayInit, Snaps, NoPlan
<1>2. RelayTypeOK
  BY <1>1 DEF RelayInit, RelayTypeOK, NoPlan, Quiet
<1>. QED  BY <1>1, <1>2, Zenon
             DEF RelayInv, Named, Loaded, Installing, In, AsOf, Out, Matches, Accounted, Joined

LEMMA RelayPreserved == RelayInv /\ [RelayNext]_relayVarsP => RelayInv'
<1>. SUFFICES ASSUME RelayInv, [RelayNext]_relayVarsP PROVE RelayInv'
  BY Zenon
<1>1. CASE SetTransportOverrides \/ InstallBackends
  BY <1>1, StoreSteps, Zenon
<1>2. CASE Retire
  BY <1>2, RetireKeeps, Zenon
<1>3. CASE RetireCloses \/ ReconcileCloses
  BY <1>3, CloseSteps
<1>4. CASE Load
  BY <1>4, LoadStep
<1>5. CASE Reconcile
  BY <1>5, InstallStep
<1>6. CASE PassEnds \/ CancelRelays \/ ShutdownJoins \/ \E j \in rec.jobs : BindFails(j)
  BY <1>6, GoroutineSteps, Zenon
<1>7. CASE ShutdownRelays
  BY <1>7, ShutdownStep
<1>8. CASE \E j \in rec.jobs : Open(j)
  BY <1>8, OpenStep, Zenon
<1>9. CASE \E o \in objs : Accept(o) \/ DialLive(o) \/ HandleReturns(o)
  BY <1>9, ConnectionSteps, Zenon
<1>10. CASE UNCHANGED relayVarsP
  BY <1>10, ZenonT(40)
     DEF relayVarsP, RelayInv, RelayTypeOK, Named, Loaded, Installing, In, AsOf, InMap, Out, Matches,
               Accounted, Joined
<1>. QED  BY <1>1, <1>2, <1>3, <1>4, <1>5, <1>6, <1>7, <1>8, <1>9, <1>10, Zenon
         DEF RelayNext, ReconcileStep, RetireStep

\* Whatever the overrides become, once SetTransportOverrides has returned only a relay
\* at the current lease of an admitted pod serves, besides those the reconcile goroutine
\* is about to close; and none does after shutdown (podrelay.go, retire and shutdown).
THEOREM AdmittedOnly == RelaySpec => []OnlyAdmittedServe
<1>1. RelayInv => OnlyAdmittedServe
  <2>. SUFFICES ASSUME RelayInv PROVE OnlyAdmittedServe
    BY Zenon
  <2>1. ASSUME writer.pc = "idle", NEW o \in objs, Serves(o), <<o.pub, o.gen>> \notin rec.gone
        PROVE  snap.transport[o.pub].live = o.live /\ ~Refused(snap, o.pub)
    <3>1. ~o.closed
      BY <2>1, Zenon DEF Serves, RelayInv, Named
    <3>2. InMap(o)
      BY <2>1, <3>1, Zenon DEF RelayInv, Accounted
    <3>. QED  BY <2>1, <3>2, Zenon DEF RelayInv, Matches
  <2>2. rec.pc = "down" => ~\E o \in objs : Serves(o)
    BY Zenon DEF RelayInv, Joined, Serves
  <2>. QED  BY <2>1, <2>2, Zenon DEF OnlyAdmittedServe
<1>. QED  BY <1>1, RelayInitial, RelayPreserved, PTL DEF RelaySpec

=============================================================================
