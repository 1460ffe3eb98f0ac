---------------------------- MODULE ServeProofs -----------------------------
(***************************************************************************)
(* The safety of the Service watcher, for any Services, stripes, changes   *)
(* and failures.                                                           *)
(*                                                                         *)
(* ServedCurrent speaks of the moments when nothing is under way, so the   *)
(* invariant says who still has to act for a Service whose ports are not   *)
(* current (Accounted): a notification or slice event in a queue, the      *)
(* slice handler that wants its stripe, Run's list (Due), or a goroutine   *)
(* between its snapshot and its send (Delivering). A send may carry an old *)
(* snapshot: then a later delivery is due (HeldFresh), which is what the   *)
(* stripes are for. A Service handler delivers the version it was notified *)
(* of, so the queue must end in the version of the store (LastIsCurrent).  *)
(***************************************************************************)
EXTENDS ServiceWatch, TLAPS

\* What the API, the stores and the queues hold.
Objs == [ports : SUBSET Ports, etp : BOOLEAN, rv : Nat] \cup {NoObj}
Slices == [eps : SUBSET Backends, rv : Nat]
Notes == [key : Services, obj : Objs, gone : BOOLEAN]
Queues == [svc : Seq(Notes), slice : Seq(Services)]
InformerSets == [svc : [Services -> Objs], slice : [Services -> Slices], at : [Kinds -> Nat], queue : Queues]

\* What is in a queue.
In(q, x) == \E i \in DOMAIN q : q[i] = x

\* The notification of a Service as the store has it.
Note(S, k) == [key |-> k, obj |-> S.svc[k], gone |-> FALSE]

\* Behind a notification of a Service that the store has, or in its place, is one of the Service as it has it.
LastIsCurrent(S) ==
  \A i \in DOMAIN S.queue.svc :
    LET k == S.queue.svc[i].key
    IN S.svc[k] # NoObj => \E j \in DOMAIN S.queue.svc : j >= i /\ S.queue.svc[j] = Note(S, k)

\* T differs from S in its queues and its place in the log only.
Keeps(S, T) == T \in InformerSets /\ T.svc = S.svc /\ T.slice = S.slice

\* Queues that grow and shrink, and what is in them.
LEMMA Growing ==
  ASSUME NEW X, NEW q \in Seq(X), NEW x \in X
  PROVE  /\ Append(q, x) \in Seq(X)
         /\ \A i \in DOMAIN q : i \in DOMAIN Append(q, x) /\ Append(q, x)[i] = q[i] /\ Len(q) + 1 >= i
         /\ Len(q) + 1 \in DOMAIN Append(q, x) /\ Append(q, x)[Len(q) + 1] = x /\ Len(q) + 1 >= Len(q) + 1
         /\ \A i \in DOMAIN Append(q, x) : i \in DOMAIN q \/ i = Len(q) + 1
<1>1. /\ Append(q, x) \in Seq(X) /\ DOMAIN q = 1 .. Len(q) /\ DOMAIN Append(q, x) = 1 .. Len(q) + 1 /\ Len(q) \in Nat
      /\ \A i \in 1 .. Len(q) : Append(q, x)[i] = q[i]
      /\ Append(q, x)[Len(q) + 1] = x
  OBVIOUS
<1> QED
  BY <1>1

LEMMA GrowingIn ==
  ASSUME NEW X, NEW q \in Seq(X), NEW x \in X
  PROVE  Append(q, x) \in Seq(X) /\ \A y : In(Append(q, x), y) <=> In(q, y) \/ y = x
<1> DEFINE r == Append(q, x)
<1>1. /\ r \in Seq(X)
      /\ \A i \in DOMAIN q : i \in DOMAIN r /\ r[i] = q[i]
      /\ Len(q) + 1 \in DOMAIN r /\ r[Len(q) + 1] = x
      /\ \A i \in DOMAIN r : i \in DOMAIN q \/ i = Len(q) + 1
  BY Growing
<1> HIDE DEF r
<1>2. \A y : In(r, y) <=> In(q, y) \/ y = x
  BY <1>1, Zenon DEF In
<1> QED
  BY <1>1, <1>2, Zenon DEF r

LEMMA Keys ==
  ASSUME NEW q \in Seq(Notes), NEW i \in DOMAIN q
  PROVE  q[i] \in Notes /\ q[i].key \in Services
<1>1. q[i] \in Notes
  OBVIOUS
<1> QED
  BY <1>1, Zenon DEF Notes

LEMMA Shrinking ==
  ASSUME NEW X, NEW q \in Seq(X), q # <<>>
  PROVE  /\ Head(q) \in X /\ Tail(q) \in Seq(X)
         /\ \A y : In(q, y) <=> y = Head(q) \/ In(Tail(q), y)
         /\ \A i \in DOMAIN Tail(q) : i + 1 \in DOMAIN q /\ Tail(q)[i] = q[i + 1]
         /\ 1 \in DOMAIN q /\ q[1] = Head(q)
         /\ \A j \in DOMAIN q : j = 1 \/ (j - 1 \in DOMAIN Tail(q) /\ Tail(q)[j - 1] = q[j])
<1>1. /\ Len(q) \in Nat \ {0} /\ DOMAIN q = 1 .. Len(q) /\ Head(q) \in X /\ Tail(q) \in Seq(X)
      /\ DOMAIN Tail(q) = 1 .. Len(q) - 1 /\ \A i \in 1 .. Len(q) - 1 : Tail(q)[i] = q[i + 1]
      /\ Head(q) = q[1]
  OBVIOUS
<1>2. /\ \A i \in DOMAIN Tail(q) : i + 1 \in DOMAIN q /\ Tail(q)[i] = q[i + 1]
      /\ 1 \in DOMAIN q /\ q[1] = Head(q)
  BY <1>1
<1>3. \A j \in DOMAIN q : j = 1 \/ (j - 1 \in DOMAIN Tail(q) /\ Tail(q)[j - 1] = q[j])
  <2> TAKE j \in DOMAIN q
  <2>1. CASE j # 1
    <3>1. j - 1 \in 1 .. Len(q) - 1 /\ (j - 1) + 1 = j
      BY <1>1, <2>1
    <3> QED
      BY <1>1, <3>1, Zenon
  <2> QED
    BY <2>1, Zenon
<1>4. \A y : In(q, y) <=> y = Head(q) \/ In(Tail(q), y)
  BY <1>1, <1>2, <1>3, ZenonT(40) DEF In
<1> QED
  BY <1>1, <1>2, <1>3, <1>4, Zenon

\* One of the queues is replaced.
SvcRequeued(S, r, T) == T = [S EXCEPT !.queue.svc = r]
SliceRequeued(S, r, T) == T = [S EXCEPT !.queue.slice = r]

LEMMA RequeuedSvc ==
  ASSUME NEW S \in InformerSets, NEW r \in Seq(Notes), NEW T, SvcRequeued(S, r, T)
  PROVE  Keeps(S, T) /\ T.queue.svc = r /\ T.queue.slice = S.queue.slice
<1> DEFINE q == [S.queue EXCEPT !.svc = r]
<1>1. S.queue \in Queues
  BY Zenon DEF InformerSets
<1>2. q \in Queues /\ q.svc = r /\ q.slice = S.queue.slice
  BY <1>1, Zenon DEF Queues
<1>3. T = [S EXCEPT !.queue = q]
  BY Zenon DEF SvcRequeued
<1> HIDE DEF q
<1> QED
  BY <1>2, <1>3, Zenon DEF InformerSets, Keeps

LEMMA RequeuedSlice ==
  ASSUME NEW S \in InformerSets, NEW r \in Seq(Services), NEW T, SliceRequeued(S, r, T)
  PROVE  Keeps(S, T) /\ T.queue.slice = r /\ T.queue.svc = S.queue.svc
<1> DEFINE q == [S.queue EXCEPT !.slice = r]
<1>1. S.queue \in Queues
  BY Zenon DEF InformerSets
<1>2. q \in Queues /\ q.slice = r /\ q.svc = S.queue.svc
  BY <1>1, Zenon DEF Queues
<1>3. T = [S EXCEPT !.queue = q]
  BY Zenon DEF SliceRequeued
<1> HIDE DEF q
<1> QED
  BY <1>2, <1>3, Zenon DEF InformerSets, Keeps

\* The oldest notification leaves: those behind it still have the current one behind them.
LEMMA LastPopped ==
  ASSUME NEW S \in InformerSets, LastIsCurrent(S), S.queue.svc # <<>>,
         NEW T, T.svc = S.svc, T.queue.svc = Tail(S.queue.svc)
  PROVE  LastIsCurrent(T)
<1> DEFINE q == S.queue.svc
<1>1. q \in Seq(Notes)
  BY ZenonT(40) DEF InformerSets, Queues
<1> SUFFICES ASSUME NEW i \in DOMAIN Tail(q), NEW k, k = Tail(q)[i].key, S.svc[k] # NoObj
             PROVE  \E j \in DOMAIN Tail(q) : j >= i /\ Tail(q)[j] = Note(S, k)
  BY SMTT(20) DEF LastIsCurrent, Note
<1>2. i + 1 \in DOMAIN q /\ Tail(q)[i] = q[i + 1] /\ i \in Nat \ {0}
  BY <1>1
<1>3. PICK j \in DOMAIN q : j >= i + 1 /\ q[j] = Note(S, k)
  BY <1>2, Zenon DEF LastIsCurrent
<1>4. j - 1 \in DOMAIN Tail(q) /\ Tail(q)[j - 1] = q[j] /\ j - 1 >= i
  <2>1. j \in Nat /\ j # 1 /\ j - 1 >= i
    BY <1>1, <1>2, <1>3, SMTT(20)
  <2> QED
    BY <1>1, <2>1, Shrinking, ZenonT(40)
<1> QED
  BY <1>3, <1>4, Zenon
\* An event is queued: the store changes for its Service only, and either the store no longer has it or
\* the event is of the Service as the store has it.
LEMMA LastPushed ==
  ASSUME NEW S \in InformerSets, LastIsCurrent(S), NEW x \in Notes,
         NEW T, T.queue.svc = Append(S.queue.svc, x), \A k \in Services : k # x.key => T.svc[k] = S.svc[k],
         T.svc[x.key] = NoObj \/ x = Note(T, x.key)
  PROVE  LastIsCurrent(T)
<1> DEFINE q == S.queue.svc
           r == T.queue.svc
<1>1. q \in Seq(Notes) /\ r = Append(q, x)
  BY Zenon DEF InformerSets, Queues
<1>2. /\ \A i \in DOMAIN q : i \in DOMAIN r /\ r[i] = q[i] /\ Len(q) + 1 >= i
      /\ Len(q) + 1 \in DOMAIN r /\ r[Len(q) + 1] = x /\ Len(q) + 1 >= Len(q) + 1
      /\ \A i \in DOMAIN r : i \in DOMAIN q \/ i = Len(q) + 1
  BY <1>1, Growing
<1> SUFFICES ASSUME NEW i \in DOMAIN r, NEW k, k = r[i].key, T.svc[k] # NoObj
             PROVE  \E j \in DOMAIN r : j >= i /\ r[j] = Note(T, k)
  BY ZenonT(40) DEF LastIsCurrent
<1> HIDE DEF r
<1>5. CASE k = x.key
  BY <1>2, <1>5, Zenon
<1>6. CASE k # x.key
  <2>1. i \in DOMAIN q /\ q[i].key = k
    BY <1>2, <1>6, Zenon
  <2>2. k \in Services
    BY <1>1, <2>1, Keys, Zenon
  <2>3. T.svc[k] = S.svc[k]
    BY <1>6, <2>2, Zenon
  <2>4. PICK j \in DOMAIN q : j >= i /\ q[j] = Note(S, k)
    BY <2>1, <2>3, ZenonT(40) DEF LastIsCurrent
  <2>5. j \in DOMAIN r /\ r[j] = Note(T, k)
    BY <1>2, <2>3, <2>4, Zenon DEF Note
  <2> QED
    BY <2>4, <2>5, Zenon
<1> QED
  BY <1>5, <1>6, Zenon

LEMMA LastSame ==
  ASSUME NEW S, NEW T, LastIsCurrent(S), T.svc = S.svc, T.queue.svc = S.queue.svc
  PROVE  LastIsCurrent(T)
BY DEF LastIsCurrent, Note

\* A store no longer has a Service, and its queue is as it was.
LEMMA LastForgotten ==
  ASSUME NEW S \in InformerSets, LastIsCurrent(S), NEW k, NEW T, T.queue.svc = S.queue.svc,
         \A j \in Services : j # k => T.svc[j] = S.svc[j], T.svc[k] = NoObj
  PROVE  LastIsCurrent(T)
<1> DEFINE q == S.queue.svc
<1>1. q \in Seq(Notes)
  BY Zenon DEF InformerSets, Queues
<1> SUFFICES ASSUME NEW i \in DOMAIN q, NEW m, m = q[i].key, T.svc[m] # NoObj
             PROVE  \E j \in DOMAIN q : j >= i /\ q[j] = Note(T, m)
  BY DEF LastIsCurrent
<1>2. m \in Services /\ T.svc[m] = S.svc[m]
  BY <1>1, Keys, Zenon
<1>3. Note(S, m) = Note(T, m)
  BY <1>2, Zenon DEF Note
<1> QED
  BY <1>2, <1>3, ZenonT(40) DEF LastIsCurrent

\* The Services Run's goroutine has still to deliver.
Todo == IF pass.pc \in {"apply", "settle"} THEN pass.todo ELSE {}

\* A delivery of Service k as the store has it is still to be started.
Due(k) ==
  \/ In(cur.queue.svc, Note(cur, k))
  \/ In(cur.queue.slice, k)
  \/ job["slice"] = [pc |-> "want", key |-> k, obj |-> cur.svc[k]]
  \/ [key |-> k, obj |-> cur.svc[k]] \in Todo

\* A goroutine has snapshot the slices of k and is about to send.
Delivering(k) == \E g \in Goroutines : job[g] = Held(k, cur.svc[k])

\* The proxy has for each port of k what the store says.
PortsCurrent(k) == \A p \in cur.svc[k].ports : table[k][p] = EpsOf(k, cur.slice[k])

\* What is delivered next is of the slice as it is now, or there is a later delivery.
HeldFresh ==
  \A g \in Goroutines : job[g].pc = "held" /\ Served(cur.svc[job[g].key]) =>
    job[g].slice = cur.slice[job[g].key] \/ Due(job[g].key)

\* The watcher answers for k: what a swapped-in informer set holds is delivered by the apply loop that
\* follows, and of a Service repaired from the live API the store is not yet trusted.
Owed(k) == Served(cur.svc[k]) /\ pass.pc \notin {"fresh", "prune"} /\ (pass.pc = "apply" \/ k \notin repaired)

\* No Service is forgotten.
Accounted == \A k \in Services : Owed(k) => Due(k) \/ Delivering(k) \/ PortsCurrent(k)

\* The entries of the API's log, and what a goroutine is doing.
SvcEntries == [kind : {"svc"}, key : Services, obj : Objs]
SliceEntries == [kind : {"slice"}, key : Services, obj : Slices]
Entries == SvcEntries \cup SliceEntries
Jobs == {Idle} \cup [pc : {"held"}, key : Services, obj : Objs, slice : Slices]
               \cup [pc : {"want"}, key : Services, obj : Objs]
Apis == [svc : [Services -> Objs], slice : [Services -> Slices]]
\* An informer set, current or syncing, whose queue ends in the store's own versions.
Sound(S) == S \in InformerSets /\ LastIsCurrent(S)

\* The shape of the state.
Forms ==
  /\ api \in Apis
  /\ log \in Seq(Entries)
  /\ Sound(cur)
  /\ next # NoSet \/ pass.pc = "sync" => Sound(next)
  /\ DOMAIN table = Services
  /\ job \in [Goroutines -> Jobs]

\* Run's goroutine delivers only from its apply loop.
PassForms ==
  /\ job["run"].pc = "held" => pass.pc \in {"apply", "settle"}
  /\ pass.pc \in {"apply", "settle", "prune"} => {"pc", "todo"} \subseteq DOMAIN pass
  /\ pass.pc \in {"apply", "settle"} => pass.todo \subseteq [key : Services, obj : Objs]
  /\ pass.pc = "repair" => "pc" \in DOMAIN pass

WatchInv == Forms /\ PassForms /\ HeldFresh /\ Accounted

\* A step that starts no delivery and ends none: a Service that is served is due after it, or it was not due,
\* the store has it as before, and neither its ports nor what it is owed have changed.
LEMMA Undisturbed ==
  ASSUME WatchInv,
         \A g \in Goroutines : job'[g].pc = "held" \/ job[g].pc = "held" => job'[g] = job[g],
         \A g \in Goroutines : job'[g].pc = "held" => job'[g].key \in Services,
         \A k \in Services :
           Served(cur'.svc[k]) =>
             \/ Due(k)'
             \/ /\ ~Due(k) /\ cur'.svc[k] = cur.svc[k] /\ cur'.slice[k] = cur.slice[k]
                /\ Owed(k)' => Owed(k) /\ table'[k] = table[k]
  PROVE  HeldFresh' /\ Accounted'
<1>1. HeldFresh'
  <2> SUFFICES ASSUME NEW g \in Goroutines, job'[g].pc = "held", NEW k \in Services, k = job'[g].key, Served(cur'.svc[k]), ~Due(k)'
               PROVE  job'[g].slice = cur'.slice[k]
    BY Zenon DEF HeldFresh
  <2>1. job'[g] = job[g] /\ ~Due(k) /\ cur'.svc[k] = cur.svc[k] /\ cur'.slice[k] = cur.slice[k]
    BY Zenon
  <2>2. job[g].pc = "held" /\ job[g].key = k /\ Served(cur.svc[k]) /\ HeldFresh
    BY <2>1, Zenon DEF WatchInv
  <2>3. Served(cur.svc[job[g].key]) /\ ~Due(job[g].key)
    BY <2>1, <2>2, Zenon
  <2>4. job[g].slice = cur.slice[job[g].key]
    BY <2>2, <2>3, Zenon DEF HeldFresh
  <2> QED
    BY <2>1, <2>2, <2>4, Zenon
<1>2. Accounted'
  <2> SUFFICES ASSUME NEW k \in Services, Owed(k)', ~Due(k)'
               PROVE  Delivering(k)' \/ PortsCurrent(k)'
    BY Zenon DEF Accounted
  <2>1. Served(cur'.svc[k])
    BY Zenon DEF Owed
  <2>2. /\ ~Due(k) /\ cur'.svc[k] = cur.svc[k] /\ cur'.slice[k] = cur.slice[k]
        /\ Owed(k) /\ table'[k] = table[k]
    BY <2>1, Zenon
  <2>3. CASE Delivering(k)
    <3>1. PICK g \in Goroutines : job[g] = Held(k, cur.svc[k])
      BY <2>3, Zenon DEF Delivering
    <3>2. job[g].pc = "held"
      BY <3>1 DEF Held
    <3>3. job'[g] = [pc |-> "held", key |-> k, obj |-> cur'.svc[k], slice |-> cur'.slice[k]]
      BY <2>2, <3>1, <3>2, Zenon DEF Held
    <3> QED
      BY <3>3, Zenon DEF Delivering, Held
  <2>4. CASE PortsCurrent(k)
    BY <2>2, <2>4, Zenon DEF PortsCurrent
  <2> QED
    BY <2>2, <2>3, <2>4, Zenon DEF WatchInv, Accounted
<1> QED
  BY <1>1, <1>2, Zenon

\* A goroutine that has taken a stripe takes its snapshot: only the Service it has may cease to be due.
LEMMA Started ==
  ASSUME WatchInv, NEW g \in Goroutines, job[g].pc # "held", NEW k \in Services, NEW obj, StripeFree(k),
         job' = [job EXCEPT ![g] = Held(k, obj)],
         cur'.svc = cur.svc, cur'.slice = cur.slice, table' = table,
         \A j \in Services : Due(j) => Due(j)' \/ (j = k /\ obj = cur.svc[k]),
         \A j \in Services : Owed(j)' => Owed(j)
  PROVE  HeldFresh' /\ Accounted'
<1>1. /\ job'[g] = Held(k, obj)
      /\ \A h \in Goroutines : h # g => job'[h] = job[h]
  BY Zenon DEF WatchInv, Forms
<1>2. \A h \in Goroutines : job[h].pc = "held" => job[h].key # k /\ job[h].key \in Services /\ h # g
  <2> SUFFICES ASSUME NEW h \in Goroutines, job[h].pc = "held" PROVE job[h].key # k /\ job[h].key \in Services
    BY Zenon
  <2>1. job[h] \in Jobs
    BY Zenon DEF WatchInv, Forms
  <2>2. job[h].key \in Services
    BY <2>1 DEF Jobs, Idle
  <2> QED
    BY <2>2, Zenon DEF StripeFree
<1>3. HeldFresh'
  <2> SUFFICES ASSUME NEW h \in Goroutines, job'[h].pc = "held", NEW j, j = job'[h].key, Served(cur'.svc[j]), ~Due(j)'
               PROVE  job'[h].slice = cur'.slice[j]
    BY Zenon DEF HeldFresh
  <2>1. CASE h = g
    BY <1>1, <2>1 DEF Held
  <2>2. CASE h # g
    <3>1. job'[h] = job[h] /\ j # k /\ j \in Services /\ job[h].pc = "held" /\ j = job[h].key
      BY <1>1, <1>2, <2>2, Zenon
    <3>2. ~Due(j)
      BY <3>1, Zenon
    <3> QED
      BY <3>1, <3>2, Zenon DEF WatchInv, HeldFresh
  <2> QED
    BY <2>1, <2>2, Zenon
<1>4. Accounted'
  <2> SUFFICES ASSUME NEW j \in Services, Owed(j)', ~Due(j)'
               PROVE  Delivering(j)' \/ PortsCurrent(j)'
    BY Zenon DEF Accounted
  <2>1. CASE Due(j)
    <3>1. job'[g] = Held(j, cur.svc[j])
      BY <1>1, <2>1, Zenon
    <3> QED
      BY <3>1, Zenon DEF Delivering, Held
  <2>2. CASE Delivering(j)
    <3>1. PICK h \in Goroutines : job[h] = Held(j, cur.svc[j])
      BY <2>2, Zenon DEF Delivering
    <3>2. job[h].pc = "held"
      BY <3>1 DEF Held
    <3>3. job'[h] = Held(j, cur.svc[j])
      BY <1>1, <1>2, <3>1, <3>2, Zenon
    <3> QED
      BY <3>3, Zenon DEF Delivering, Held
  <2>3. CASE PortsCurrent(j)
    BY <2>3, Zenon DEF PortsCurrent
  <2> QED
    BY <2>1, <2>2, <2>3, Zenon DEF WatchInv, Accounted
<1> QED
  BY <1>3, <1>4, Zenon

\* The store and the queue after an event of a Service.
SvcEffect(S, e, T) ==
  /\ T \in InformerSets /\ LastIsCurrent(T)
  /\ T.svc = [S.svc EXCEPT ![e.key] = e.obj] /\ T.slice = S.slice /\ T.queue.slice = S.queue.slice
  /\ \A y : In(S.queue.svc, y) => In(T.queue.svc, y)
  /\ e.obj # NoObj => In(T.queue.svc, Note(T, e.key))

LEMMA SvcApplied ==
  ASSUME NEW S \in InformerSets, LastIsCurrent(S), NEW e \in SvcEntries, NEW n \in Nat
  PROVE  SvcEffect(S, e, Applied(S, "svc", e, n))
<1> SUFFICES ASSUME NEW T, T = Applied(S, "svc", e, n) PROVE SvcEffect(S, e, T)
  BY Zenon
<1> USE DEF SvcEffect
<1>0. e.key \in Services /\ e.obj \in Objs
  BY Zenon DEF SvcEntries
<1> DEFINE stored == [S EXCEPT !.at["svc"] = n, !["svc"][e.key] = e.obj]
           at == [S.at EXCEPT !["svc"] = n]
           svc == [S.svc EXCEPT ![e.key] = e.obj]
<1>1. S = [svc |-> S.svc, slice |-> S.slice, at |-> S.at, queue |-> S.queue]
  BY Zenon DEF InformerSets
<1>2. stored = [svc |-> svc, slice |-> S.slice, at |-> at, queue |-> S.queue]
  <2> DEFINE U == [S EXCEPT !.at["svc"] = n]
  <2>1. U = [svc |-> S.svc, slice |-> S.slice, at |-> at, queue |-> S.queue]
    BY <1>1
  <2>2. stored = [U EXCEPT !["svc"][e.key] = e.obj]
    BY Zenon
  <2>3. stored = [U EXCEPT !.svc = [U.svc EXCEPT ![e.key] = e.obj]]
    BY <2>2, Zenon
  <2>4. U.svc = S.svc
    BY <2>1, Zenon
  <2> HIDE DEF U, stored
  <2>5. stored = [U EXCEPT !.svc = svc]
    BY <2>3, <2>4, Zenon
  <2> HIDE DEF svc, at
  <2> QED
    BY <2>1, <2>5, Zenon
<1> HIDE DEF stored
<1>3. svc \in [Services -> Objs] /\ svc[e.key] = e.obj /\ \A k \in Services : k # e.key => svc[k] = S.svc[k]
  BY <1>0, Zenon DEF InformerSets
<1>4. /\ stored \in InformerSets /\ stored.svc = svc /\ stored.slice = S.slice /\ stored.queue = S.queue
  <2>1. at \in [Kinds -> Nat]
    BY Zenon DEF InformerSets
  <2> HIDE DEF at, svc
  <2> QED
    BY <1>2, <1>3, <2>1, Zenon DEF InformerSets
<1>5. S.queue.svc \in Seq(Notes)
  BY Zenon DEF InformerSets, Queues
<1> HIDE DEF svc
<1>6. ASSUME NEW x \in Notes, x.key = e.key, e.obj = NoObj \/ x = [key |-> e.key, obj |-> e.obj, gone |-> FALSE],
             T = [stored EXCEPT !.queue.svc = Append(S.queue.svc, x)]
      PROVE  /\ T \in InformerSets /\ LastIsCurrent(T)
             /\ T.svc = svc /\ T.slice = S.slice /\ T.queue.slice = S.queue.slice
             /\ \A y : In(S.queue.svc, y) => In(T.queue.svc, y)
             /\ e.obj # NoObj => In(T.queue.svc, Note(T, e.key))
  <2>1. /\ Append(S.queue.svc, x) \in Seq(Notes)
        /\ \A y : In(Append(S.queue.svc, x), y) <=> In(S.queue.svc, y) \/ y = x
    BY <1>5, GrowingIn
  <2>2. Keeps(stored, T) /\ T.queue.svc = Append(S.queue.svc, x) /\ T.queue.slice = stored.queue.slice
    <3> DEFINE r == Append(S.queue.svc, x)
    <3>1. r \in Seq(Notes) /\ SvcRequeued(stored, r, T) /\ stored \in InformerSets
      BY <1>4, <1>6, <2>1, Zenon DEF SvcRequeued
    <3> HIDE DEF r
    <3>2. Keeps(stored, T) /\ T.queue.svc = r /\ T.queue.slice = stored.queue.slice
      BY <3>1, RequeuedSvc, ZenonT(40)
    <3> QED
      BY <3>2, Zenon DEF r
  <2>3. T.svc = svc /\ T \in InformerSets /\ T.slice = S.slice
    BY <1>4, <2>2, Zenon DEF Keeps
  <2>4. T.svc[x.key] = NoObj \/ x = Note(T, x.key)
    BY <1>3, <1>6, <2>3, Zenon DEF Note
  <2>5. \A k \in Services : k # x.key => T.svc[k] = S.svc[k]
    BY <1>3, <1>6, <2>3, Zenon
  <2>6. LastIsCurrent(T)
    BY <1>6, <2>2, <2>4, <2>5, LastPushed, Zenon
  <2> QED
    <3>1. T.queue.slice = S.queue.slice
      BY <1>4, <2>2, Zenon
    <3>2. \A y : In(S.queue.svc, y) => In(T.queue.svc, y)
      BY <2>1, <2>2, Zenon
    <3>3. e.obj # NoObj => In(T.queue.svc, Note(T, e.key))
      BY <1>3, <1>6, <2>1, <2>2, <2>3, Zenon DEF Note
    <3> QED
      BY <2>3, <2>6, <3>1, <3>2, <3>3, Zenon
<1>7. CASE e.obj # NoObj
  <2>1. [key |-> e.key, obj |-> e.obj, gone |-> FALSE] \in Notes
    BY <1>0, Zenon DEF Notes
  <2>2. T = [stored EXCEPT !.queue.svc = Append(S.queue.svc, [key |-> e.key, obj |-> e.obj, gone |-> FALSE])]
    <3> DEFINE x == [key |-> e.key, obj |-> e.obj, gone |-> FALSE]
    <3>1. T = [stored EXCEPT !.queue.svc = Append(stored.queue.svc, x)]
      BY <1>7, Zenon DEF Applied, stored
    <3> QED
      BY <1>4, <3>1, Zenon
  <2> QED
    BY <1>6, <2>1, <2>2, Zenon DEF svc
<1>8. CASE e.obj = NoObj /\ S.svc[e.key] # NoObj
  <2>1. [key |-> e.key, obj |-> S.svc[e.key], gone |-> TRUE] \in Notes
    BY <1>0, Zenon DEF Notes, InformerSets
  <2>2. T = [stored EXCEPT !.queue.svc = Append(S.queue.svc, [key |-> e.key, obj |-> S.svc[e.key], gone |-> TRUE])]
    <3> DEFINE x == [key |-> e.key, obj |-> S.svc[e.key], gone |-> TRUE]
    <3>1. T = [stored EXCEPT !.queue.svc = Append(stored.queue.svc, x)]
      BY <1>8, Zenon DEF Applied, stored
    <3> QED
      BY <1>4, <3>1, Zenon
  <2> QED
    BY <1>6, <1>8, <2>1, <2>2, Zenon DEF svc
<1>9. CASE e.obj = NoObj /\ S.svc[e.key] = NoObj
  <2>1. T = stored
    BY <1>9, Zenon DEF Applied, stored
  <2>2. LastIsCurrent(T)
    BY <1>3, <1>4, <1>9, <2>1, LastForgotten
  <2> QED
    BY <1>4, <1>9, <2>1, <2>2, Zenon DEF svc
<1> QED
  BY <1>7, <1>8, <1>9, Zenon

\* And after an event of its EndpointSlice.
SliceEffect(S, e, T) ==
  /\ T \in InformerSets /\ LastIsCurrent(T)
  /\ T.slice = [S.slice EXCEPT ![e.key] = e.obj] /\ T.svc = S.svc /\ T.queue.svc = S.queue.svc
  /\ \A y : In(S.queue.slice, y) => In(T.queue.slice, y)
  /\ S.slice[e.key] = e.obj \/ In(T.queue.slice, e.key)

LEMMA SliceApplied ==
  ASSUME NEW S \in InformerSets, LastIsCurrent(S), NEW e \in SliceEntries, NEW n \in Nat
  PROVE  SliceEffect(S, e, Applied(S, "slice", e, n))
<1> SUFFICES ASSUME NEW T, T = Applied(S, "slice", e, n) PROVE SliceEffect(S, e, T)
  BY Zenon
<1> USE DEF SliceEffect
<1>0. e.key \in Services /\ e.obj \in Slices
  BY Zenon DEF SliceEntries
<1> DEFINE stored == [S EXCEPT !.at["slice"] = n, !["slice"][e.key] = e.obj]
           at == [S.at EXCEPT !["slice"] = n]
           slice == [S.slice EXCEPT ![e.key] = e.obj]
<1>1. S = [svc |-> S.svc, slice |-> S.slice, at |-> S.at, queue |-> S.queue]
  BY Zenon DEF InformerSets
<1>2. stored = [svc |-> S.svc, slice |-> slice, at |-> at, queue |-> S.queue]
  <2> DEFINE U == [S EXCEPT !.at["slice"] = n]
  <2>1. U = [svc |-> S.svc, slice |-> S.slice, at |-> at, queue |-> S.queue]
    BY <1>1
  <2>2. stored = [U EXCEPT !["slice"][e.key] = e.obj]
    BY Zenon
  <2>3. stored = [U EXCEPT !.slice = [U.slice EXCEPT ![e.key] = e.obj]]
    BY <2>2, Zenon
  <2>4. U.slice = S.slice
    BY <2>1, Zenon
  <2> HIDE DEF U, stored
  <2>5. stored = [U EXCEPT !.slice = slice]
    BY <2>3, <2>4, Zenon
  <2> HIDE DEF slice, at
  <2> QED
    BY <2>1, <2>5, Zenon
<1> HIDE DEF stored
<1>3. stored \in InformerSets /\ stored.svc = S.svc /\ stored.slice = slice /\ stored.queue = S.queue
  <2>1. at \in [Kinds -> Nat] /\ slice \in [Services -> Slices]
    BY <1>0, Zenon DEF InformerSets
  <2> HIDE DEF at, slice
  <2> QED
    BY <1>2, <2>1, Zenon DEF InformerSets
<1>4. S.queue.slice \in Seq(Services)
  BY Zenon DEF InformerSets, Queues
<1> HIDE DEF slice
<1> DEFINE queued == e.obj # NoSlice \/ S.slice[e.key] # NoSlice
<1>4a. CASE ~queued
  <2>1. T = stored
    BY <1>4a, Zenon DEF Applied, stored
  <2>2. LastIsCurrent(T)
    BY <1>3, <2>1, LastSame, Zenon
  <2> QED
    BY <1>3, <1>4a, <2>1, <2>2, Zenon DEF slice
<1> SUFFICES ASSUME queued PROVE SliceEffect(S, e, T)
  BY <1>4a, Zenon
<1>5. T = [stored EXCEPT !.queue.slice = Append(S.queue.slice, e.key)]
  <2>1. T = [stored EXCEPT !.queue.slice = Append(stored.queue.slice, e.key)]
    BY Zenon DEF Applied, stored
  <2> QED
    BY <1>3, <2>1, Zenon
<1>6. /\ Append(S.queue.slice, e.key) \in Seq(Services)
      /\ \A y : In(Append(S.queue.slice, e.key), y) <=> In(S.queue.slice, y) \/ y = e.key
  BY <1>0, <1>4, GrowingIn
<1>7. Keeps(stored, T) /\ T.queue.slice = Append(S.queue.slice, e.key) /\ T.queue.svc = stored.queue.svc
  <2> DEFINE r == Append(S.queue.slice, e.key)
  <2>1. r \in Seq(Services) /\ SliceRequeued(stored, r, T) /\ stored \in InformerSets
    BY <1>3, <1>5, <1>6, Zenon DEF SliceRequeued
  <2> HIDE DEF r
  <2>2. Keeps(stored, T) /\ T.queue.slice = r /\ T.queue.svc = stored.queue.svc
    BY <2>1, RequeuedSlice, ZenonT(40)
  <2> QED
    BY <2>2, Zenon DEF r
<1>8. T \in InformerSets /\ T.slice = slice /\ T.svc = S.svc /\ T.queue.svc = S.queue.svc
  BY <1>3, <1>7, Zenon DEF Keeps
<1>9. LastIsCurrent(T)
  BY <1>8, LastSame, Zenon
<1> QED
  BY <1>6, <1>7, <1>8, <1>9, Zenon DEF slice

LEMMA JobForms ==
  ASSUME Forms, NEW g \in Goroutines
  PROVE  /\ job[g] \in Jobs
         /\ job[g].pc = "held" => job[g].key \in Services /\ job[g].slice \in Slices /\ job[g].obj \in Objs
<1>1. job[g] \in Jobs
  BY Zenon DEF Forms
<1> QED
  BY <1>1 DEF Jobs, Idle

\* A delivery ends: its ports have the slice it was started with.
LEMMA Delivered ==
  ASSUME WatchInv, NEW g \in Goroutines, Deliver(g)
  PROVE  HeldFresh' /\ Accounted'
<1> DEFINE k == job[g].key
<1>1. job[g].pc = "held" /\ k \in Services
  <2>1. Forms
    BY Zenon DEF WatchInv
  <2>2. job[g].pc = "held"
    BY Zenon DEF Deliver
  <2> QED
    BY <2>1, <2>2, JobForms, Zenon
<1>2. /\ job'[g] = Idle /\ \A h \in Goroutines : h # g => job'[h] = job[h]
  BY Zenon DEF Deliver, WatchInv, Forms
<1>3. /\ table'[k] = Given(k, job[g].obj, job[g].slice)
      /\ \A j \in Services : j # k => table'[j] = table[j]
  BY <1>1, Zenon DEF Deliver, WatchInv, Forms
<1>4. cur' = cur /\ pass' = pass /\ repaired' = repaired
  BY Zenon DEF Deliver, informerVars, passVars
<1>5. \A j \in Services : Due(j)' <=> Due(j)
  <2>1. \A j \in Services : job'["slice"] = [pc |-> "want", key |-> j, obj |-> cur.svc[j]] <=>
                            job["slice"] = [pc |-> "want", key |-> j, obj |-> cur.svc[j]]
    <3>1. CASE g = "slice"
      BY <1>1, <1>2, <3>1 DEF Idle
    <3>2. CASE g # "slice"
      BY <1>2, <3>2, Zenon DEF Goroutines
    <3> QED
      BY <3>1, <3>2, Zenon
  <2> QED
    BY <1>4, <2>1, Zenon DEF Due, Todo, Note
<1>6. \A j \in Services : Owed(j)' <=> Owed(j)
  BY <1>4, Zenon DEF Owed
<1>7. HeldFresh'
  <2> SUFFICES ASSUME NEW h \in Goroutines, job'[h].pc = "held", NEW j, j = job'[h].key, Served(cur'.svc[j]), ~Due(j)'
               PROVE  job'[h].slice = cur'.slice[j]
    BY Zenon DEF HeldFresh
  <2>1. h # g
    BY <1>2 DEF Idle
  <2>2. job'[h] = job[h]
    BY <1>2, <2>1, Zenon
  <2>3. j \in Services
    BY <2>2, JobForms, Zenon DEF WatchInv
  <2> QED
    BY <1>4, <1>5, <2>2, <2>3, Zenon DEF WatchInv, HeldFresh
<1>8. Accounted'
  <2> SUFFICES ASSUME NEW j \in Services, Owed(j)', ~Due(j)'
               PROVE  Delivering(j)' \/ PortsCurrent(j)'
    BY Zenon DEF Accounted
  <2>1. Owed(j) /\ ~Due(j) /\ Served(cur.svc[j])
    BY <1>5, <1>6, Zenon DEF Owed
  <2>2. ASSUME NEW h \in Goroutines, h # g, job[h] = Held(j, cur.svc[j])
        PROVE  Delivering(j)'
    BY <1>2, <1>4, <2>2, Zenon DEF Delivering, Held
  <2>3. CASE j # k
    <3>1. CASE Delivering(j)
      <4>1. PICK h \in Goroutines : job[h] = Held(j, cur.svc[j])
        BY <3>1, Zenon DEF Delivering
      <4>2. job[h].key = j
        BY <4>1 DEF Held
      <4> QED
        BY <2>2, <2>3, <4>1, <4>2, Zenon
    <3>2. CASE PortsCurrent(j)
      BY <1>3, <1>4, <2>3, <3>2, Zenon DEF PortsCurrent
    <3> QED
      BY <2>1, <3>1, <3>2, Zenon DEF WatchInv, Accounted
  <2>4. CASE j = k
    <3>1. job[g].slice = cur.slice[j]
      BY <1>1, <2>1, <2>4, Zenon DEF WatchInv, HeldFresh
    <3>2. cur.svc[j].ports \subseteq Ports
      BY <2>1, Zenon DEF WatchInv, Forms, Sound, InformerSets, Objs, Served
    <3>3. \A p \in Ports : table'[j][p] = IF job[g].obj # NoObj /\ p \in job[g].obj.ports
                                          THEN EpsOf(j, cur.slice[j]) ELSE table[j][p]
      BY <1>3, <2>4, <3>1, Zenon DEF Given
    <3>4. CASE PortsCurrent(j)
      BY <1>4, <3>2, <3>3, <3>4, Zenon DEF PortsCurrent
    <3>5. ASSUME NEW h \in Goroutines, job[h] = Held(j, cur.svc[j])
          PROVE  Delivering(j)' \/ PortsCurrent(j)'
      <4>1. CASE h = g
        <5>1. job[g].obj = cur.svc[j]
          BY <3>5, <4>1 DEF Held
        <5> QED
          BY <1>4, <2>1, <3>2, <3>3, <5>1, Zenon DEF PortsCurrent, Served
      <4> QED
        BY <2>2, <3>5, <4>1, Zenon
    <3> QED
      BY <2>1, <3>4, <3>5, Zenon DEF WatchInv, Accounted, Delivering
  <2> QED
    BY <2>3, <2>4, Zenon
<1> QED
  BY <1>7, <1>8, Zenon

\* A step of Run's goroutine that leaves the store, the queues and the deliveries alone.
LEMMA RunUndisturbed ==
  ASSUME WatchInv, cur' = cur, job' = job,
         \A k \in Services : Served(cur.svc[k]) =>
           \/ [key |-> k, obj |-> cur.svc[k]] \in Todo'
           \/ /\ [key |-> k, obj |-> cur.svc[k]] \notin Todo
              /\ Owed(k)' => Owed(k) /\ table'[k] = table[k]
  PROVE  HeldFresh' /\ Accounted'
<1>1. ASSUME NEW k \in Services, Served(cur'.svc[k])
      PROVE  \/ Due(k)'
             \/ /\ ~Due(k) /\ cur'.svc[k] = cur.svc[k] /\ cur'.slice[k] = cur.slice[k]
                /\ Owed(k)' => Owed(k) /\ table'[k] = table[k]
  <2>1. CASE [key |-> k, obj |-> cur.svc[k]] \in Todo'
    BY <2>1, Zenon DEF Due
  <2>2. CASE [key |-> k, obj |-> cur.svc[k]] \notin Todo' /\ [key |-> k, obj |-> cur.svc[k]] \notin Todo
    <3>1. Due(k) => Due(k)'
      BY <2>2, Zenon DEF Due, Note
    <3> QED
      BY <1>1, <2>2, <3>1, Zenon
  <2> QED
    BY <1>1, <2>1, <2>2, Zenon
<1>2. \A g \in Goroutines : job'[g].pc = "held" => job'[g].key \in Services
  BY JobForms, Zenon DEF WatchInv
<1> QED
  BY <1>1, <1>2, Undisturbed, Zenon

\* A step of Run's goroutine that waits for no reconcile, with the set that is syncing sound or gone.
LEMMA RunSteps ==
  ASSUME WatchInv, Todo = {}, job["run"].pc # "held", UNCHANGED <<apiVars, cur, job>>, DOMAIN table' = DOMAIN table,
         next' # NoSet \/ pass'.pc = "sync" => Sound(next'),
         pass'.pc \in {"apply", "settle", "prune"} => {"pc", "todo"} \subseteq DOMAIN pass',
         pass'.pc \in {"apply", "settle"} => pass'.todo \subseteq [key : Services, obj : Objs],
         pass'.pc = "repair" => "pc" \in DOMAIN pass',
         \A k \in Services : Owed(k)' =>
           [key |-> k, obj |-> cur.svc[k]] \in Todo' \/ (Owed(k) /\ table'[k] = table[k])
  PROVE  WatchInv'
<1>1. cur' = cur /\ job' = job /\ api' = api /\ log' = log
  BY Zenon DEF apiVars
<1>2. Forms'
  BY <1>1, Zenon DEF WatchInv, Forms
<1>3. PassForms'
  BY <1>1, Zenon DEF PassForms
<1>4. HeldFresh' /\ Accounted'
  <2>1. ASSUME NEW k \in Services
        PROVE  \/ [key |-> k, obj |-> cur.svc[k]] \in Todo'
               \/ /\ [key |-> k, obj |-> cur.svc[k]] \notin Todo
                  /\ Owed(k)' => Owed(k) /\ table'[k] = table[k]
    BY Zenon
  <2> QED
    BY <1>1, <2>1, RunUndisturbed, Zenon
<1> QED
  BY <1>2, <1>3, <1>4, Zenon DEF WatchInv

LEMMA NextSound ==
  ASSUME WatchInv, UNCHANGED next, pass.pc = "sync" \/ pass'.pc # "sync"
  PROVE  next' # NoSet \/ pass'.pc = "sync" => Sound(next')
BY Zenon DEF WatchInv, Forms

LEMMA ListSteps ==
  ASSUME WatchInv, ListServices \/ ListSlices \/ ListFails \/ RepairDone \/ SyncFails
  PROVE  WatchInv'
<1>1. /\ pass.pc \in {"wait", "confirm", "listing", "repair", "sync"}
      /\ pass'.pc \in {"listing", "compare", "wait", "relist"}
      /\ UNCHANGED <<apiVars, cur, job, table, repaired>>
      /\ UNCHANGED next \/ next' = NoSet
  BY DEF ListServices, ListSlices, ListFails, RepairDone, SyncFails, Waiting, informerVars
<1>2. job["run"].pc # "held" /\ Todo = {}
  BY <1>1, Zenon DEF WatchInv, PassForms, Todo
<1>3. next' # NoSet \/ pass'.pc = "sync" => Sound(next')
  BY <1>1, NextSound, Zenon
<1>4. \A k \in Services : Owed(k)' => Owed(k) /\ table'[k] = table[k]
  BY <1>1, Zenon DEF Owed
<1>5. pass'.pc \notin {"apply", "settle", "prune", "repair"}
  BY <1>1, Zenon
<1> QED
  BY <1>1, <1>2, <1>3, <1>4, <1>5, RunSteps, Zenon

LEMMA CompareStep ==
  ASSUME WatchInv, Compare
  PROVE  WatchInv'
<1>1. pass.pc = "compare" /\ UNCHANGED <<apiVars, cur, next, job, table>>
  BY Zenon DEF Compare, informerVars
<1>2. job["run"].pc # "held" /\ Todo = {}
  BY <1>1, Zenon DEF WatchInv, PassForms, Todo
<1>3. DOMAIN table' = DOMAIN table
  BY <1>1, Zenon
<1>4. CASE pass' = [pc |-> "confirm"] /\ UNCHANGED repaired
  <2>1. pass'.pc = "confirm"
    BY <1>4, Zenon
  <2>2. next' # NoSet \/ pass'.pc = "sync" => Sound(next')
    BY <1>1, <2>1, NextSound, Zenon
  <2>3. \A k \in Services : Owed(k)' => Owed(k) /\ table'[k] = table[k]
    BY <1>1, <1>4, <2>1, Zenon DEF Owed
  <2> QED
    BY <1>1, <1>2, <1>3, <2>1, <2>2, <2>3, RunSteps, Zenon
<1>5. ASSUME NEW live, NEW divs, NEW todo, NEW tripped,
             todo = {t \in StoreView(cur) : t.key \in Settled(divs)}, repaired' = repaired \ Settled(divs),
             pass' = [pc |-> "settle", live |-> live, divs |-> divs, tripped |-> tripped, todo |-> todo]
      PROVE  WatchInv'
  <2>1. pass'.pc = "settle" /\ pass'.todo = todo /\ DOMAIN pass' = {"pc", "live", "divs", "tripped", "todo"}
    BY <1>5, Zenon
  <2>2. next' # NoSet \/ pass'.pc = "sync" => Sound(next')
    BY <1>1, <2>1, NextSound, Zenon
  <2>3. todo \subseteq [key : Services, obj : Objs]
    BY <1>5 DEF StoreView, WatchInv, Forms, Sound, InformerSets
  <2>4. ASSUME NEW k \in Services, Owed(k)'
        PROVE  [key |-> k, obj |-> cur.svc[k]] \in Todo' \/ (Owed(k) /\ table'[k] = table[k])
    <3>1. Served(cur.svc[k]) /\ k \notin repaired'
      BY <1>1, <2>1, <2>4, Zenon DEF Owed
    <3>2. CASE k \notin repaired
      BY <1>1, <3>1, <3>2, Zenon DEF Owed
    <3>3. CASE k \in repaired
      <4>1. k \in Settled(divs)
        BY <1>5, <3>1, <3>3, Zenon
      <4>2. [key |-> k, obj |-> cur.svc[k]] \in StoreView(cur)
        BY <3>1, Zenon DEF StoreView, Served
      <4>3. [key |-> k, obj |-> cur.svc[k]] \in todo
        BY <1>5, <4>1, <4>2, Zenon
      <4> QED
        BY <2>1, <4>3, Zenon DEF Todo
    <3> QED
      BY <3>2, <3>3, Zenon
  <2> QED
    BY <1>1, <1>2, <1>3, <2>1, <2>2, <2>3, <2>4, RunSteps, Zenon
<1> QED
  BY <1>4, <1>5, Zenon DEF Compare

LEMMA SettleSteps ==
  ASSUME WatchInv, StoreApplied \/ Decide
  PROVE  WatchInv'
<1>1. /\ pass.pc \in {"apply", "settle"} /\ pass.todo = {} /\ job["run"] = Idle
      /\ UNCHANGED <<apiVars, cur, next, job, table>>
      /\ StoreApplied \/ (pass.pc = "settle" /\ UNCHANGED repaired)
  BY Zenon DEF StoreApplied, Decide, informerVars
<1>2. pass'.pc \in {"wait", "relist", "repair"} /\ (pass'.pc = "repair" => "pc" \in DOMAIN pass')
  <2>1. CASE StoreApplied
    BY <2>1, Zenon DEF StoreApplied, Waiting
  <2>2. CASE Decide
    <3>1. \/ pass' = Waiting \/ pass' = [pc |-> "relist"]
          \/ pass' = [pc |-> "repair", live |-> pass.live, divs |-> pass.divs]
      BY <2>2, Zenon DEF Decide
    <3> QED
      BY <3>1 DEF Waiting
  <2> QED
    BY <2>1, <2>2, Zenon
<1>3. job["run"].pc # "held" /\ Todo = {} /\ DOMAIN table' = DOMAIN table
  BY <1>1 DEF Todo, Idle
<1>4. next' # NoSet \/ pass'.pc = "sync" => Sound(next')
  BY <1>1, <1>2, NextSound, Zenon
<1>5. \A k \in Services : Owed(k)' => Owed(k) /\ table'[k] = table[k]
  BY <1>1, <1>2, Zenon DEF Owed, StoreApplied
<1> QED
  BY <1>1, <1>2, <1>3, <1>4, <1>5, RunSteps, Zenon

LEMMA RepairStep ==
  ASSUME WatchInv, RepairService
  PROVE  WatchInv'
<1>1. pass.pc = "repair" /\ UNCHANGED <<apiVars, cur, next, job>>
  BY Zenon DEF RepairService, informerVars
<1>2. job["run"].pc # "held" /\ Todo = {}
  BY <1>1, Zenon DEF WatchInv, PassForms, Todo
<1>3. PICK k : /\ pass' = [pass EXCEPT !.divs = {d \in @ : d[1] # k}]
               /\ \/ UNCHANGED <<table, repaired>>
                  \/ (\E v : table' = [table EXCEPT ![k] = v]) /\ repaired' = repaired \cup {k}
  BY Zenon DEF RepairService
<1>4. pass'.pc = "repair" /\ "pc" \in DOMAIN pass'
  BY <1>1, <1>3, Zenon DEF WatchInv, PassForms
<1>5. next' # NoSet \/ pass'.pc = "sync" => Sound(next')
  BY <1>1, <1>4, NextSound, Zenon
<1>6. DOMAIN table' = DOMAIN table
  BY <1>3, Zenon
<1>7. ASSUME NEW j \in Services, Owed(j)'
      PROVE  Owed(j) /\ table'[j] = table[j]
  <2>1. j \notin repaired' /\ Served(cur.svc[j])
    BY <1>1, <1>4, <1>7, Zenon DEF Owed
  <2>2. table'[j] = table[j] /\ j \notin repaired
    BY <1>3, <2>1, Zenon DEF WatchInv, Forms
  <2> QED
    BY <1>1, <2>1, <2>2, Zenon DEF Owed
<1> QED
  BY <1>1, <1>2, <1>4, <1>5, <1>6, <1>7, RunSteps, Zenon

LEMMA PruneSteps ==
  ASSUME WatchInv, Compared \/ Prune
  PROVE  WatchInv'
<1>1. pass.pc \in {"fresh", "prune"} /\ UNCHANGED <<apiVars, cur, next, job, repaired>>
  BY Zenon DEF Compared, Prune, informerVars
<1>2. job["run"].pc # "held" /\ Todo = {}
  BY <1>1, Zenon DEF WatchInv, PassForms, Todo
<1>3. CASE pass'.pc = "prune" /\ {"pc", "todo"} \subseteq DOMAIN pass' /\ DOMAIN table' = DOMAIN table
  <2>1. next' # NoSet \/ pass'.pc = "sync" => Sound(next')
    BY <1>1, <1>3, NextSound, Zenon
  <2>2. \A k \in Services : ~Owed(k)'
    BY <1>3, Zenon DEF Owed
  <2> QED
    BY <1>1, <1>2, <1>3, <2>1, <2>2, RunSteps, Zenon
<1>4. CASE pass' = [pc |-> "apply", todo |-> StoreView(cur)] /\ UNCHANGED table
  <2>1. pass'.pc = "apply" /\ pass'.todo = StoreView(cur) /\ DOMAIN pass' = {"pc", "todo"}
    BY <1>4, Zenon
  <2>2. next' # NoSet \/ pass'.pc = "sync" => Sound(next')
    BY <1>1, <2>1, NextSound, Zenon
  <2>3. StoreView(cur) \subseteq [key : Services, obj : Objs]
    BY DEF StoreView, WatchInv, Forms, Sound, InformerSets
  <2>4. ASSUME NEW k \in Services, Owed(k)'
        PROVE  [key |-> k, obj |-> cur.svc[k]] \in Todo'
    <3>1. Served(cur.svc[k])
      BY <1>1, <2>4, Zenon DEF Owed
    <3>2. [key |-> k, obj |-> cur.svc[k]] \in StoreView(cur)
      BY <3>1, Zenon DEF StoreView, Served
    <3> QED
      BY <2>1, <3>2, Zenon DEF Todo
  <2> QED
    BY <1>1, <1>2, <1>4, <2>1, <2>2, <2>3, <2>4, RunSteps, Zenon
<1>5. CASE Compared
  BY <1>3, <1>5, Zenon DEF Compared
<1>6. ASSUME NEW t \in pass.todo, table' = [table EXCEPT ![t.key] = Without(t.key, t.obj)],
             pass' = [pass EXCEPT !.todo = @ \ {t}], pass.pc = "prune"
      PROVE  WatchInv'
  <2>1. {"pc", "todo"} \subseteq DOMAIN pass
    BY <1>6, Zenon DEF WatchInv, PassForms
  <2> QED
    BY <1>3, <1>6, <2>1, Zenon
<1> QED
  BY <1>4, <1>5, <1>6, Zenon DEF Prune

\* The Adds that a new informer set queues.
LEMMA Listed ==
  ASSUME NEW X \in SUBSET Services
  PROVE  Listing(X) \in [1 .. Cardinality(X) -> X] /\ Cardinality(X) \in Nat
<1>1. Cardinality(X) \in Nat /\ Listing(X) \in Orders(X)
  BY WatchAssumption, Zenon DEF Listing
<1> QED
  BY <1>1, Zenon DEF Orders

LEMMA FreshSound == api \in Apis /\ log \in Seq(Entries) => Sound(Fresh)
<1> SUFFICES ASSUME api \in Apis, log \in Seq(Entries) PROVE Sound(Fresh)
  BY Zenon
<1> DEFINE X == {k \in Services : api.svc[k] # NoObj}
           Y == {k \in Services \ DOMAIN Static : api.slice[k] # NoSlice}
           n == Cardinality(X)
           ks == Listing(X)
           qs == [i \in DOMAIN ks |-> [key |-> ks[i], obj |-> api.svc[ks[i]], gone |-> FALSE]]
           ql == Listing(Y)
           at == [kind \in Kinds |-> Len(log)]
<1>1. X \in SUBSET Services /\ Y \in SUBSET Services
  BY Zenon
<1>2. ks \in [1 .. n -> X] /\ n \in Nat /\ ql \in [1 .. Cardinality(Y) -> Y] /\ Cardinality(Y) \in Nat
  BY <1>1, Listed, Zenon
<1>3. Fresh = [svc |-> api.svc, slice |-> api.slice, at |-> at, queue |-> [svc |-> qs, slice |-> ql]]
  BY Zenon DEF Fresh
<1>4. DOMAIN qs = 1 .. n /\ qs = [i \in 1 .. n |-> qs[i]]
  BY <1>2, Zenon
<1>5. \A i \in 1 .. n : ks[i] \in Services /\ qs[i] = [key |-> ks[i], obj |-> api.svc[ks[i]], gone |-> FALSE]
  BY <1>1, <1>2, Zenon
<1>6. at \in [Kinds -> Nat]
  BY DEF Entries
<1> HIDE DEF X, Y, n, ks, qs, ql, at
<1>7. ASSUME NEW i \in 1 .. n PROVE qs[i] \in Notes /\ qs[i] = [key |-> qs[i].key, obj |-> api.svc[qs[i].key], gone |-> FALSE]
  <2> DEFINE k == ks[i]
  <2>1. k \in Services /\ qs[i] = [key |-> k, obj |-> api.svc[k], gone |-> FALSE]
    BY <1>5, Zenon
  <2>2. api.svc[k] \in Objs
    BY <2>1, Zenon DEF Apis
  <2> HIDE DEF k
  <2> QED
    BY <2>1, <2>2 DEF Notes
<1>8. qs \in Seq(Notes) /\ ql \in Seq(Services)
  <2>1. \A m \in Nat : \A S : \A f \in [1 .. m -> S] : f \in Seq(S)
    OBVIOUS
  <2>2. qs \in [1 .. n -> Notes] /\ ql \in [1 .. Cardinality(Y) -> Services]
    BY <1>1, <1>2, <1>4, <1>7, Zenon
  <2> QED
    BY <1>2, <2>1, <2>2, Zenon
<1>9. Fresh \in InformerSets /\ Fresh.svc = api.svc /\ Fresh.queue.svc = qs
  BY <1>3, <1>6, <1>8, Zenon DEF InformerSets, Queues, Apis
<1>10. LastIsCurrent(Fresh)
  <2> SUFFICES ASSUME NEW i \in DOMAIN qs PROVE i >= i /\ qs[i] = Note(Fresh, qs[i].key)
    BY <1>9, Zenon DEF LastIsCurrent
  <2> QED
    BY <1>2, <1>4, <1>7, <1>9 DEF Note
<1> QED
  BY <1>9, <1>10, Zenon DEF Sound

LEMMA RelistStep ==
  ASSUME WatchInv, MaybeRelist
  PROVE  WatchInv'
<1>1. pass.pc = "relist" /\ UNCHANGED <<apiVars, cur, job, table, repaired>>
  BY Zenon DEF MaybeRelist
<1>2. job["run"].pc # "held" /\ Todo = {} /\ DOMAIN table' = DOMAIN table
  BY <1>1, Zenon DEF WatchInv, PassForms, Todo
<1>3. \/ pass' = Waiting /\ UNCHANGED next
      \/ pass' = [pc |-> "sync", was |-> synced] /\ next' = Fresh
  BY Zenon DEF MaybeRelist, Relist
<1>4. pass'.pc \in {"wait", "sync"}
  BY <1>3 DEF Waiting
<1>5. next' # NoSet \/ pass'.pc = "sync" => Sound(next')
  <2>1. Sound(Fresh)
    BY FreshSound, Zenon DEF WatchInv, Forms
  <2> QED
    BY <1>3, <2>1, NextSound DEF Waiting
<1>6. \A k \in Services : Owed(k)' => Owed(k) /\ table'[k] = table[k]
  BY <1>1, <1>4, Zenon DEF Owed
<1> QED
  BY <1>1, <1>2, <1>4, <1>5, <1>6, RunSteps, Zenon

LEMMA WatchInitial == Init => WatchInv
<1> SUFFICES ASSUME Init PROVE WatchInv
  BY Zenon
<1>1. api \in Apis
  BY WatchAssumption, Zenon DEF Init, Apis, Objs, Slices
<1>2. log \in Seq(Entries)
  BY DEF Init
<1>3. Sound(cur)
  BY <1>1, <1>2, FreshSound, Zenon DEF Init
<1>4. job["run"].pc # "held" /\ \A g \in Goroutines : job[g] = Idle
  BY Zenon DEF Init, Idle, Goroutines
<1>5. /\ pass.pc = "apply" /\ DOMAIN pass = {"pc", "todo"}
      /\ pass.todo = {[key |-> k, obj |-> api.svc[k]] : k \in Services}
  BY Zenon DEF Init
<1>6. Forms
  BY <1>1, <1>2, <1>3, <1>4, <1>5, Zenon DEF Forms, Init, Jobs
<1>7. PassForms
  BY <1>1, <1>4, <1>5 DEF PassForms, Apis
<1>8. HeldFresh
  BY <1>4 DEF HeldFresh, Idle
<1>9. Accounted
  <2>1. cur.svc = api.svc
    <3>1. cur = Fresh
      BY Zenon DEF Init
    <3> QED
      BY <3>1, Zenon DEF Fresh
  <2> QED
    BY <1>5, <2>1, Zenon DEF Accounted, Due, Todo
<1> QED
  BY <1>6, <1>7, <1>8, <1>9, Zenon DEF WatchInv

\* r is q without its first i entries.
RestOf(q, i, r) ==
  /\ \A m \in DOMAIN r : m + i \in DOMAIN q /\ r[m] = q[m + i]
  /\ \A m \in DOMAIN r : \A j \in DOMAIN q :
       j >= m + i => j - i \in DOMAIN r /\ r[j - i] = q[j] /\ j - i >= m

LEMMA Suffix ==
  ASSUME NEW X, NEW q \in Seq(X), NEW i \in 0 .. Len(q), NEW r, r = SubSeq(q, i + 1, Len(q))
  PROVE  r \in Seq(X) /\ RestOf(q, i, r)
<1>1. /\ Len(q) \in Nat /\ i \in Nat /\ i <= Len(q) /\ DOMAIN q = 1 .. Len(q)
      /\ r \in Seq(X) /\ DOMAIN r = 1 .. Len(q) - i
  OBVIOUS
<1>2. \A m \in 1 .. Len(q) - i : r[m] = q[m + i]
  <2> TAKE m \in 1 .. Len(q) - i
  <2>1. r[m] = q[m + (i + 1) - 1]
    BY <1>1
  <2>2. m + (i + 1) - 1 = m + i
    BY <1>1
  <2> QED
    BY <2>1, <2>2, Zenon
<1>3. \A m \in DOMAIN r : m + i \in DOMAIN q
  BY <1>1
<1>4. ASSUME NEW m \in DOMAIN r, NEW j \in DOMAIN q, j >= m + i
      PROVE  j - i \in DOMAIN r /\ r[j - i] = q[j] /\ j - i >= m
  <2>1. j - i \in 1 .. Len(q) - i /\ (j - i) + i = j /\ j - i >= m
    BY <1>1, <1>4
  <2> QED
    BY <1>1, <1>2, <2>1, Zenon
<1> QED
  BY <1>1, <1>2, <1>3, <1>4, Zenon DEF RestOf

LEMMA LastSuffix ==
  ASSUME NEW S \in InformerSets, LastIsCurrent(S), NEW i \in 0 .. Len(S.queue.svc),
         NEW T, T.svc = S.svc, T.queue.svc = SubSeq(S.queue.svc, i + 1, Len(S.queue.svc))
  PROVE  LastIsCurrent(T)
<1> DEFINE q == S.queue.svc
           r == T.queue.svc
<1>1. q \in Seq(Notes) /\ i \in 0 .. Len(q) /\ r = SubSeq(q, i + 1, Len(q))
  BY Zenon DEF InformerSets, Queues
<1> HIDE DEF q, r
<1>2. RestOf(q, i, r)
  BY <1>1, Suffix, Zenon
<1> SUFFICES ASSUME NEW m \in DOMAIN r, NEW k, k = r[m].key, T.svc[k] # NoObj
             PROVE  \E j \in DOMAIN r : j >= m /\ r[j] = Note(T, k)
  BY Zenon DEF LastIsCurrent, r
<1>3. PICK j \in DOMAIN q : j >= m + i /\ q[j] = Note(S, k)
  <2>1. m + i \in DOMAIN q /\ q[m + i].key = k /\ S.svc[k] # NoObj
    BY <1>2, Zenon DEF RestOf
  <2> QED
    BY <2>1, Zenon DEF LastIsCurrent, q
<1>4. Note(S, k) = Note(T, k)
  BY Zenon DEF Note
<1> QED
  BY <1>2, <1>3, <1>4, ZenonT(40) DEF RestOf

LEMMA SwapStep ==
  ASSUME WatchInv, Swap
  PROVE  WatchInv'
<1>1. /\ pass.pc = "sync" /\ job["service"] = Idle /\ job["slice"] = Idle /\ next' = NoSet
      /\ pass' = [pc |-> "fresh", old |-> StoreView(cur)] /\ UNCHANGED <<apiVars, job, table>>
  BY Zenon DEF Swap
<1>2. Sound(next)
  BY <1>1, Zenon DEF WatchInv, Forms
<1>3. Sound(cur')
  <2>1. PICK i \in 0 .. Len(next.queue.svc), j \in 0 .. Len(next.queue.slice) :
          cur' = [next EXCEPT !.queue = [svc |-> SubSeq(next.queue.svc, i + 1, Len(next.queue.svc)),
                                         slice |-> SubSeq(next.queue.slice, j + 1, Len(next.queue.slice))]]
    BY Zenon DEF Swap
  <2> DEFINE a == SubSeq(next.queue.svc, i + 1, Len(next.queue.svc))
             b == SubSeq(next.queue.slice, j + 1, Len(next.queue.slice))
  <2>2. next \in InformerSets /\ next.queue.svc \in Seq(Notes) /\ next.queue.slice \in Seq(Services)
    BY <1>2, Zenon DEF Sound, InformerSets, Queues
  <2>3. a \in Seq(Notes) /\ b \in Seq(Services)
    BY <2>2, Suffix
  <2> HIDE DEF a, b
  <2>4. cur' = [next EXCEPT !.queue = [svc |-> a, slice |-> b]]
    BY <2>1, Zenon DEF a, b
  <2>5. cur' \in InformerSets /\ cur'.svc = next.svc /\ cur'.queue.svc = a
    <3> DEFINE c == [svc |-> a, slice |-> b]
    <3>1. c \in Queues /\ c.svc = a
      BY <2>3, Zenon DEF Queues
    <3> HIDE DEF c
    <3> QED
      BY <2>2, <2>4, <3>1, Zenon DEF InformerSets, c
  <2>6. LastIsCurrent(cur')
    BY <1>2, <2>2, <2>5, LastSuffix, Zenon DEF a, Sound
  <2> QED
    BY <2>5, <2>6, Zenon DEF Sound
<1>4. \A g \in Goroutines : job[g].pc # "held"
  BY <1>1 DEF WatchInv, PassForms, Goroutines, Idle
<1>5. pass'.pc = "fresh"
  BY <1>1, Zenon
<1>6. Forms'
  BY <1>1, <1>3, <1>5, Zenon DEF WatchInv, Forms, apiVars
<1>7. PassForms'
  BY <1>1, <1>4, <1>5, Zenon DEF PassForms, Goroutines
<1>8. HeldFresh'
  BY <1>1, <1>4, Zenon DEF HeldFresh
<1>9. Accounted'
  BY <1>5, Zenon DEF Accounted, Owed
<1> QED
  BY <1>6, <1>7, <1>8, <1>9, Zenon DEF WatchInv

\* The event a watch reads next.
LEMMA NextEvent ==
  ASSUME Forms, NEW S \in InformerSets, NEW kind \in Kinds, NEW i \in NextAt(S, kind)
  PROVE  i \in Nat /\ log[i] \in (IF kind = "svc" THEN SvcEntries ELSE SliceEntries)
<1>1. S.at[kind] \in Nat
  BY Zenon DEF InformerSets
<1>2. i \in 1 .. Len(log) /\ log[i].kind = kind
  BY <1>1 DEF NextAt, Forms
<1>3. log[i] \in Entries
  BY <1>2 DEF Forms
<1>4. /\ log[i] \in SvcEntries => log[i].kind = "svc"
      /\ log[i] \in SliceEntries => log[i].kind = "slice"
  BY Zenon DEF SvcEntries, SliceEntries
<1> QED
  BY <1>2, <1>3, <1>4 DEF Entries

LEMMA AppliedEffect ==
  ASSUME Forms, NEW S, Sound(S), NEW kind \in Kinds, NEW i \in NextAt(S, kind)
  PROVE  LET T == Applied(S, kind, log[i], i)
         IN /\ Sound(T)
            /\ kind = "svc" => SvcEffect(S, log[i], T) /\ log[i] \in SvcEntries
            /\ kind = "slice" => SliceEffect(S, log[i], T) /\ log[i] \in SliceEntries
<1>1. S \in InformerSets /\ LastIsCurrent(S)
  BY Zenon DEF Sound
<1>2. i \in Nat /\ log[i] \in (IF kind = "svc" THEN SvcEntries ELSE SliceEntries)
  BY <1>1, NextEvent, Zenon
<1>3. CASE kind = "svc"
  <2>1. SvcEffect(S, log[i], Applied(S, kind, log[i], i))
    BY <1>1, <1>2, <1>3, SvcApplied, Zenon
  <2>2. Sound(Applied(S, kind, log[i], i))
    BY <2>1, Zenon DEF Sound, SvcEffect
  <2> QED
    BY <1>2, <1>3, <2>1, <2>2, Zenon
<1>4. CASE kind = "slice"
  <2>1. SliceEffect(S, log[i], Applied(S, kind, log[i], i)) /\ log[i] \in SliceEntries
    <3>1. log[i] \in SliceEntries
      BY <1>2, <1>4, Zenon
    <3> QED
      BY <1>1, <1>2, <1>4, <3>1, SliceApplied, Zenon
  <2>2. Sound(Applied(S, kind, log[i], i))
    BY <2>1, Zenon DEF Sound, SliceEffect
  <2> QED
    BY <1>4, <2>1, <2>2, Zenon
<1> QED
  BY <1>3, <1>4, Zenon DEF Kinds

\* Everything but the store, its queues and the proxy's table is left alone, so only those matter.
LEMMA StoreSteps ==
  ASSUME WatchInv, Sound(cur'), UNCHANGED <<apiVars, next, job, pass, repaired>>, DOMAIN table' = DOMAIN table,
         \A k \in Services : Served(cur'.svc[k]) =>
           \/ Due(k)'
           \/ /\ cur'.svc[k] = cur.svc[k] /\ cur'.slice[k] = cur.slice[k] /\ ~Due(k)
              /\ table'[k] = table[k]
  PROVE  WatchInv'
<1>1. api' = api /\ log' = log /\ next' = next /\ job' = job /\ pass' = pass /\ repaired' = repaired
  BY Zenon DEF apiVars
<1>2. Forms'
  BY <1>1, Zenon DEF WatchInv, Forms
<1>3. PassForms'
  BY <1>1, Zenon DEF WatchInv, PassForms
<1>4. \A g \in Goroutines : job'[g].pc = "held" => job'[g].key \in Services
  BY <1>1, JobForms, Zenon DEF WatchInv
<1>5. \A k \in Services : cur'.svc[k] = cur.svc[k] => (Owed(k)' => Owed(k))
  BY <1>1, Zenon DEF Owed
<1>6. HeldFresh' /\ Accounted'
  BY <1>1, <1>4, <1>5, Undisturbed, Zenon
<1> QED
  BY <1>2, <1>3, <1>6, Zenon DEF WatchInv

LEMMA WatchStep ==
  ASSUME WatchInv, NEW kind \in Kinds, Watch(kind)
  PROVE  WatchInv'
<1>1. UNCHANGED <<apiVars, next, job, pass, repaired>> /\ table' = table
  BY Zenon DEF Watch, passVars
<1>2. PICK i \in NextAt(cur, kind) : cur' = Applied(cur, kind, log[i], i)
  BY Zenon DEF Watch
<1>3. /\ Sound(cur')
      /\ kind = "svc" => SvcEffect(cur, log[i], cur') /\ log[i] \in SvcEntries
      /\ kind = "slice" => SliceEffect(cur, log[i], cur') /\ log[i] \in SliceEntries
  <2>1. Forms /\ Sound(cur)
    BY Zenon DEF WatchInv, Forms
  <2> QED
    BY <1>2, <2>1, AppliedEffect, Zenon
<1>4. job' = job /\ pass' = pass
  BY <1>1, Zenon
<1>5. cur.svc \in [Services -> Objs] /\ cur.slice \in [Services -> Slices]
  BY Zenon DEF WatchInv, Forms, Sound, InformerSets
<1>6. ASSUME NEW k \in Services, Served(cur'.svc[k])
      PROVE  Due(k)' \/ (cur'.svc[k] = cur.svc[k] /\ cur'.slice[k] = cur.slice[k] /\ ~Due(k))
  <2>1. CASE kind = "svc"
    <3>1. /\ cur'.svc = [cur.svc EXCEPT ![log[i].key] = log[i].obj] /\ cur'.slice = cur.slice
          /\ cur'.queue.slice = cur.queue.slice
          /\ \A y : In(cur.queue.svc, y) => In(cur'.queue.svc, y)
          /\ log[i].obj # NoObj => In(cur'.queue.svc, Note(cur', log[i].key))
      BY <1>3, <2>1, Zenon DEF SvcEffect
    <3>2. CASE k = log[i].key
      <4>1. cur'.svc[k] = log[i].obj
        BY <1>5, <3>1, <3>2, Zenon
      <4>2. In(cur'.queue.svc, Note(cur', k))
        BY <1>6, <3>1, <3>2, <4>1, Zenon DEF Served
      <4> QED
        BY <4>2, Zenon DEF Due
    <3>3. CASE k # log[i].key
      <4>1. cur'.svc[k] = cur.svc[k]
        BY <1>5, <3>1, <3>3, Zenon
      <4>2. Note(cur', k) = Note(cur, k)
        BY <4>1, Zenon DEF Note
      <4>3. Due(k) => Due(k)'
        BY <1>4, <3>1, <4>1, <4>2, Zenon DEF Due, Todo
      <4> QED
        BY <3>1, <4>1, <4>3, Zenon
    <3> QED
      BY <3>2, <3>3, Zenon
  <2>2. CASE kind = "slice"
    <3>1. /\ cur'.slice = [cur.slice EXCEPT ![log[i].key] = log[i].obj] /\ cur'.svc = cur.svc
          /\ cur'.queue.svc = cur.queue.svc
          /\ \A y : In(cur.queue.slice, y) => In(cur'.queue.slice, y)
          /\ cur.slice[log[i].key] = log[i].obj \/ In(cur'.queue.slice, log[i].key)
      BY <1>3, <2>2, Zenon DEF SliceEffect
    <3>2. CASE k = log[i].key /\ In(cur'.queue.slice, k)
      BY <3>2, Zenon DEF Due
    <3>3. CASE k # log[i].key \/ cur.slice[k] = log[i].obj
      <4>1. cur'.slice[k] = cur.slice[k]
        BY <1>5, <3>1, <3>3, Zenon
      <4>2. Note(cur', k) = Note(cur, k)
        BY <3>1, Zenon DEF Note
      <4>3. Due(k) => Due(k)'
        BY <1>4, <3>1, <4>2, Zenon DEF Due, Todo
      <4> QED
        BY <3>1, <4>1, <4>3, Zenon
    <3> QED
      BY <3>1, <3>2, <3>3, Zenon
  <2> QED
    BY <2>1, <2>2, Zenon DEF Kinds
<1> QED
  BY <1>1, <1>3, <1>6, StoreSteps, Zenon

LEMMA LoseStep ==
  ASSUME WatchInv, NEW kind \in Kinds, LoseEvent(kind)
  PROVE  WatchInv'
<1>1. UNCHANGED <<apiVars, next, job, pass, repaired>> /\ table' = table
  BY Zenon DEF LoseEvent, passVars
<1>2. PICK i \in NextAt(cur, kind) : cur' = [cur EXCEPT !.at[kind] = i]
  BY Zenon DEF LoseEvent
<1>3. Forms /\ cur \in InformerSets /\ LastIsCurrent(cur)
  BY Zenon DEF WatchInv, Forms, Sound
<1>4. i \in Nat
  BY <1>3, NextEvent, Zenon
<1>5. /\ cur' \in InformerSets
      /\ cur'.svc = cur.svc /\ cur'.slice = cur.slice /\ cur'.queue = cur.queue
  <2> DEFINE at == [cur.at EXCEPT ![kind] = i]
  <2>1. at \in [Kinds -> Nat]
    BY <1>3, <1>4, Zenon DEF InformerSets
  <2>2. cur' = [cur EXCEPT !.at = at]
    BY <1>2, Zenon
  <2> HIDE DEF at
  <2> QED
    BY <1>3, <2>1, <2>2, Zenon DEF InformerSets
<1>6. Sound(cur')
  BY <1>3, <1>5 DEF Sound, LastIsCurrent, Note
<1>7. ASSUME NEW k \in Services
      PROVE  Due(k)' \/ ~Due(k)
  <2>1. job' = job /\ pass' = pass
    BY <1>1, Zenon
  <2> QED
    BY <1>5, <2>1, Zenon DEF Due, Todo, Note
<1> QED
  BY <1>1, <1>5, <1>6, <1>7, StoreSteps, Zenon

\* Steps that leave the store, the queues, the deliveries and the passes alone.
LEMMA AsideSteps ==
  ASSUME WatchInv, api' \in Apis, log' \in Seq(Entries), UNCHANGED <<cur, job, pass, table, repaired>>,
         UNCHANGED next \/ Sound(next')
  PROVE  WatchInv'
<1>1. cur' = cur /\ job' = job /\ pass' = pass /\ table' = table /\ repaired' = repaired
  BY Zenon
<1>2. Forms'
  BY <1>1, Zenon DEF WatchInv, Forms
<1>3. PassForms'
  BY <1>1, Zenon DEF WatchInv, PassForms
<1>4. \A k \in Services :
           \/ [key |-> k, obj |-> cur.svc[k]] \in Todo'
           \/ /\ [key |-> k, obj |-> cur.svc[k]] \notin Todo
              /\ Owed(k)' => Owed(k) /\ table'[k] = table[k]
  BY <1>1, Zenon DEF Todo, Owed
<1>5. HeldFresh' /\ Accounted'
  BY <1>1, <1>4, RunUndisturbed, Zenon
<1> QED
  BY <1>2, <1>3, <1>5, Zenon DEF WatchInv

LEMMA WatchNextStep ==
  ASSUME WatchInv, NEW kind \in Kinds, WatchNext(kind)
  PROVE  WatchInv'
<1>1. Forms /\ Sound(next)
  BY Zenon DEF WatchNext, WatchInv, Forms
<1>2. PICK i \in NextAt(next, kind) : next' = Applied(next, kind, log[i], i)
  BY Zenon DEF WatchNext
<1>3. Sound(next')
  BY <1>1, <1>2, AppliedEffect, Zenon
<1>4. api' \in Apis /\ log' \in Seq(Entries) /\ UNCHANGED <<cur, job, pass, table, repaired>>
  BY Zenon DEF WatchNext, WatchInv, Forms, apiVars, passVars
<1> QED
  BY <1>3, <1>4, AsideSteps, Zenon

LEMMA ChangeStep ==
  ASSUME WatchInv, NEW k \in Services, ChangeService(k) \/ ChangeSlice(k)
  PROVE  WatchInv'
<1>1. PICK obj : \/ obj \in Objs /\ Change("svc", k, obj)
                 \/ obj \in Slices /\ Change("slice", k, obj)
  <2>1. Len(log) + 1 \in Nat
    BY DEF WatchInv, Forms
  <2>2. ASSUME NEW sp \in Specs PROVE [ports |-> sp.ports, etp |-> sp.etp, rv |-> Len(log) + 1] \in Objs
    BY <2>1, <2>2, WatchAssumption, Zenon DEF Objs
  <2>3. NoObj \in Objs
    BY Zenon DEF Objs
  <2>4. ASSUME NEW eps \in SUBSET Backends PROVE [eps |-> eps, rv |-> Len(log) + 1] \in Slices
    BY <2>1, Zenon DEF Slices
  <2>5. CASE ChangeService(k)
    BY <2>2, <2>3, <2>5, Zenon DEF ChangeService
  <2>6. CASE ChangeSlice(k)
    <3>1. NoSlice \in Slices
      BY DEF NoSlice, Slices
    <3>2. \/ \E eps \in SUBSET Backends : Change("slice", k, [eps |-> eps, rv |-> Len(log) + 1])
          \/ Change("slice", k, NoSlice)
      BY <2>6, Zenon DEF ChangeSlice
    <3> QED
      BY <2>4, <3>1, <3>2, Zenon
  <2> QED
    BY <2>5, <2>6, Zenon
<1>2. UNCHANGED <<cur, next, job, pass, table, repaired>>
  BY <1>1, Zenon DEF Change, informerVars, passVars
<1>3. api \in Apis /\ log \in Seq(Entries)
  BY Zenon DEF WatchInv, Forms
<1>4. log' \in Seq(Entries)
  <2>1. PICK e \in Entries : log' = Append(log, e)
    BY <1>1, Zenon DEF Change, Entries, SvcEntries, SliceEntries
  <2> QED
    BY <1>3, <2>1
<1>5. api' \in Apis
  <2>1. CASE obj \in Objs /\ api' = [api EXCEPT !["svc"][k] = obj]
    <3> DEFINE f == [api.svc EXCEPT ![k] = obj]
    <3>1. f \in [Services -> Objs]
      BY <1>3, <2>1, Zenon DEF Apis
    <3>2. api' = [api EXCEPT !.svc = f]
      BY <2>1, Zenon
    <3> HIDE DEF f
    <3> QED
      BY <1>3, <3>1, <3>2, Zenon DEF Apis
  <2>2. CASE obj \in Slices /\ api' = [api EXCEPT !["slice"][k] = obj]
    <3> DEFINE f == [api.slice EXCEPT ![k] = obj]
    <3>1. f \in [Services -> Slices]
      BY <1>3, <2>2, Zenon DEF Apis
    <3>2. api' = [api EXCEPT !.slice = f]
      BY <2>2, Zenon
    <3> HIDE DEF f
    <3> QED
      BY <1>3, <3>1, <3>2, Zenon DEF Apis
  <2> QED
    BY <1>1, <2>1, <2>2, Zenon DEF Change
<1> QED
  BY <1>2, <1>4, <1>5, AsideSteps, Zenon

\* A handler takes the oldest notification of its queue.
PoppedSvcEffect(S, T) ==
  /\ Sound(T) /\ T.svc = S.svc /\ T.slice = S.slice /\ T.queue.slice = S.queue.slice
  /\ Head(S.queue.svc) \in Notes
  /\ \A y : In(S.queue.svc, y) => y = Head(S.queue.svc) \/ In(T.queue.svc, y)

LEMMA PoppedSvc ==
  ASSUME NEW S, Sound(S), S.queue.svc # <<>>
  PROVE  PoppedSvcEffect(S, [S EXCEPT !.queue.svc = Tail(@)])
<1> DEFINE r == Tail(S.queue.svc)
           T == [S EXCEPT !.queue.svc = r]
<1>1. S \in InformerSets /\ LastIsCurrent(S) /\ S.queue.svc \in Seq(Notes)
  BY Zenon DEF Sound, InformerSets, Queues
<1>2. /\ r \in Seq(Notes) /\ Head(S.queue.svc) \in Notes
      /\ \A y : In(S.queue.svc, y) <=> y = Head(S.queue.svc) \/ In(r, y)
  BY <1>1, Shrinking, ZenonT(40)
<1>3. T = [S EXCEPT !.queue.svc = r] /\ r = Tail(S.queue.svc)
  BY Zenon
<1> HIDE DEF r, T
<1>4. Keeps(S, T) /\ T.queue.svc = r /\ T.queue.slice = S.queue.slice
  <2>1. S \in InformerSets /\ r \in Seq(Notes) /\ SvcRequeued(S, r, T)
    BY <1>1, <1>2, <1>3, Zenon DEF SvcRequeued
  <2> QED
    BY <2>1, RequeuedSvc, Zenon
<1>5. T.svc = S.svc /\ T.slice = S.slice /\ T \in InformerSets
  BY <1>4, Zenon DEF Keeps
<1>6. LastIsCurrent(T)
  BY <1>1, <1>3, <1>4, <1>5, LastPopped, Zenon
<1>7. PoppedSvcEffect(S, T)
  BY <1>2, <1>4, <1>5, <1>6, Zenon DEF Sound, PoppedSvcEffect
<1> QED
  BY <1>7, Zenon DEF T, r

\* A handler takes the oldest notification of its queue.
PoppedSliceEffect(S, T) ==
  /\ Sound(T) /\ T.svc = S.svc /\ T.slice = S.slice /\ T.queue.svc = S.queue.svc
  /\ Head(S.queue.slice) \in Services
  /\ \A y : In(S.queue.slice, y) => y = Head(S.queue.slice) \/ In(T.queue.slice, y)

LEMMA PoppedSlice ==
  ASSUME NEW S, Sound(S), S.queue.slice # <<>>
  PROVE  PoppedSliceEffect(S, [S EXCEPT !.queue.slice = Tail(@)])
<1> DEFINE r == Tail(S.queue.slice)
           T == [S EXCEPT !.queue.slice = r]
<1>1. S \in InformerSets /\ LastIsCurrent(S) /\ S.queue.slice \in Seq(Services)
  BY Zenon DEF Sound, InformerSets, Queues
<1>2. /\ r \in Seq(Services) /\ Head(S.queue.slice) \in Services
      /\ \A y : In(S.queue.slice, y) <=> y = Head(S.queue.slice) \/ In(r, y)
  BY <1>1, Shrinking, ZenonT(40)
<1>3. T = [S EXCEPT !.queue.slice = r] /\ r = Tail(S.queue.slice)
  BY Zenon
<1> HIDE DEF r, T
<1>4. Keeps(S, T) /\ T.queue.slice = r /\ T.queue.svc = S.queue.svc
  <2>1. S \in InformerSets /\ r \in Seq(Services) /\ SliceRequeued(S, r, T)
    BY <1>1, <1>2, <1>3, Zenon DEF SliceRequeued
  <2> QED
    BY <2>1, RequeuedSlice, Zenon
<1>5. T.svc = S.svc /\ T.slice = S.slice /\ T \in InformerSets
  BY <1>4, Zenon DEF Keeps
<1>6. LastIsCurrent(T)
  BY <1>1, <1>3, <1>4, <1>5, LastSame, Zenon
<1>7. PoppedSliceEffect(S, T)
  BY <1>2, <1>4, <1>5, <1>6, Zenon DEF Sound, PoppedSliceEffect
<1> QED
  BY <1>7, Zenon DEF T, r

\* A goroutine snapshots a slice: the forms.
LEMMA StartedForms ==
  ASSUME WatchInv, Sound(cur'), cur'.slice = cur.slice, NEW g \in Goroutines, NEW k \in Services, NEW obj \in Objs,
         job' = [job EXCEPT ![g] = Held(k, obj)], UNCHANGED <<apiVars, next, table>>, pass'.pc = pass.pc
  PROVE  Forms'
<1>1. Held(k, obj) \in Jobs
  BY Zenon DEF Held, Jobs, WatchInv, Forms, Sound, InformerSets
<1>2. job' \in [Goroutines -> Jobs]
  BY <1>1, Zenon DEF WatchInv, Forms
<1> QED
  BY <1>2, Zenon DEF WatchInv, Forms, apiVars

\* The handlers, one lemma for each way they go.
LEMMA ServiceStep ==
  ASSUME WatchInv, OnService
  PROVE  WatchInv'
<1> DEFINE n == Head(cur.queue.svc)
<1>1. /\ Sound(cur') /\ cur'.svc = cur.svc /\ cur'.slice = cur.slice /\ cur'.queue.slice = cur.queue.slice
      /\ n \in Notes
      /\ \A y : In(cur.queue.svc, y) => y = n \/ In(cur'.queue.svc, y)
  <2>1. Sound(cur) /\ cur.queue.svc # <<>> /\ cur' = [cur EXCEPT !.queue.svc = Tail(@)]
    BY Zenon DEF OnService, WatchInv, Forms
  <2> QED
    <3>1. PoppedSvcEffect(cur, cur')
      BY <2>1, PoppedSvc, Zenon
    <3> QED
      BY <3>1, Zenon DEF PoppedSvcEffect
<1>2. /\ UNCHANGED <<apiVars, next, table, pass, repaired>> /\ job["service"] = Idle /\ ~n.gone
      /\ ReconcileService("service", n.key, n.obj)
  BY Zenon DEF OnService, passVars
<1>3. n.key \in Services /\ n.obj \in Objs /\ pass' = pass /\ table' = table
  BY <1>1, <1>2, Zenon DEF Notes
<1> HIDE DEF n
<1>4. ASSUME NEW j \in Services, In(cur.queue.svc, Note(cur, j))
      PROVE  In(cur'.queue.svc, Note(cur', j)) \/ (j = n.key /\ n.obj = cur.svc[j])
  <2>1. Note(cur', j) = Note(cur, j)
    BY <1>1, Zenon DEF Note
  <2>2. Note(cur, j) = n => j = n.key /\ n.obj = cur.svc[j]
    BY DEF Note
  <2> QED
    BY <1>1, <1>4, <2>1, <2>2, Zenon
<1>5. ASSUME NEW j \in Services, Due(j),
             job'["slice"] = job["slice"]
      PROVE  Due(j)' \/ (j = n.key /\ n.obj = cur.svc[j])
  BY <1>1, <1>3, <1>4, <1>5, Zenon DEF Due, Todo
<1>6. CASE Served(n.obj)
  <2>1. StripeFree(n.key) /\ job' = [job EXCEPT !["service"] = Held(n.key, n.obj)]
    BY <1>2, <1>6, Zenon DEF ReconcileService
  <2>2. job'["slice"] = job["slice"] /\ job'["run"] = job["run"] /\ "service" \in Goroutines
    BY <2>1, Zenon DEF WatchInv, Forms, Goroutines
  <2>3. \A j \in Services : Due(j) => Due(j)' \/ (j = n.key /\ n.obj = cur.svc[n.key])
    BY <1>5, <2>2, Zenon
  <2>4. \A j \in Services : Owed(j)' => Owed(j)
    BY <1>1, <1>2, Zenon DEF Owed
  <2>5. job["service"].pc # "held"
    BY <1>2 DEF Idle
  <2>6. HeldFresh' /\ Accounted'
    BY <1>1, <1>3, <2>1, <2>2, <2>3, <2>4, <2>5, Started, Zenon
  <2>7. Forms'
    BY <1>1, <1>2, <1>3, <2>1, <2>2, StartedForms, Zenon
  <2>8. PassForms'
    BY <1>3, <2>2, Zenon DEF WatchInv, PassForms
  <2> QED
    BY <2>6, <2>7, <2>8, Zenon DEF WatchInv
<1>7. CASE ~Served(n.obj)
  <2>1. job' = job
    BY <1>2, <1>7, Zenon DEF ReconcileService
  <2>2. ASSUME NEW j \in Services, Served(cur'.svc[j])
        PROVE  Due(j)' \/ (cur'.svc[j] = cur.svc[j] /\ cur'.slice[j] = cur.slice[j] /\ ~Due(j) /\ table'[j] = table[j])
    <3>1. ~(n.obj = cur.svc[j])
      BY <1>1, <1>7, <2>2, Zenon
    <3> QED
      BY <1>1, <1>3, <1>5, <2>1, <3>1, Zenon
  <2> QED
    BY <1>1, <1>2, <2>1, <2>2, StoreSteps, Zenon
<1> QED
  BY <1>6, <1>7, Zenon

LEMMA ServiceDeleteStep ==
  ASSUME WatchInv, OnServiceDelete
  PROVE  WatchInv'
<1> DEFINE n == Head(cur.queue.svc)
<1>1. Sound(cur) /\ cur.queue.svc # <<>> /\ cur' = [cur EXCEPT !.queue.svc = Tail(@)] /\ cur.queue.svc \in Seq(Notes)
  BY Zenon DEF OnServiceDelete, WatchInv, Forms, Sound, InformerSets, Queues
<1>2. /\ Sound(cur') /\ cur'.svc = cur.svc /\ cur'.slice = cur.slice /\ cur'.queue.slice = cur.queue.slice
      /\ n \in Notes
      /\ \A y : In(cur.queue.svc, y) => y = n \/ In(cur'.queue.svc, y)
  <2>1. PoppedSvcEffect(cur, cur')
    BY <1>1, PoppedSvc, Zenon
  <2> QED
    BY <2>1, Zenon DEF PoppedSvcEffect
<1>3. /\ UNCHANGED <<apiVars, next, job, pass, repaired>> /\ n.gone
      /\ table' = [table EXCEPT ![n.key] = Without(n.key, n.obj)]
  BY Zenon DEF OnServiceDelete, passVars
<1>4. \A j \in Services : Note(cur', j) = Note(cur, j) /\ Note(cur, j) # n
  BY <1>2, <1>3 DEF Note
<1>5. ASSUME NEW j \in Services, Due(j)
      PROVE  Due(j)'
  <2>1. job' = job /\ pass' = pass
    BY <1>3, Zenon
  <2> QED
    BY <1>2, <1>4, <1>5, <2>1, Zenon DEF Due, Todo
<1>6. n.key \in Services
  BY <1>2, Zenon DEF Notes
<1>7. ASSUME NEW k \in Services, k = n.key, Served(cur.svc[k])
      PROVE  Due(k)'
  <2>1. 1 \in DOMAIN cur.queue.svc /\ cur.queue.svc[1] = n
    BY <1>1
  <2>2. \E j \in DOMAIN cur.queue.svc : cur.queue.svc[j] = Note(cur, k)
    BY <1>1, <1>7, <2>1, Zenon DEF Sound, LastIsCurrent, Served
  <2>3. In(cur.queue.svc, Note(cur, k))
    BY <2>2, Zenon DEF In
  <2> QED
    BY <1>5, <2>3, Zenon DEF Due
<1> HIDE DEF n
<1>8. DOMAIN table' = DOMAIN table /\ \A j \in Services : j # n.key => table'[j] = table[j]
  BY <1>3, Zenon DEF WatchInv, Forms
<1>9. ASSUME NEW j \in Services, Served(cur'.svc[j])
      PROVE  Due(j)' \/ (cur'.svc[j] = cur.svc[j] /\ cur'.slice[j] = cur.slice[j] /\ ~Due(j) /\ table'[j] = table[j])
  <2>1. CASE j = n.key
    BY <1>2, <1>7, <1>9, <2>1, Zenon
  <2>2. CASE j # n.key
    BY <1>2, <1>5, <1>8, <2>2, Zenon
  <2> QED
    BY <2>1, <2>2, Zenon
<1> QED
  BY <1>2, <1>3, <1>8, <1>9, StoreSteps, Zenon

LEMMA SliceStep ==
  ASSUME WatchInv, OnSlice
  PROVE  WatchInv'
<1> DEFINE k == Head(cur.queue.slice)
           want == [pc |-> "want", key |-> k, obj |-> cur.svc[k]]
<1>1. /\ Sound(cur') /\ cur'.svc = cur.svc /\ cur'.slice = cur.slice /\ cur'.queue.svc = cur.queue.svc
      /\ k \in Services
      /\ \A y : In(cur.queue.slice, y) => y = k \/ In(cur'.queue.slice, y)
  <2>1. Sound(cur) /\ cur.queue.slice # <<>> /\ cur' = [cur EXCEPT !.queue.slice = Tail(@)]
    BY Zenon DEF OnSlice, WatchInv, Forms
  <2>2. PoppedSliceEffect(cur, cur')
    BY <2>1, PoppedSlice, Zenon
  <2> QED
    BY <2>2, Zenon DEF PoppedSliceEffect
<1>2. /\ job["slice"] = Idle /\ job' = [job EXCEPT !["slice"] = IF Served(cur.svc[k]) THEN want ELSE Idle]
      /\ UNCHANGED <<apiVars, next, table, pass, repaired>>
  BY Zenon DEF OnSlice, passVars
<1>3. cur.svc[k] \in Objs
  BY <1>1, Zenon DEF WatchInv, Forms, Sound, InformerSets
<1> HIDE DEF k
<1>4. job'["slice"] = (IF Served(cur.svc[k]) THEN want ELSE Idle) /\ \A h \in Goroutines : h # "slice" => job'[h] = job[h]
  BY <1>2, Zenon DEF WatchInv, Forms, Goroutines
<1>5. job'["slice"].pc # "held" /\ job["slice"].pc # "held"
  BY <1>2, <1>4 DEF Idle
<1>6. job' \in [Goroutines -> Jobs]
  <2>1. want \in Jobs /\ Idle \in Jobs
    BY <1>1, <1>3, Zenon DEF Jobs
  <2> HIDE DEF want
  <2> QED
    BY <1>2, <2>1, Zenon DEF WatchInv, Forms
<1>7. Forms'
  BY <1>1, <1>2, <1>6, Zenon DEF WatchInv, Forms, apiVars
<1>8. pass' = pass /\ table' = table /\ repaired' = repaired /\ job'["run"] = job["run"]
  BY <1>2, <1>4, Zenon DEF Goroutines
<1>9. PassForms'
  BY <1>8, Zenon DEF WatchInv, PassForms
<1>10. \A g \in Goroutines : job'[g].pc = "held" \/ job[g].pc = "held" => job'[g] = job[g]
  BY <1>4, <1>5, Zenon
<1>11. \A g \in Goroutines : job'[g].pc = "held" => job'[g].key \in Services
  BY <1>10, JobForms, Zenon DEF WatchInv
<1>12. ASSUME NEW j \in Services, Served(cur'.svc[j])
       PROVE  \/ Due(j)'
              \/ /\ ~Due(j) /\ cur'.svc[j] = cur.svc[j] /\ cur'.slice[j] = cur.slice[j]
                 /\ Owed(j)' => Owed(j) /\ table'[j] = table[j]
  <2>1. Owed(j)' => Owed(j)
    BY <1>1, <1>8, Zenon DEF Owed
  <2>2. CASE j = k
    <3>1. job'["slice"] = [pc |-> "want", key |-> j, obj |-> cur'.svc[j]]
      BY <1>1, <1>4, <1>12, <2>2, Zenon
    <3> QED
      BY <3>1, Zenon DEF Due
  <2>3. CASE j # k
    <3>1. Due(j) => Due(j)'
      <4>1. Note(cur', j) = Note(cur, j)
        BY <1>1, Zenon DEF Note
      <4>2. job["slice"] # [pc |-> "want", key |-> j, obj |-> cur.svc[j]]
        BY <1>2 DEF Idle
      <4> QED
        BY <1>1, <1>8, <2>3, <4>1, <4>2, Zenon DEF Due, Todo
    <3> QED
      BY <1>1, <1>8, <2>1, <3>1, Zenon
  <2> QED
    BY <2>2, <2>3, Zenon
<1>13. HeldFresh' /\ Accounted'
  BY <1>10, <1>11, <1>12, Undisturbed, Zenon
<1> QED
  BY <1>7, <1>9, <1>13, Zenon DEF WatchInv

LEMMA SliceReconcileStep ==
  ASSUME WatchInv, OnSliceReconcile
  PROVE  WatchInv'
<1>1. /\ job["slice"].pc = "want" /\ UNCHANGED <<apiVars, cur, next, table, pass, repaired>>
      /\ ReconcileService("slice", job["slice"].key, job["slice"].obj)
  BY Zenon DEF OnSliceReconcile, informerVars, passVars
<1>2. cur' = cur /\ table' = table /\ pass' = pass /\ Sound(cur')
  BY <1>1, Zenon DEF WatchInv, Forms
<1>3. CASE Served(job["slice"].obj)
  <2> DEFINE k == job["slice"].key
             obj == job["slice"].obj
  <2>1. k \in Services /\ obj \in Objs
    <3>1. job["slice"] \in Jobs
      BY Zenon DEF WatchInv, Forms, Goroutines
    <3> QED
      BY <1>1, <3>1 DEF Jobs, Idle
  <2>2. StripeFree(k) /\ job' = [job EXCEPT !["slice"] = Held(k, obj)]
    BY <1>1, <1>3, Zenon DEF ReconcileService
  <2>3. job'["run"] = job["run"] /\ "slice" \in Goroutines
    BY <2>2, Zenon DEF WatchInv, Forms, Goroutines
  <2>4. ASSUME NEW j \in Services, Due(j)
        PROVE  Due(j)' \/ (j = k /\ obj = cur.svc[k])
    <3>1. job["slice"] = [pc |-> "want", key |-> j, obj |-> cur.svc[j]] => j = k /\ obj = cur.svc[k]
      OBVIOUS
    <3> HIDE DEF k, obj
    <3> QED
      BY <1>2, <2>4, <3>1, Zenon DEF Due, Todo, Note
  <2>5. \A j \in Services : Owed(j)' => Owed(j)
    BY <1>1, Zenon DEF Owed
  <2>6. job["slice"].pc # "held"
    BY <1>1, Zenon
  <2> HIDE DEF k, obj
  <2>7. HeldFresh' /\ Accounted'
    BY <1>2, <2>1, <2>2, <2>3, <2>4, <2>5, <2>6, Started, Zenon
  <2>8. Forms'
    BY <1>1, <1>2, <2>1, <2>2, <2>3, StartedForms, Zenon
  <2>9. PassForms'
    BY <1>2, <2>3, Zenon DEF WatchInv, PassForms
  <2> QED
    BY <2>7, <2>8, <2>9 DEF WatchInv
<1>4. CASE ~Served(job["slice"].obj)
  <2>1. job' = job
    BY <1>1, <1>4, Zenon DEF ReconcileService
  <2> QED
    BY <1>1, <2>1, AsideSteps, Zenon DEF WatchInv, Forms, apiVars
<1> QED
  BY <1>3, <1>4, Zenon

LEMMA ReconcileStep ==
  ASSUME WatchInv, ReconcileOne
  PROVE  WatchInv'
<1>1. /\ pass.pc \in {"apply", "settle"} /\ job["run"] = Idle
      /\ UNCHANGED <<apiVars, cur, next, table, repaired>>
  BY Zenon DEF ReconcileOne, informerVars
<1>2. PICK t \in pass.todo : pass' = [pass EXCEPT !.todo = @ \ {t}] /\ ReconcileService("run", t.key, t.obj)
  BY Zenon DEF ReconcileOne
<1>3. /\ {"pc", "todo"} \subseteq DOMAIN pass /\ pass.todo \subseteq [key : Services, obj : Objs]
  BY <1>1, Zenon DEF WatchInv, PassForms
<1>4. pass'.pc = pass.pc /\ pass'.todo = pass.todo \ {t} /\ DOMAIN pass' = DOMAIN pass
  BY <1>2, <1>3, Zenon
<1>5. t.key \in Services /\ t.obj \in Objs
  BY <1>3, Zenon
<1>6. cur' = cur /\ table' = table /\ Sound(cur') /\ repaired' = repaired /\ next' = next /\ api' = api /\ log' = log
  BY <1>1, Zenon DEF WatchInv, Forms, apiVars
<1>7. Todo' = Todo \ {t}
  BY <1>1, <1>4, Zenon DEF Todo
<1>8. \A j \in Services : [key |-> j, obj |-> cur.svc[j]] = t => j = t.key /\ t.obj = cur.svc[j]
  OBVIOUS
<1>9. \A j \in Services : Owed(j)' <=> Owed(j)
  BY <1>4, <1>6, Zenon DEF Owed
<1>10. PassForms'
  BY <1>1, <1>3, <1>4, Zenon DEF PassForms
<1>11. CASE Served(t.obj)
  <2>1. StripeFree(t.key) /\ job' = [job EXCEPT !["run"] = Held(t.key, t.obj)]
    BY <1>2, <1>11, Zenon DEF ReconcileService
  <2>2. job'["slice"] = job["slice"] /\ "run" \in Goroutines
    BY <2>1, Zenon DEF WatchInv, Forms, Goroutines
  <2>3. ASSUME NEW j \in Services, Due(j)
        PROVE  Due(j)' \/ (j = t.key /\ t.obj = cur.svc[t.key])
    <3>1. [key |-> j, obj |-> cur.svc[j]] \in Todo =>
            [key |-> j, obj |-> cur.svc[j]] \in Todo' \/ (j = t.key /\ t.obj = cur.svc[t.key])
      BY <1>7, <1>8, Zenon
    <3> QED
      BY <1>6, <2>2, <2>3, <3>1, Zenon DEF Due, Note
  <2>4. job["run"].pc # "held"
    BY <1>1 DEF Idle
  <2>5. HeldFresh' /\ Accounted'
    BY <1>5, <1>6, <1>9, <2>1, <2>2, <2>3, <2>4, Started, Zenon
  <2>6. Forms'
    BY <1>1, <1>4, <1>5, <1>6, <2>1, <2>2, StartedForms, Zenon
  <2> QED
    BY <1>10, <2>5, <2>6, Zenon DEF WatchInv
<1>12. CASE ~Served(t.obj)
  <2>1. job' = job
    BY <1>2, <1>12, Zenon DEF ReconcileService
  <2>2. ASSUME NEW j \in Services, Served(cur.svc[j])
        PROVE  \/ [key |-> j, obj |-> cur.svc[j]] \in Todo'
               \/ /\ [key |-> j, obj |-> cur.svc[j]] \notin Todo
                  /\ Owed(j)' => Owed(j) /\ table'[j] = table[j]
    <3>1. [key |-> j, obj |-> cur.svc[j]] # t
      BY <1>8, <1>12, <2>2, Zenon
    <3> QED
      BY <1>6, <1>7, <1>9, <3>1, Zenon
  <2>3. HeldFresh' /\ Accounted'
    BY <1>6, <2>1, <2>2, RunUndisturbed, Zenon
  <2>4. Forms'
    BY <1>4, <1>6, <2>1, Zenon DEF WatchInv, Forms
  <2> QED
    BY <1>10, <2>3, <2>4 DEF WatchInv
<1> QED
  BY <1>11, <1>12, Zenon

LEMMA DeliverStep ==
  ASSUME WatchInv, NEW g \in Goroutines, Deliver(g)
  PROVE  WatchInv'
<1>1. /\ UNCHANGED <<apiVars, cur, next, pass, repaired>> /\ job' = [job EXCEPT ![g] = Idle]
      /\ DOMAIN table' = DOMAIN table
  BY Zenon DEF Deliver, informerVars, passVars
<1>2. job' \in [Goroutines -> Jobs]
  BY <1>1, Zenon DEF WatchInv, Forms, Jobs
<1>3. Forms'
  BY <1>1, <1>2, Zenon DEF WatchInv, Forms, apiVars
<1>4. job'["run"].pc = "held" => job["run"].pc = "held"
  BY <1>1, Zenon DEF WatchInv, Forms, Goroutines, Idle
<1>5. PassForms'
  BY <1>1, <1>4, Zenon DEF WatchInv, PassForms
<1>6. HeldFresh' /\ Accounted'
  BY Delivered, Zenon
<1> QED
  BY <1>3, <1>5, <1>6, Zenon DEF WatchInv

LEMMA Stepped == WatchInv /\ [Next]_vars => WatchInv'
<1> SUFFICES ASSUME WatchInv, [Next]_vars PROVE WatchInv'
  BY Zenon
<1>1. CASE Changes
  BY <1>1, ChangeStep, WatchAssumption, Zenon DEF Changes
<1>2. CASE Streams
  BY <1>2, WatchStep, WatchNextStep, Zenon DEF Streams
<1>3. CASE ServiceHandler
  BY <1>3, ServiceStep, ServiceDeleteStep, DeliverStep, Zenon DEF ServiceHandler, Goroutines
<1>4. CASE SliceHandler
  BY <1>4, SliceStep, SliceReconcileStep, DeliverStep, Zenon DEF SliceHandler, Goroutines
<1>5. CASE Run
  BY <1>5, ReconcileStep, DeliverStep, SettleSteps, ListSteps, CompareStep, RepairStep, RelistStep, SwapStep,
     PruneSteps, Zenon DEF Run, Goroutines
<1>6. CASE Faults
  BY <1>6, ListSteps, LoseStep, Zenon DEF Faults
<1>7. CASE BackoffElapses \/ UNCHANGED vars
  <2>1. UNCHANGED <<apiVars, informerVars, job, pass, table, repaired>>
    BY <1>7, Zenon DEF BackoffElapses, vars, passVars
  <2> QED
    BY <2>1, AsideSteps, Zenon DEF WatchInv, Forms, apiVars, informerVars
<1> QED
  BY <1>1, <1>2, <1>3, <1>4, <1>5, <1>6, <1>7, Zenon DEF Next

LEMMA Final == WatchInv => ServedCurrent
<1> SUFFICES ASSUME WatchInv, Quiet, NEW k \in Services \ repaired, NEW p \in Ports, Served(cur.svc[k]), p \in cur.svc[k].ports
             PROVE  table[k][p] = EpsOf(k, cur.slice[k])
  BY Zenon DEF ServedCurrent
<1>1. Owed(k)
  BY Zenon DEF Owed, Quiet
<1>2. ~Due(k)
  <2>1. cur.queue.svc = <<>> /\ cur.queue.slice = <<>> /\ job["slice"] = Idle /\ Todo = {}
    BY Zenon DEF Quiet, Kinds, Goroutines, Todo
  <2> QED
    BY <2>1 DEF Due, In, Idle
<1>3. ~Delivering(k)
  BY DEF Quiet, Delivering, Held, Idle
<1> QED
  BY <1>1, <1>2, <1>3, Zenon DEF WatchInv, Accounted, PortsCurrent

\* Once every queue is drained and no goroutine is delivering, the proxy has, for each port of each Service
\* the store serves and no repair has touched, the backends the store gives it (onService, onServiceDelete, onSlice
\* and applyStore in pkg/proxy/watch.go, antiEntropyPass and relist in pkg/proxy/antientropy.go):
\* however the events of the two informers, the three delivering goroutines, lost watches and relists
\* interleave, for any Services, stripes and number of changes.
THEOREM ServesWhatItStores == Spec => []ServedCurrent
BY WatchInitial, Stepped, Final, PTL DEF Spec

=============================================================================
