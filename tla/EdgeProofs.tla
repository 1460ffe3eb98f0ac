----------------------------- MODULE EdgeProofs -----------------------------
(***************************************************************************)
(* The safety of the node's edges: the route table of the ingress, the     *)
(* sockets of the pods, and their lookups.                                 *)
(*                                                                         *)
(* The ingress, for any objects: the route table is up to date when every  *)
(* notification has been handled. A store changes only with a notification *)
(* waiting, and the handler that takes the last one lists under the lock   *)
(* (ListCurrent).                                                          *)
(*                                                                         *)
(* The sockets, for any number of pods, sockets and ports: with            *)
(* SO_REUSEADDR and an address of its own a pod's bind can only be refused *)
(* by a holder of that address (OwnAddressOnly).                           *)
(*                                                                         *)
(* The lookups, for any candidates, servers and replies. The two walks, in *)
(* Go and in C, are shown to be steps of one kind of engine: it passes     *)
(* over a name that exists only when its failure is closed, which it       *)
(* remembers (Passed), and then asks for no other such candidate (Asking). *)
(***************************************************************************)
EXTENDS Ingress, SocketShim, GetaddrinfoShim, TLAPS

-----------------------------------------------------------------------------
(* The ingress table. *)

IngressSpec == IngressInit /\ [][IngressNext]_ingressVars

\* Every notification has been taken by its handler.
NothingUnhandled == \A k \in Informers : unhandled[k] = 0

\* Nothing has happened yet.
Never == routeTable = NoRoutes /\ objects = [k \in Informers |-> <<>>]

\* At rest the table is what the stores resolve to.
TableCurrent ==
  NothingUnhandled /\ resyncMu = "free" =>
    routeTable = DesiredRoutes(OfClass(objects["ingresses"]), objects["services"]) \/ Never

\* While no notification waits, the holder of the lock has listed what the store holds.
ListCurrent ==
  NothingUnhandled /\ resyncMu # "free" => listed = OfClass(objects["ingresses"])

IngressInv == unhandled \in [Informers -> Nat] /\ ListCurrent /\ TableCurrent

LEMMA IngressInitial == IngressInit => IngressInv
BY DEF IngressInit, IngressInv, ListCurrent, TableCurrent, Never

\* A store changes only with a notification waiting, which keeps both facts from saying anything
\* until a handler takes the lock and lists afresh.
LEMMA IngressPreserved == IngressInv /\ [IngressNext]_ingressVars => IngressInv'
<1> SUFFICES ASSUME IngressInv, [IngressNext]_ingressVars PROVE IngressInv'
  BY Zenon
<1> USE DEF IngressInv, ListCurrent, TableCurrent, NothingUnhandled, Never
<1>1. ASSUME NEW k \in Informers, ObjectsChange(k) PROVE IngressInv'
  BY <1>1 DEF ObjectsChange
<1>2. ASSUME NEW k \in Informers, ResyncLists(k) PROVE IngressInv'
  BY <1>2, IngressAssumption DEF ResyncLists
<1>3. ASSUME NEW k \in Informers, ResyncUpdates(k) PROVE IngressInv'
  BY <1>3, IngressAssumption, Zenon DEF ResyncUpdates
<1>4. ASSUME NEW k \in Informers, OnTLSSecrets(k) PROVE IngressInv'
  BY <1>4, IngressAssumption, Zenon DEF OnTLSSecrets
<1>5. CASE UNCHANGED ingressVars
  BY <1>5, Zenon DEF ingressVars
<1> QED
  BY <1>1, <1>2, <1>3, <1>4, <1>5, ZenonT(40) DEF IngressNext

(* When every notification has been handled, the route table in force is the one desiredState *)
(* makes of the Ingresses and Services as they are, whichever handler ran last and however    *)
(* the stores changed while it was computing (pkg/ingress/watch.go: resyncMu covers the list, *)
(* the lookups and the swap).                                                                 *)
THEOREM TableFresh == IngressSpec => []TableCurrent
<1>1. IngressInv => TableCurrent
  BY Zenon DEF IngressInv
<1> QED
  BY <1>1, IngressInitial, IngressPreserved, PTL DEF IngressSpec

-----------------------------------------------------------------------------
(* The sockets of the pods. *)

SocketRecords == [only6 : BOOLEAN, reuse : BOOLEAN, fam : {"none", "inet", "inet6"}, addr : Nat, port : Int,
                  dialled : BOOLEAN]
SocketTypeOK == sock \in [Sockets -> SocketRecords] /\ icip \in Nat

\* The environment of a pod, made from any lists of prefixes, and what the shim made of it.
Prefixes == [addr : Nat, bits : 0..Width, v4 : BOOLEAN]
Injected ==
  /\ cidrs \in Seq(Prefixes) /\ iccidrs \in Seq(Prefixes) /\ icip \in Nat
  /\ k3sm_bind_cfg = k3sm_bind_cfg_init

\* No socket is open yet.
SocketStart == sock = [s \in Sockets |-> Closed] /\ refused = {} /\ Injected
SocketSpec == SocketStart /\ [][SocketNext]_socketVars

SocketInv == SocketTypeOK /\ PodsBindFreely

LEMMA SocketInitial == SocketStart => SocketInv
<1> SUFFICES ASSUME SocketStart PROVE SocketInv
  OBVIOUS
<1>1. sock = [s \in Sockets |-> Closed] /\ icip \in Nat /\ refused = {}
  BY Zenon DEF SocketStart, Injected
<1> QED
  BY <1>1 DEF SocketInv, SocketTypeOK, SocketRecords, Closed, PodsBindFreely

\* What is bound and dialled is numbers.
LEMMA Numbers ==
  /\ \A p \in Ports : p \in Nat /\ p \in Int
  /\ \A a \in {0} \cup Explicit : a \in Nat
BY SocketAssumption

\* A socket with one field changed.
LEMMA FieldUpdated ==
  ASSUME NEW k \in SocketRecords
  PROVE  /\ \A a \in Nat : LET x == [k EXCEPT !.addr = a] IN x \in SocketRecords /\ x.addr = a
         /\ \A p \in Int : LET x == [k EXCEPT !.port = p]
                          IN  x \in SocketRecords /\ x.port = p /\ x.addr = k.addr
         /\ \A b \in BOOLEAN : /\ [k EXCEPT !.reuse = b] \in SocketRecords
                              /\ [k EXCEPT !.dialled = b] \in SocketRecords
                              /\ [k EXCEPT !.only6 = b] \in SocketRecords
         /\ \A f \in {"inet", "inet6"} : [k EXCEPT !.fam = f] \in SocketRecords
BY Zenon DEF SocketRecords

\* With SO_REUSEADDR a specific address is refused by its own holder alone.
LEMMA OwnAddressOnly ==
  ASSUME SocketTypeOK, NEW n, n.addr # 0, n.reuse, n.port # 0, BindErrno(n) = "EADDRINUSE"
  PROVE  \E t \in Sockets : sock[t].port # 0 /\ sock[t].addr = n.addr /\ sock[t].port = n.port
<1>1. \A h : ~Conflict(n, h, TRUE)
  BY Zenon DEF Conflict
<1>2. \A h : Conflict(n, h, FALSE) => h.addr = n.addr /\ h.port = n.port
  BY Zenon DEF Conflict
<1> QED
  BY <1>1, <1>2, Zenon DEF BindErrno

LEMMA BoundTyped ==
  ASSUME SocketTypeOK, NEW s \in Sockets, NEW n \in SocketRecords, BindTo(s, n)
  PROVE  sock' \in [Sockets -> SocketRecords]
<1>1. [n EXCEPT !.port = IF @ = 0 THEN Ephemeral ELSE @] \in SocketRecords
  BY DEF SocketRecords, Ephemeral
<1> QED
  BY <1>1, Zenon DEF BindTo, SocketTypeOK

\* A rewritten bind asks for the pod's own address and sets SO_REUSEADDR, so whoever refuses it
\* holds that address; the refusal leaves every other socket as it was.
LEMMA BindStep ==
  ASSUME SocketInv, NEW s \in Sockets, NEW addr \in {0} \cup Explicit, NEW port \in Ports,
         NEW unread \in BOOLEAN, NEW unset \in BOOLEAN, Bind(s, addr, port, unread, unset)
  PROVE  SocketInv'
<1> DEFINE asked == [sock[s] EXCEPT !.addr = addr, !.port = port]
           own == PodIP[owner[s]]
           n == IF Rewritten(s, addr, port, unread) THEN [asked EXCEPT !.addr = own, !.reuse = @ \/ ~unset] ELSE asked
<1>1. /\ owner[s] \in Pods /\ Unbound(s) /\ icip' = icip /\ owner' = owner
      /\ IF BindErrno(n) = "ok" THEN BindTo(s, n) ELSE sock' = [sock EXCEPT ![s].reuse = n.reuse]
      /\ refused' = IF BindErrno(n) = "EADDRINUSE" /\ ~unset THEN {<<s, addr, port, unread>>} ELSE {}
  BY Zenon DEF Bind, k3sm_bind
<1>2. sock[s] \in SocketRecords /\ addr \in Nat /\ port \in Nat /\ own \in Nat \ {0}
  <2>1. sock[s] \in SocketRecords /\ own \in Nat \ {0}
    BY <1>1, SocketAssumption, Zenon DEF SocketInv, SocketTypeOK
  <2>2. addr \in Nat /\ port \in Nat
    BY Numbers, Zenon
  <2> QED
    BY <2>1, <2>2, Zenon
<1>3. asked \in SocketRecords /\ asked.addr = addr /\ asked.port = port
  <2> DEFINE k == [sock[s] EXCEPT !.addr = addr]
  <2>1. k \in SocketRecords /\ k.addr = addr
    BY <1>2, FieldUpdated, ZenonT(40)
  <2>2. asked = [k EXCEPT !.port = port]
    BY Zenon
  <2> HIDE DEF k, asked
  <2>3. port \in Int
    BY Numbers, Zenon
  <2> QED
    BY <2>1, <2>2, <2>3, FieldUpdated, ZenonT(40)
<1>4. n \in SocketRecords /\ n.port = port
  BY <1>2, <1>3, Zenon DEF SocketRecords
<1>5. Rewritten(s, addr, port, unread) /\ ~unset => n.addr = own /\ n.reuse
  BY <1>2, <1>3, Zenon DEF SocketRecords
<1> HIDE DEF asked, own, n
<1>6. CASE BindErrno(n) # "EADDRINUSE"
  <2>1. CASE BindErrno(n) = "ok"
    BY <1>1, <1>4, <2>1, BoundTyped, ZenonT(40) DEF SocketInv, SocketTypeOK, PodsBindFreely
  <2>2. CASE BindErrno(n) # "ok"
    <3>1. [sock[s] EXCEPT !.reuse = n.reuse] \in SocketRecords
      BY <1>2, <1>4, Zenon DEF SocketRecords
    <3> QED
      BY <1>1, <1>6, <2>2, <3>1, ZenonT(40) DEF SocketInv, SocketTypeOK, PodsBindFreely
  <2> QED
    BY <2>1, <2>2, Zenon
<1>7. CASE BindErrno(n) = "EADDRINUSE"
  <2> DEFINE kept == [sock[s] EXCEPT !.reuse = n.reuse]
  <2>1. kept \in SocketRecords /\ kept.fam = sock[s].fam /\ kept.only6 = sock[s].only6
    BY <1>2, <1>4, Zenon DEF SocketRecords
  <2>2. sock' = [sock EXCEPT ![s] = kept]
    BY <1>1, <1>7, Zenon
  <2> HIDE DEF kept
  <2>3. SocketTypeOK' /\ sock'[s] = kept /\ \A t \in Sockets : t # s => sock'[t] = sock[t]
    BY <1>1, <2>1, <2>2, ZenonT(40) DEF SocketInv, SocketTypeOK
  <2>4. ASSUME Rewritten(s, addr, port, unread)', ~unset
        PROVE  \E t \in Sockets : sock'[t].addr = own /\ sock'[t].port = port
    <3>1. Rewritten(s, addr, port, unread)
      BY <2>1, <2>3, <2>4, ZenonT(40) DEF Rewritten
    <3>2. n.addr = own /\ n.addr # 0 /\ n.reuse /\ port # 0
      BY <1>2, <1>5, <2>4, <3>1, SocketAssumption, SMTT(20) DEF Rewritten
    <3>3. PICK t \in Sockets : sock[t].port # 0 /\ sock[t].addr = own /\ sock[t].port = port
      BY <1>4, <1>7, <3>2, OwnAddressOnly, ZenonT(40) DEF SocketInv
    <3>4. t # s
      BY <1>1, <3>3, Zenon DEF Unbound
    <3> QED
      BY <2>3, <3>3, <3>4, ZenonT(40)
  <2>5. refused' = (IF unset THEN {} ELSE {<<s, addr, port, unread>>}) /\ PodIP[owner'[s]] = own
    BY <1>1, <1>7, ZenonT(40) DEF own
  <2>6. PodsBindFreely'
    BY <2>4, <2>5 DEF PodsBindFreely
  <2> QED
    BY <2>3, <2>6, Zenon DEF SocketInv
<1> QED
  BY <1>6, <1>7, Zenon

\* Every other step clears refused.
LEMMA OtherSteps ==
  ASSUME SocketInv, NEW s \in Sockets,
         \/ \E f \in {"inet", "inet6"}, only6 \in BOOLEAN : Socket(s, f, only6)
         \/ CloseSocket(s)
         \/ \E a \in {PodIP[p] : p \in Pods} \cup {icip} : AliasChange(a)
         \/ \E port \in Ports \ {0} : NodeListen(s, port)
         \/ \E dst \in Dests, unread, exhausted \in BOOLEAN : Connect(s, dst, unread, exhausted)
  PROVE  SocketInv'
<1>1. refused' = {} /\ icip' = icip
  <2>1. \A f, only6 : Socket(s, f, only6) => refused' = {} /\ icip' = icip
    BY Zenon DEF Socket
  <2>2. CloseSocket(s) => refused' = {} /\ icip' = icip
    BY Zenon DEF CloseSocket
  <2>3. \A a : AliasChange(a) => refused' = {} /\ icip' = icip
    BY Zenon DEF AliasChange
  <2>4. \A port : NodeListen(s, port) => refused' = {} /\ icip' = icip
    BY Zenon DEF NodeListen
  <2>5. \A dst, unread, exhausted : Connect(s, dst, unread, exhausted) => refused' = {} /\ icip' = icip
    <3>1. \A dst, unread, exhausted :
            Connect(s, dst, unread, exhausted) => k3sm_connect(s, dst, unread, exhausted) /\ icip' = icip
      BY Zenon DEF Connect
    <3>2. \A dst, unread, exhausted : k3sm_connect(s, dst, unread, exhausted) => refused' = {}
      BY ZenonT(40) DEF k3sm_connect
    <3> QED
      BY <3>1, <3>2, Zenon
  <2> QED
    BY <2>1, <2>2, <2>3, <2>4, <2>5, ZenonT(40)
<1>2. PodsBindFreely'
  BY <1>1, Zenon DEF PodsBindFreely
<1>3. sock[s] \in SocketRecords
  BY Zenon DEF SocketInv, SocketTypeOK
<1>4. Closed \in SocketRecords
  BY DEF Closed, SocketRecords
<1>5. \A k \in SocketRecords : sock' = [sock EXCEPT ![s] = k] => sock' \in [Sockets -> SocketRecords]
  BY Zenon DEF SocketInv, SocketTypeOK
<1>6. ASSUME NEW f \in {"inet", "inet6"}, NEW only6 \in BOOLEAN, Socket(s, f, only6)
      PROVE  sock' \in [Sockets -> SocketRecords]
  <2>1. [Closed EXCEPT !.fam = f, !.only6 = only6] \in SocketRecords
    <3>1. [Closed EXCEPT !.fam = f] \in SocketRecords
      BY <1>4, FieldUpdated, Zenon
    <3> QED
      BY <3>1, FieldUpdated, Zenon
  <2> QED
    BY <1>5, <1>6, <2>1, ZenonT(40) DEF Socket
<1>7. ASSUME CloseSocket(s) PROVE sock' \in [Sockets -> SocketRecords]
  BY <1>4, <1>5, <1>7, ZenonT(40) DEF CloseSocket
<1>8. ASSUME NEW a, AliasChange(a) PROVE sock' \in [Sockets -> SocketRecords]
  BY <1>8, Zenon DEF AliasChange, SocketInv, SocketTypeOK
<1>9. ASSUME NEW port \in Ports \ {0}, NodeListen(s, port) PROVE sock' \in [Sockets -> SocketRecords]
  <2>1. [sock[s] EXCEPT !.reuse = TRUE, !.port = port] \in SocketRecords
    <3>1. [sock[s] EXCEPT !.reuse = TRUE] \in SocketRecords
      BY <1>3, FieldUpdated, Zenon
    <3>2. port \in Int
      BY Numbers, Zenon
    <3> QED
      BY <3>1, <3>2, FieldUpdated, ZenonT(40)
  <2> QED
    BY <1>9, <2>1, BoundTyped, ZenonT(40) DEF NodeListen, SocketInv
<1>10. ASSUME NEW dst \in Dests, NEW unread \in BOOLEAN, NEW exhausted \in BOOLEAN,
              Connect(s, dst, unread, exhausted)
       PROVE  sock' \in [Sockets -> SocketRecords]
  <2>1. PICK src : src \in Nat /\
          sock' = [sock EXCEPT ![s].addr = src, ![s].dialled = TRUE, ![s].port = IF @ = 0 THEN Ephemeral ELSE @]
    <3>1. \A d \in Dests : Pin(s, d) \in Nat /\ SelectSource(d) \in Nat
      BY <1>10, SocketAssumption, Zenon DEF Pin, SelectSource, Connect, SocketInv, SocketTypeOK
    <3>2. sock[s].addr \in Nat
      BY <1>3, Zenon DEF SocketRecords
    <3>3. 0 \in Nat
      BY Zenon
    <3> QED
      BY <1>10, <3>1, <3>2, <3>3, ZenonT(40) DEF Connect, k3sm_connect
  <2>2. [sock[s] EXCEPT !.addr = src, !.dialled = TRUE, !.port = IF @ = 0 THEN Ephemeral ELSE @] \in SocketRecords
    <3> DEFINE k == [sock[s] EXCEPT !.addr = src]
               d == [k EXCEPT !.dialled = TRUE]
    <3>1. k \in SocketRecords
      BY <1>3, <2>1, FieldUpdated, ZenonT(40)
    <3>2. d \in SocketRecords
      <4> HIDE DEF k
      <4> QED
        BY <3>1, FieldUpdated, ZenonT(40)
    <3>3. [d EXCEPT !.port = IF @ = 0 THEN Ephemeral ELSE @] \in SocketRecords
      <4> HIDE DEF d
      <4> QED
        BY <3>2 DEF SocketRecords, Ephemeral
    <3> QED
      BY <3>3, Zenon
  <2> QED
    BY <2>1, <2>2, Zenon DEF SocketInv, SocketTypeOK
<1> QED
  BY <1>1, <1>2, <1>6, <1>7, <1>8, <1>9, <1>10, ZenonT(40) DEF SocketInv, SocketTypeOK

LEMMA SocketPreserved == SocketInv /\ [SocketNext]_socketVars => SocketInv'
<1> SUFFICES ASSUME SocketInv, [SocketNext]_socketVars PROVE SocketInv'
  BY Zenon
<1>1. CASE UNCHANGED socketVars
  BY <1>1, Zenon DEF socketVars, SocketInv, SocketTypeOK, PodsBindFreely, Rewritten
<1> QED
  BY <1>1, BindStep, OtherSteps, ZenonT(40) DEF SocketNext

(* A pod that binds every address at a port the discipline covers is refused only by a socket *)
(* that holds the pod's own address at this port, for any number of pods, sockets and ports   *)
(* (shim/getaddrinfo_shim.c k3sm_bind: the rewritten address and SO_REUSEADDR, once it is     *)
(* set).                                                                                      *)
THEOREM PodsOwnTheirPorts == SocketSpec => []PodsBindFreely
<1>1. SocketInv => PodsBindFreely
  BY Zenon DEF SocketInv
<1> QED
  BY <1>1, SocketInitial, SocketPreserved, PTL DEF SocketSpec

-----------------------------------------------------------------------------
(* The prefixes of the environment, and the dials. *)

\* The number of addresses of a prefix.
Block(p) == 2^(Width - p.bits)

LEMMA BlockSize == \A p \in Prefixes : Block(p) \in Nat \ {0}
BY SocketAssumption, PowersOfTwo DEF Prefixes, Block

\* Multiples of a block.
LEMMA DivExact ==
  ASSUME NEW q \in Nat, NEW m \in Nat \ {0}
  PROVE  (q * m) \div m = q
OBVIOUS

LEMMA NextMultiple ==
  ASSUME NEW k \in Nat, NEW n \in Nat, NEW m \in Nat \ {0}, k * m < n * m
  PROVE  k * m + m <= n * m
<1>1. k < n
  OBVIOUS
<1>2. PICK d \in Nat : n = k + 1 + d
  <2>1. n - k - 1 \in Nat /\ n = k + 1 + (n - k - 1)
    BY <1>1
  <2> QED
    BY <2>1
<1>3. n * m = k * m + m + d * m
  BY <1>2
<1>4. d * m \in Nat
  OBVIOUS
<1> QED
  BY <1>3, <1>4

\* A masked prefix begins at a multiple of its size, and masking it again changes nothing.
LEMMA MaskedIs ==
  ASSUME NEW p \in Prefixes
  PROVE  /\ Masked(p) \in Prefixes
         /\ Masked(p).bits = p.bits /\ Masked(p).v4 = p.v4
         /\ \E q \in Nat : Masked(p).addr = q * Block(p)
         /\ Masked(Masked(p)) = Masked(p)
<1> DEFINE m == Block(p)
           q == p.addr \div m
           r == Masked(p)
<1>1. m \in Nat \ {0} /\ p.addr \in Nat
  BY BlockSize DEF Prefixes
<1>2. q \in Nat /\ q * m \in Nat /\ (q * m) \div m = q
  <2>1. q \in Nat
    BY <1>1
  <2> HIDE DEF m, q
  <2> QED
    BY <1>1, <2>1, DivExact
<1>3. r = [p EXCEPT !.addr = q * m]
  BY DEF Masked, Block
<1> HIDE DEF q
<1>4. r \in Prefixes /\ r.addr = q * m /\ r.bits = p.bits /\ r.v4 = p.v4
  BY <1>2, <1>3, Zenon DEF Prefixes
<1>5. Masked(r) = [r EXCEPT !.addr = ((q * m) \div m) * m]
  BY <1>4, Zenon DEF Masked, Block
<1>6. [r EXCEPT !.addr = q * m] = r
  <2>1. r = [addr |-> r.addr, bits |-> r.bits, v4 |-> r.v4]
    BY <1>4, Zenon DEF Prefixes
  <2> QED
   BY <1>4, <2>1
<1> QED
  BY <1>2, <1>4, <1>5, <1>6, Zenon

LEMMA MaskedContains ==
  ASSUME NEW p \in Prefixes, NEW a
  PROVE  PrefixContains(Masked(p), a) <=> PrefixContains(p, a)
BY MaskedIs, Zenon DEF PrefixContains, lastAddr

\* A block that begins in the interconnect's range ends in it.
LEMMA StaysOnLink ==
  ASSUME NEW p \in Prefixes, Masked(p) = p, p.bits >= InterconnectRange.bits,
         PrefixContains(InterconnectRange, p.addr)
  PROVE  PrefixContains(InterconnectRange, lastAddr(p))
<1> DEFINE m == Block(p)
           M == 2^(Width - InterconnectRange.bits)
           c == 2^(p.bits - InterconnectRange.bits)
           b == InterconnectRange.addr \div M
<1>1. Width \in Nat /\ InterconnectRange.bits \in 1..Width /\ p.bits \in 0..Width /\ InterconnectRange.addr \in Nat
  BY SocketAssumption DEF Prefixes
<1>2. m \in Nat \ {0} /\ M \in Nat \ {0} /\ c \in Nat \ {0}
  BY <1>1, PowersOfTwo DEF Block
<1>3. M = c * m
  <2>1. Width - InterconnectRange.bits \in 0..Width /\ Width - p.bits \in 0..(Width - InterconnectRange.bits)
    BY <1>1
  <2>2. (Width - InterconnectRange.bits) - (Width - p.bits) = p.bits - InterconnectRange.bits
    BY <1>1
  <2>3. M = 2^((Width - InterconnectRange.bits) - (Width - p.bits)) * 2^(Width - p.bits)
    BY <2>1, PowersOfTwo, Zenon
  <2> QED
    BY <2>2, <2>3, Zenon DEF Block
<1>4. PICK k \in Nat : p.addr = k * m
  BY MaskedIs, Zenon
<1>5. lastAddr(p) = k * m + m - 1
  BY <1>4, Zenon DEF lastAddr, Block
<1>6. b \in Nat /\ Masked(InterconnectRange).addr = b * M /\ lastAddr(InterconnectRange) = b * M + M - 1
  <2>1. Masked(InterconnectRange).addr = b * M
    BY SocketAssumption DEF Masked
  <2>2. b \in Nat
    BY <1>1, <1>2
  <2> QED
    BY <2>1, <2>2, Zenon DEF lastAddr
<1> HIDE DEF m, M, c, b
<1>7. b * M <= k * m /\ k * m <= b * M + M - 1
  BY <1>4, <1>6, Zenon DEF PrefixContains
<1>8. (b * c + c) \in Nat /\ b * M + M = (b * c + c) * m
  BY <1>2, <1>3, <1>6
<1>9. k * m < (b * c + c) * m
  BY <1>2, <1>3, <1>6, <1>7, <1>8
<1>10. k * m + m <= (b * c + c) * m
  BY <1>2, <1>8, <1>9, NextMultiple, ZenonT(40)
<1>11. b * M <= k * m + m - 1 /\ k * m + m - 1 <= b * M + M - 1
  BY <1>2, <1>6, <1>7, <1>8, <1>10
<1> QED
  BY <1>5, <1>6, <1>11, Zenon DEF PrefixContains

LEMMA ListedPrefix ==
  ASSUME NEW ps \in Seq(Prefixes), NEW p
  PROVE  p \in Range(ps) => p \in Prefixes
BY DEF Range

\* What an encoder sends, the shim's parser takes as it is.
LEMMA ParsesWhole ==
  ASSUME NEW out, \A p \in out : p \in Prefixes /\ Masked(p) = p /\ p.bits \in 1..Width
  PROVE  k3sm_parse_cidrs(IF Cardinality(out) > MaxClusterCIDRs THEN {} ELSE out) =
           IF Cardinality(out) > MaxClusterCIDRs THEN {} ELSE out
<1>1. {Masked(p) : p \in out} = out
  BY Zenon
<1>2. {Masked(p) : p \in {}} = {}
  BY Zenon
<1>3. CASE Cardinality(out) > MaxClusterCIDRs
  BY <1>2, <1>3, Zenon DEF k3sm_parse_cidrs
<1>4. CASE ~(Cardinality(out) > MaxClusterCIDRs)
  BY <1>1, <1>4, Zenon DEF k3sm_parse_cidrs
<1> QED
  BY <1>3, <1>4

LEMMA ClusterTaken ==
  ASSUME cidrs \in Seq(Prefixes)
  PROVE  k3sm_parse_cidrs(BindDisciplineEnvWithCIDRs(cidrs)) = BindDisciplineEnvWithCIDRs(cidrs)
<1> DEFINE out == Usable({p \in Range(cidrs) : p.bits >= 1})
<1>1. ASSUME NEW p \in out PROVE p \in Prefixes /\ Masked(p) = p /\ p.bits \in 1..Width
  <2>1. PICK q \in Range(cidrs) : q.bits >= 1 /\ p = Masked(q)
    BY <1>1, Zenon DEF Usable
  <2>2. q \in Prefixes
    BY <2>1, ListedPrefix
  <2>3. p \in Prefixes /\ Masked(p) = p /\ p.bits = q.bits
    BY <2>1, <2>2, MaskedIs
  <2>4. q.bits \in 0..Width
    BY <2>2 DEF Prefixes
  <2> QED
    BY <2>1, <2>3, <2>4, SocketAssumption
<1> HIDE DEF out
<1>2. k3sm_parse_cidrs(IF Cardinality(out) > MaxClusterCIDRs THEN {} ELSE out) =
        IF Cardinality(out) > MaxClusterCIDRs THEN {} ELSE out
  BY <1>1, ParsesWhole, Zenon
<1> QED
  BY <1>2, Zenon DEF BindDisciplineEnvWithCIDRs, out

LEMMA InterconnectTaken ==
  ASSUME iccidrs \in Seq(Prefixes), icip \in Nat
  PROVE  /\ k3sm_interconnect_cfg_init(InterconnectEnv(icip, iccidrs)) = InterconnectEnv(icip, iccidrs).cidrs
         /\ \A p \in InterconnectEnv(icip, iccidrs).cidrs :
              p \in Prefixes /\ Masked(p) = p /\ p.bits >= InterconnectRange.bits /\ PrefixContains(InterconnectRange, p.addr)
         /\ InterconnectEnv(icip, iccidrs).cidrs # {} => icip # 0
<1> DEFINE out == Usable({p \in Range(iccidrs) : /\ p.bits >= InterconnectRange.bits
                                                  /\ PrefixContains(InterconnectRange, Masked(p).addr)})
           around == {p \in out : PrefixContains(p, icip)}
           edge == \E p \in around : p.bits <= Width - 2 /\ icip \in {p.addr, lastAddr(p)}
           off == icip = 0 \/ Cardinality(out) > MaxClusterCIDRs \/ around = {} \/ edge
           env == InterconnectEnv(icip, iccidrs)
<1>1. ASSUME NEW p \in out
      PROVE  /\ p \in Prefixes /\ Masked(p) = p /\ p.bits \in 1..Width
             /\ p.bits >= InterconnectRange.bits /\ PrefixContains(InterconnectRange, p.addr)
  <2>1. PICK q \in Range(iccidrs) : /\ q.bits >= InterconnectRange.bits /\ p = Masked(q)
                                    /\ PrefixContains(InterconnectRange, Masked(q).addr)
    BY <1>1, Zenon DEF Usable
  <2>2. q \in Prefixes
    BY <2>1, ListedPrefix
  <2>3. p \in Prefixes /\ Masked(p) = p /\ p.bits = q.bits
    BY <2>1, <2>2, MaskedIs
  <2>4. q.bits \in 0..Width /\ InterconnectRange.bits \in 1..Width /\ Width \in Nat
    BY <2>2, SocketAssumption DEF Prefixes
  <2>5. p.bits \in 1..Width /\ p.bits >= InterconnectRange.bits
    BY <2>1, <2>3, <2>4
  <2> QED
    BY <2>1, <2>3, <2>5, Zenon
<1>2. env.ip = icip /\ env.cidrs = IF off THEN {} ELSE out
  BY DEF InterconnectEnv
<1> HIDE DEF out, env
<1>3. CASE off
  <2>1. k3sm_parse_cidrs({}) = {}
    BY Zenon DEF k3sm_parse_cidrs
  <2> QED
    BY <1>2, <1>3, <2>1, Zenon DEF k3sm_interconnect_cfg_init, k3sm_addr_in, env
<1>4. CASE ~off
  <2>1. k3sm_parse_cidrs(out) = out
    BY <1>1, <1>4, ParsesWhole, Zenon
  <2>2. env.cidrs = out /\ k3sm_addr_in(out, icip) /\ icip # 0
    BY <1>2, <1>4, Zenon DEF k3sm_addr_in
  <2>3. ~\E p \in out : p.bits < InterconnectRange.bits \/ ~PrefixContains(InterconnectRange, p.addr)
    <3> SUFFICES ASSUME NEW p \in out PROVE ~(p.bits < InterconnectRange.bits)
      BY <1>1, Zenon
    <3>1. p.bits \in 1..Width /\ p.bits >= InterconnectRange.bits
      BY <1>1, Zenon
    <3> QED
      BY <3>1, SocketAssumption
  <2>4. ~\E p \in out : PrefixContains(p, icip) /\ p.bits < Width - 1 /\ icip \in {p.addr, lastAddr(p)}
    <3> SUFFICES ASSUME NEW p \in out, PrefixContains(p, icip), p.bits < Width - 1, icip \in {p.addr, lastAddr(p)}
                 PROVE  FALSE
      BY Zenon
    <3>1. p.bits <= Width - 2
      BY <1>1, SocketAssumption
    <3> QED
      BY <1>4, <3>1, Zenon
  <2>5. k3sm_interconnect_cfg_init(env) = out
    BY <1>2, <2>1, <2>2, <2>3, <2>4, Zenon DEF k3sm_interconnect_cfg_init
  <2> QED
    BY <1>1, <2>2, <2>5, Zenon DEF env
<1> QED
  BY <1>3, <1>4

LEMMA InjectedAgree == Injected => EncodersAgree /\ (k3sm_bind_cfg.interconnect # {} => icip # 0)
<1> SUFFICES ASSUME Injected PROVE EncodersAgree /\ (k3sm_bind_cfg.interconnect # {} => icip # 0)
  OBVIOUS
<1>1. /\ k3sm_bind_cfg.cluster = k3sm_parse_cidrs(BindDisciplineEnvWithCIDRs(cidrs))
      /\ k3sm_bind_cfg.interconnect = k3sm_interconnect_cfg_init(InterconnectEnv(icip, iccidrs))
  BY DEF Injected, k3sm_bind_cfg_init
<1>2. ASSUME NEW p \in k3sm_bind_cfg.interconnect
      PROVE  PrefixContains(InterconnectRange, p.addr) /\ PrefixContains(InterconnectRange, lastAddr(p))
  BY <1>1, <1>2, InterconnectTaken, StaysOnLink, Zenon DEF Injected
<1> QED
  BY <1>1, <1>2, ClusterTaken, InterconnectTaken, Zenon DEF Injected, EncodersAgree

\* The shim takes a destination for the cluster's when the declared prefixes do.
LEMMA ClusterScope ==
  ASSUME Injected, NEW dst
  PROVE  k3sm_addr_in(k3sm_bind_cfg.cluster, dst) <=> InCluster(dst)
<1> DEFINE out == Usable({p \in Range(cidrs) : p.bits >= 1})
<1>1. k3sm_bind_cfg.cluster = IF Cardinality(out) > MaxClusterCIDRs THEN {} ELSE out
  BY InjectedAgree, Zenon DEF EncodersAgree, BindDisciplineEnvWithCIDRs
<1>2. ASSUME NEW q \in Range(cidrs), q.v4, q.bits > 0, PrefixContains(q, dst)
      PROVE  Masked(q) \in out /\ PrefixContains(Masked(q), dst)
  <2>1. q \in Prefixes
    BY ListedPrefix DEF Injected
  <2>2. q.bits >= 1
    BY <1>2, <2>1, SocketAssumption DEF Prefixes
  <2> QED
    BY <1>2, <2>1, <2>2, MaskedContains, Zenon DEF Usable
<1>3. ASSUME NEW p \in out, PrefixContains(p, dst)
      PROVE  \E q \in Range(cidrs) : q.v4 /\ q.bits > 0 /\ PrefixContains(q, dst)
  <2>1. PICK q \in Range(cidrs) : q.v4 /\ q.bits >= 1 /\ p = Masked(q)
    BY <1>3, Zenon DEF Usable
  <2>2. q \in Prefixes
    BY ListedPrefix DEF Injected
  <2>3. q.bits > 0
    BY <2>1, <2>2, SocketAssumption DEF Prefixes
  <2> QED
    BY <1>3, <2>1, <2>2, <2>3, MaskedContains, Zenon
<1>4. (\E p \in out : PrefixContains(p, dst)) <=>
        \E q \in Range(cidrs) : q.v4 /\ q.bits > 0 /\ PrefixContains(q, dst)
  BY <1>2, <1>3, Zenon
<1> HIDE DEF out
<1>5. ~k3sm_addr_in({}, dst)
  BY Zenon DEF k3sm_addr_in
<1> QED
  BY <1>1, <1>4, <1>5, Zenon DEF k3sm_addr_in, InCluster, out

\* What a dial of an unbound socket gets: the pin when the node has it, and the kernel's
\* choice when there is none.
LEMMA DialSource ==
  ASSUME SocketTypeOK, NEW s \in Sockets, NEW dst, Connect(s, dst, FALSE, FALSE), Unbound(s), sock[s].fam = "inet"
  PROVE  /\ Pin(s, dst) # 0 /\ Pin(s, dst) \in ifaces => sock'[s].addr = Pin(s, dst)
         /\ Pin(s, dst) = 0 => sock'[s].addr = SelectSource(dst)
<1> DEFINE pin == Pin(s, dst)
           asked == [sock[s] EXCEPT !.addr = pin]
           pinned == pin # 0 /\ BindErrno(asked) = "ok"
           src == IF pinned THEN pin ELSE IF sock[s].addr # 0 THEN sock[s].addr ELSE SelectSource(dst)
<1>1. sock[s] \in SocketRecords /\ sock[s].addr = 0 /\ sock[s].port = 0
  BY Zenon DEF SocketTypeOK, Unbound
<1>2. sock'[s].addr = src
  <2>1. sock' = [sock EXCEPT ![s].addr = src, ![s].dialled = TRUE, ![s].port = IF @ = 0 THEN Ephemeral ELSE @]
    BY Zenon DEF Connect, k3sm_connect
  <2> HIDE DEF src
  <2>2. sock \in [Sockets -> SocketRecords]
    BY Zenon DEF SocketTypeOK
  <2> QED
    BY <2>1, <2>2 DEF SocketRecords
<1>3. pin \in ifaces => BindErrno(asked) = "ok"
  <2>1. asked.addr = pin /\ asked.port = 0
    BY <1>1, Zenon DEF SocketRecords
  <2>2. 0 \notin 1..(MinRewritablePort - 1)
    OBVIOUS
  <2> QED
    BY <2>1, <2>2, Zenon DEF BindErrno
<1> QED
  BY <1>1, <1>2, <1>3, Zenon

LEMMA DialCarries ==
  ASSUME Injected, SocketTypeOK, NEW s \in Sockets, NEW dst
  PROVE  DialCarriesIdentity(s, dst)
<1> SUFFICES ASSUME Connect(s, dst, FALSE, FALSE), Unbound(s), sock[s].fam = "inet"
             PROVE  LET onCable == k3sm_addr_in(k3sm_bind_cfg.interconnect, dst)
                    IN  /\ onCable /\ icip \in ifaces => sock'[s].addr = icip
                        /\ ~onCable /\ InCluster(dst) /\ PodIP[owner[s]] \in ifaces => sock'[s].addr = PodIP[owner[s]]
                        /\ ~onCable /\ ~InCluster(dst) => sock'[s].addr = SelectSource(dst)
  BY Zenon DEF DialCarriesIdentity
<1>1. PodIP[owner[s]] # 0
  BY SocketAssumption DEF Connect
<1>2. k3sm_addr_in(k3sm_bind_cfg.interconnect, dst) => icip # 0
  BY InjectedAgree, Zenon DEF k3sm_addr_in
<1> QED
  BY <1>1, <1>2, DialSource, ClusterScope, Zenon DEF Pin

\* A bound socket keeps its source, and any other dial leaves from an address there is.
LEMMA DialUsable ==
  ASSUME SocketTypeOK, NEW s \in Sockets, NEW dst
  PROVE  SourceUsable(s, dst)
<1> SUFFICES ASSUME NEW unread \in BOOLEAN, NEW exhausted \in BOOLEAN, Connect(s, dst, unread, exhausted)
             PROVE  IF sock[s].addr # 0 THEN sock'[s].addr = sock[s].addr ELSE sock'[s].addr \in ifaces \cup {EgressIP}
  BY Zenon DEF SourceUsable
<1> DEFINE pin == IF sock[s].fam = "inet" /\ ~unread /\ Unbound(s) THEN Pin(s, dst) ELSE 0
           asked == [sock[s] EXCEPT !.addr = pin]
           pinned == pin # 0 /\ ~exhausted /\ BindErrno(asked) = "ok"
           src == IF pinned THEN pin ELSE IF sock[s].addr # 0 THEN sock[s].addr ELSE SelectSource(dst)
<1>1. sock[s] \in SocketRecords
  BY Zenon DEF SocketTypeOK
<1>2. sock'[s].addr = src
  <2>1. sock' = [sock EXCEPT ![s].addr = src, ![s].dialled = TRUE, ![s].port = IF @ = 0 THEN Ephemeral ELSE @]
    BY Zenon DEF Connect, k3sm_connect
  <2> HIDE DEF src
  <2>2. sock \in [Sockets -> SocketRecords]
    BY Zenon DEF SocketTypeOK
  <2> QED
    BY <2>1, <2>2 DEF SocketRecords
<1>3. pinned => Unbound(s) /\ pin \in ifaces
  <2>1. asked.addr = pin
    BY <1>1, Zenon DEF SocketRecords
  <2> HIDE DEF asked
  <2> QED
    BY <2>1, Zenon DEF BindErrno
<1>4. SelectSource(dst) \in ifaces \cup {EgressIP}
  BY Zenon DEF SelectSource
<1>5. pinned => sock[s].addr = 0
  BY <1>3, Zenon DEF Unbound
<1> HIDE DEF pinned, pin
<1> QED
  BY <1>2, <1>3, <1>4, <1>5, Zenon

LEMMA InjectedStays == Injected /\ [SocketNext]_socketVars => Injected'
<1> SUFFICES ASSUME Injected, [SocketNext]_socketVars PROVE Injected'
  OBVIOUS
<1>1. UNCHANGED <<cidrs, icip, iccidrs, k3sm_bind_cfg>>
  BY ZenonT(40)
     DEF SocketNext, socketVars, Socket, CloseSocket, AliasChange, NodeListen, Bind, Connect
<1> QED
  BY <1>1, Zenon DEF Injected, k3sm_bind_cfg_init

(* What an encoder puts in a pod's environment the shim takes whole: its two scopes are the   *)
(* encoder's prefixes, none of them is refused, and the interconnect's stay on the link, for  *)
(* any lists of prefixes, any width and any limit (pkg/podnet/env.go                          *)
(* BindDisciplineEnvWithCIDRs and InterconnectEnv; shim/getaddrinfo_shim.c k3sm_parse_cidrs   *)
(* and k3sm_interconnect_cfg_init).                                                           *)
THEOREM ScopesAgree == SocketSpec => []EncodersAgree
<1>1. SocketStart => Injected
  BY Zenon DEF SocketStart
<1>2. Injected => EncodersAgree
  BY InjectedAgree, Zenon
<1> QED
  BY <1>1, <1>2, InjectedStays, PTL DEF SocketSpec

(* A dial of a socket that its pod did not bind carries the pod's interconnect address on the *)
(* interconnect, its own address in the cluster and neither anywhere else; one that was bound *)
(* keeps its source, and none leaves from an alias that is gone, whatever the node's aliases  *)
(* and the lists of prefixes are (shim/getaddrinfo_shim.c k3sm_connect).                      *)
THEOREM DialsIdentified == SocketSpec => DialsCarryIdentity
<1>1. SocketStart => Injected /\ SocketInv
  BY SocketInitial, Zenon DEF SocketStart
<1>2. Injected /\ SocketInv => \A s \in Sockets, dst \in Dests : SourceUsable(s, dst) /\ DialCarriesIdentity(s, dst)
  BY DialCarries, DialUsable, Zenon DEF SocketInv
<1> QED
  BY <1>1, <1>2, InjectedStays, SocketPreserved, PTL DEF SocketSpec, DialsCarryIdentity

-----------------------------------------------------------------------------
(* The lookups. *)

DnsSpec == DnsBegin /\ [][DnsNext]_dnsVars

\* An engine of either kind.
Formed(g) == {"pc", "k", "temp", "res"} \subseteq DOMAIN g /\ g.k \in Nat \ {0}

\* Engine g over the candidates C, of which those at N fail closed, with the names z that exist.
\* A name that exists is passed over only where it fails closed, and that is remembered.
Passed(g, C, N, z) ==
  \A j \in 1 .. (g.k - 1) : Encodable(C[j]) /\ C[j] \in z => g.temp /\ j \in N
\* After that no such candidate is asked for.
Asking(g, N) == g.pc \in {"server", "ask"} => ~g.temp \/ g.k \notin N
Verdicts(g, C, N, z) ==
  /\ g.res \in {"addr", "addrs"} => C[g.k] \in z
  /\ g.res \in {"addr", "addrs", "notfound"} => ~g.temp \/ g.k \notin N
  /\ g.res = "EAI_NONAME" => ~g.temp
  /\ g.pc # "done" => g.res = "none"
EngineInv(g, C, N, z) == Formed(g) /\ Passed(g, C, N, z) /\ Asking(g, N) /\ Verdicts(g, C, N, z)

\* The candidates whose transient failure fails closed.
ShimClosed == {j \in Nat : k3sm_candidate_fail_closed(ShimCfg, ShimCandidates[j])}
GoClosed == {j \in Nat : isClusterCandidate(Candidates[j])}

\* A step that stays at its candidate, and one that ends the walk.
LEMMA Stays ==
  ASSUME NEW g, NEW C, NEW N, NEW z, EngineInv(g, C, N, z), g.pc # "done",
         NEW h, DOMAIN h = DOMAIN g, h.k = g.k, h.temp = g.temp, h.res = g.res, Asking(h, N), h.pc # "entry"
  PROVE  EngineInv(h, C, N, z) /\ h.pc # "entry"
BY Zenon DEF EngineInv, Passed, Formed, Verdicts

Returns(g, h, r) == h = Done(g, r)
LEMMA Ends ==
  ASSUME NEW g, NEW C, NEW N, NEW z, EngineInv(g, C, N, z), NEW r,
         NEW h, Returns(g, h, r),
         r \in {"addr", "addrs"} => C[g.k] \in z,
         r \in {"addr", "addrs", "notfound"} => ~g.temp \/ g.k \notin N,
         r = "EAI_NONAME" => ~g.temp
  PROVE  EngineInv(h, C, N, z) /\ h.pc # "entry"
<1>1. DOMAIN h = DOMAIN g /\ h.k = g.k /\ h.temp = g.temp /\ h.pc = "done" /\ h.res = r
  BY Zenon DEF EngineInv, Formed, Returns, Done
<1> QED
  BY <1>1, Zenon DEF EngineInv, Passed, Formed, Verdicts, Asking

\* A step to the next candidate.
LEMMA Moves ==
  ASSUME NEW g, NEW C, NEW N, NEW z, EngineInv(g, C, N, z), g.pc # "done",
         NEW h, h = NextCandidate(g),
         Encodable(C[g.k]) /\ C[g.k] \in z => g.temp /\ g.k \in N
  PROVE  EngineInv(h, C, N, z) /\ h.pc # "entry"
<1>1. DOMAIN h = DOMAIN g /\ h.k = g.k + 1 /\ h.temp = g.temp /\ h.pc = "candidate" /\ h.res = "none"
  BY Zenon DEF EngineInv, Formed, NextCandidate, Verdicts
<1>2. g.k \in Nat \ {0} /\ Formed(h)
  <2>1. g.k \in Nat \ {0} /\ {"pc", "k", "temp", "res"} \subseteq DOMAIN h
    BY <1>1, Zenon DEF EngineInv, Formed
  <2> QED
    BY <1>1, <2>1 DEF Formed
<1>3. \A j \in 1 .. (h.k - 1) : j \in 1 .. (g.k - 1) \/ j = g.k
  BY <1>1, <1>2
<1>4. Passed(h, C, N, z)
  BY <1>1, <1>3, Zenon DEF EngineInv, Passed
<1> QED
  BY <1>1, <1>2, <1>4, Zenon DEF EngineInv, Asking, Verdicts

\* A step to the next candidate after a transient failure of one that fails closed.
LEMMA Fails ==
  ASSUME NEW g, NEW C, NEW N, NEW z, EngineInv(g, C, N, z), g.pc # "done", g.k \in N,
         NEW h, h = NextCandidate([g EXCEPT !.temp = TRUE])
  PROVE  EngineInv(h, C, N, z) /\ h.pc # "entry"
<1>0. PICK f : f = [g EXCEPT !.temp = TRUE]
  OBVIOUS
<1>a. DOMAIN f = DOMAIN g /\ f.k = g.k /\ f.temp = TRUE /\ f.res = "none"
  BY <1>0, Zenon DEF EngineInv, Formed, Verdicts
<1>1. DOMAIN h = DOMAIN g /\ h.k = g.k + 1 /\ h.temp = TRUE /\ h.pc = "candidate" /\ h.res = "none"
  BY <1>0, <1>a, Zenon DEF EngineInv, Formed, NextCandidate
<1>2. g.k \in Nat \ {0} /\ Formed(h)
  <2>1. g.k \in Nat \ {0} /\ {"pc", "k", "temp", "res"} \subseteq DOMAIN h
    BY <1>1, Zenon DEF EngineInv, Formed
  <2> QED
    BY <1>1, <2>1 DEF Formed
<1>3. \A j \in 1 .. (h.k - 1) : j \in 1 .. (g.k - 1) \/ j = g.k
  BY <1>1, <1>2
<1>4. Passed(h, C, N, z)
  BY <1>1, <1>3, Zenon DEF EngineInv, Passed
<1> QED
  BY <1>1, <1>2, <1>4, Zenon DEF EngineInv, Asking, Verdicts

-----------------------------------------------------------------------------
(* The reference resolver. *)

GoInv == EngineInv(go, Candidates, GoClosed, zone)
GoInvNext == EngineInv(go', Candidates, GoClosed, zone)

LEMMA GoAt == GoInv => go.k \in Nat /\ (go.k \in GoClosed <=> isClusterCandidate(Candidate))
BY Zenon DEF GoInv, EngineInv, Formed, GoClosed, Candidate

LEMMA GoAnswered ==
  ASSUME GoInv, go.pc = "ask", NEW reply, Answered(reply),
         reply = "hit" => Candidate \in zone,
         reply = "miss" => ~(Encodable(Candidate) /\ Candidate \in zone)
  PROVE  GoInvNext
<1>1. CASE reply = "hit"
  <2>1. Returns(go, go', "addrs")
    BY <1>1, Zenon DEF Answered, GoDone, Returns
  <2>2. ~go.temp \/ go.k \notin GoClosed
    BY Zenon DEF GoInv, EngineInv, Asking
  <2> QED
    BY <1>1, <2>1, <2>2, Ends, Zenon DEF GoInv, GoInvNext, Candidate
<1>2. CASE reply = "miss"
  <2>1. go' = NextCandidate(go)
    BY <1>2 DEF Answered
  <2> QED
    BY <1>2, <2>1, Moves, Zenon DEF GoInv, GoInvNext, Candidate
<1>3. CASE reply \notin {"hit", "miss"}
  <2>0. PICK d : go' = [go EXCEPT !.pc = "server", !.i = @ + 1, !.dead = d]
    BY <1>3, Zenon DEF Answered
  <2>1. DOMAIN go' = DOMAIN go /\ go'.k = go.k /\ go'.temp = go.temp /\ go'.res = go.res /\ go'.pc # "entry"
    BY <2>0, Zenon DEF GoInv, EngineInv, Formed
  <2>2. Asking(go', GoClosed)
    BY <2>1, Zenon DEF Asking, GoInv, EngineInv
  <2> QED
    BY <2>1, <2>2, Stays, Zenon DEF GoInv, GoInvNext
<1> QED
  BY <1>1, <1>2, <1>3, Zenon

LEMMA GoTempFails ==
  ASSUME GoInv, go.pc = "server", TempFail
  PROVE  GoInvNext
<1>1. CASE isClusterCandidate(Candidate)
  <2>1. go' = NextCandidate([go EXCEPT !.temp = TRUE]) /\ go.k \in GoClosed
    BY <1>1, GoAt, Zenon DEF TempFail
  <2> QED
    BY <2>1, Fails, Zenon DEF GoInv, GoInvNext
<1>2. CASE ~isClusterCandidate(Candidate)
  <2>1. Returns(go, go', "notfound") /\ go.k \notin GoClosed
    BY <1>2, GoAt, Zenon DEF TempFail, GoDone, Returns
  <2> QED
    BY <2>1, Ends, Zenon DEF GoInv, GoInvNext
<1> QED
  BY <1>1, <1>2

LEMMA GoServer ==
  ASSUME GoInv, NextServer
  PROVE  GoInvNext
<1>1. go.pc = "server"
  BY Zenon DEF NextServer
<1>2. CASE TempFail
  BY <1>1, <1>2, GoTempFails, Zenon
<1>3. CASE \/ go' = [go EXCEPT !.i = @ + 1]
           \/ go' = [go EXCEPT !.pc = "ask", !.live = TRUE]
           \/ go' = [go EXCEPT !.attempt = @ + 1, !.i = 1, !.live = FALSE]
  <2>1. DOMAIN go' = DOMAIN go /\ go'.k = go.k /\ go'.temp = go.temp /\ go'.res = go.res /\ go'.pc # "entry"
    BY <1>1, <1>3, Zenon DEF GoInv, EngineInv, Formed
  <2>2. Asking(go', GoClosed)
    BY <1>1, <2>1, Zenon DEF Asking, GoInv, EngineInv
  <2> QED
    BY <1>1, <2>1, <2>2, Stays, Zenon DEF GoInv, GoInvNext
<1> QED
  BY <1>2, <1>3, Zenon DEF NextServer

LEMMA GoWalk ==
  ASSUME GoInv, LookupHost
  PROVE  GoInvNext
<1>1. go.pc = "candidate"
  BY Zenon DEF LookupHost
<1>2. CASE go.k > Len(Candidates)
  <2>1. PICK r : Returns(go, go', r) /\ r = IF go.temp THEN "tempfail" ELSE "notfound"
    BY <1>2, Zenon DEF LookupHost, GoDone, Returns
  <2>2. r \notin {"addr", "addrs", "EAI_NONAME"} /\ (r = "notfound" => ~go.temp)
    BY <2>1
  <2> QED
    BY <2>1, <2>2, Ends, Zenon DEF GoInv, GoInvNext
<1>3. CASE ~(go.k > Len(Candidates)) /\ go.temp /\ isClusterCandidate(Candidate)
  <2>1. go' = NextCandidate(go) /\ go.temp /\ go.k \in GoClosed
    BY <1>3, GoAt, Zenon DEF LookupHost
  <2> QED
    BY <1>1, <2>1, Moves, Zenon DEF GoInv, GoInvNext
<1>4. CASE ~(go.k > Len(Candidates)) /\ ~(go.temp /\ isClusterCandidate(Candidate))
  <2>1. go' = [go EXCEPT !.pc = "server"]
    BY <1>4, Zenon DEF LookupHost
  <2>2. DOMAIN go' = DOMAIN go /\ go'.k = go.k /\ go'.temp = go.temp /\ go'.res = go.res /\ go'.pc # "entry"
    BY <2>1, Zenon DEF GoInv, EngineInv, Formed
  <2>3. Asking(go', GoClosed)
    BY <1>4, <2>2, GoAt, Zenon DEF Asking
  <2> QED
    BY <1>1, <2>2, <2>3, Stays, Zenon DEF GoInv, GoInvNext
<1> QED
  BY <1>2, <1>3, <1>4, Zenon

-----------------------------------------------------------------------------
(* The shim. *)

ShimInv == EngineInv(shim, ShimCandidates, ShimClosed, zone) /\ (shim.pc = "entry" => ~shim.temp)
ShimInvNext == EngineInv(shim', ShimCandidates, ShimClosed, zone) /\ shim'.pc # "entry"

LEMMA ShimAt == ShimInv => shim.k \in Nat /\ (shim.k \in ShimClosed <=> FailClosed)
BY Zenon DEF ShimInv, EngineInv, Formed, ShimClosed, ShimCandidate, FailClosed

LEMMA ShimReturns ==
  ASSUME ShimInv, NEW r, ShimReturn(r),
         r \in {"addr", "addrs"} => ShimCandidate \in zone,
         r \in {"addr", "addrs", "notfound"} => ~shim.temp \/ shim.k \notin ShimClosed,
         r = "EAI_NONAME" => ~shim.temp
  PROVE  ShimInvNext
<1>1. Returns(shim, shim', r)
  BY Zenon DEF ShimReturn, Returns
<1> QED
  BY <1>1, Ends, Zenon DEF ShimInv, ShimInvNext, ShimCandidate

LEMMA ShimAnswers ==
  ASSUME ShimInv, shim.pc = "ask", NEW reply, ShimAnswered(reply),
         reply = "hit" => ShimCandidate \in zone,
         reply = "miss" => ~(Encodable(ShimCandidate) /\ ShimCandidate \in zone)
  PROVE  ShimInvNext
<1>1. CASE reply = "hit"
  <2>1. PICK r : ShimReturn(r) /\ r \in {"EAI_SERVICE", "addr"}
    BY <1>1, Zenon DEF ShimAnswered
  <2>2. ~shim.temp \/ shim.k \notin ShimClosed
    BY Zenon DEF ShimInv, EngineInv, Asking
  <2>3. r # "EAI_NONAME"
    BY <2>1, Zenon
  <2> QED
    BY <1>1, <2>1, <2>2, <2>3, ShimReturns, Zenon
<1>2. CASE reply = "miss"
  <2>1. shim' = NextCandidate(shim)
    BY <1>2 DEF ShimAnswered, ShimSkip
  <2> QED
    BY <1>2, <2>1, Moves, Zenon DEF ShimInv, ShimInvNext, ShimCandidate
<1>3. CASE reply \notin {"hit", "miss"}
  <2>0. PICK d : shim' = [shim EXCEPT !.pc = "server", !.i = @ + 1, !.dead = d]
    BY <1>3, Zenon DEF ShimAnswered
  <2>1. DOMAIN shim' = DOMAIN shim /\ shim'.k = shim.k /\ shim'.temp = shim.temp /\ shim'.res = shim.res /\ shim'.pc # "entry"
    BY <2>0, Zenon DEF ShimInv, EngineInv, Formed
  <2>2. Asking(shim', ShimClosed)
    BY <2>1, Zenon DEF Asking, ShimInv, EngineInv
  <2> QED
    BY <2>1, <2>2, Stays, Zenon DEF ShimInv, ShimInvNext
<1> QED
  BY <1>1, <1>2, <1>3, Zenon

LEMMA ShimTempFails ==
  ASSUME ShimInv, shim.pc = "server", ShimTempFail
  PROVE  ShimInvNext
<1>1. CASE FailClosed
  <2>1. shim' = NextCandidate([shim EXCEPT !.temp = TRUE]) /\ shim.k \in ShimClosed
    BY <1>1, ShimAt, Zenon DEF ShimTempFail
  <2> QED
    BY <2>1, Fails, Zenon DEF ShimInv, ShimInvNext
<1>2. CASE ~FailClosed
  BY <1>2, ShimReturns, Zenon DEF ShimTempFail
<1> QED
  BY <1>1, <1>2

LEMMA ShimServers ==
  ASSUME ShimInv, ShimServer
  PROVE  ShimInvNext
<1>1. shim.pc = "server"
  BY Zenon DEF ShimServer
<1>2. CASE ShimTempFail
  BY <1>1, <1>2, ShimTempFails, Zenon
<1>3. CASE \/ shim' = [shim EXCEPT !.i = @ + 1]
           \/ shim' = [shim EXCEPT !.pc = "ask", !.live = TRUE]
           \/ shim' = [shim EXCEPT !.attempt = @ + 1, !.i = 1, !.live = FALSE]
  <2>1. DOMAIN shim' = DOMAIN shim /\ shim'.k = shim.k /\ shim'.temp = shim.temp /\ shim'.res = shim.res /\ shim'.pc # "entry"
    BY <1>1, <1>3, Zenon DEF ShimInv, EngineInv, Formed
  <2>2. Asking(shim', ShimClosed)
    BY <1>1, <2>1, Zenon DEF Asking, ShimInv, EngineInv
  <2> QED
    BY <1>1, <2>1, <2>2, Stays, Zenon DEF ShimInv, ShimInvNext
<1> QED
  BY <1>2, <1>3, Zenon DEF ShimServer

LEMMA ShimEntry ==
  ASSUME ShimInv, Entry
  PROVE  ShimInvNext
<1>1. shim.pc = "entry" /\ ~shim.temp
  BY Zenon DEF Entry, ShimInv
<1>2. CASE \E r \in {"host", "EAI_AGAIN", "EAI_NONAME", "EAI_SERVICE"} : ShimReturn(r)
  BY <1>1, <1>2, ShimReturns, Zenon
<1>3. CASE ShimGoto("candidate")
  <2>1. DOMAIN shim' = DOMAIN shim /\ shim'.k = shim.k /\ shim'.temp = shim.temp /\ shim'.res = shim.res /\ shim'.pc = "candidate"
    BY <1>3, Zenon DEF ShimInv, EngineInv, Formed, ShimGoto
  <2>2. Asking(shim', ShimClosed)
    BY <2>1, Zenon DEF Asking
  <2> QED
    BY <1>1, <2>1, <2>2, Stays, Zenon DEF ShimInv, ShimInvNext
<1> QED
  BY <1>2, <1>3, Zenon DEF Entry

LEMMA ShimWalks ==
  ASSUME ShimInv, ShimWalk
  PROVE  ShimInvNext
<1>1. shim.pc = "candidate"
  BY Zenon DEF ShimWalk
<1>2. CASE shim.k > Len(ShimCandidates)
  <2>1. ShimReturn(IF shim.temp THEN "EAI_AGAIN" ELSE IF ShimCfg.exclusive THEN "EAI_NONAME" ELSE "host")
    BY <1>2, Zenon DEF ShimWalk
  <2> QED
    BY <2>1, ShimReturns, Zenon
<1>3. CASE ~(shim.k > Len(ShimCandidates)) /\ ShimCandidate \in LongNames
  <2>1. shim' = NextCandidate(shim) /\ ~Encodable(ShimCandidate)
    BY <1>3, Zenon DEF ShimWalk, ShimSkip, Encodable
  <2> QED
    BY <1>1, <2>1, Moves, Zenon DEF ShimInv, ShimInvNext, ShimCandidate
<1>4. CASE ~(shim.k > Len(ShimCandidates)) /\ ShimCandidate \notin LongNames /\ shim.temp /\ FailClosed
  <2>1. shim' = NextCandidate(shim) /\ shim.temp /\ shim.k \in ShimClosed
    BY <1>4, ShimAt, Zenon DEF ShimWalk, ShimSkip
  <2> QED
    BY <1>1, <2>1, Moves, Zenon DEF ShimInv, ShimInvNext
<1>5. CASE ~(shim.k > Len(ShimCandidates)) /\ ShimCandidate \notin LongNames /\ ~(shim.temp /\ FailClosed)
  <2>1. CASE ShimReturn("host")
    BY <2>1, ShimReturns, Zenon
  <2>2. CASE ShimGoto("server")
    <3>1. DOMAIN shim' = DOMAIN shim /\ shim'.k = shim.k /\ shim'.temp = shim.temp /\ shim'.res = shim.res /\ shim'.pc # "entry"
      BY <2>2, Zenon DEF ShimInv, EngineInv, Formed, ShimGoto
    <3>2. Asking(shim', ShimClosed)
      BY <1>5, <3>1, ShimAt, Zenon DEF Asking
    <3> QED
      BY <1>1, <3>1, <3>2, Stays, Zenon DEF ShimInv, ShimInvNext
  <2> QED
    BY <1>5, <2>1, <2>2, Zenon DEF ShimWalk
<1> QED
  BY <1>2, <1>3, <1>4, <1>5, Zenon

-----------------------------------------------------------------------------
(* Both. *)

DnsInv == GoInv /\ ("misread" \notin apart => ShimInv)

\* What the reference makes of a server's replies is true.
LEMMA RepliesAreTrue ==
  ASSUME NEW n, NEW udp \in Messages(n), NEW tcp \in Messages(n)
  PROVE  /\ queryA(udp, tcp) = "hit" => n \in zone
         /\ queryA(udp, tcp) = "miss" => n \notin zone
<1>1. ASSUME NEW m \in Messages(n), m.head # "lost"
      PROVE  /\ parseAAddrs(m) = "hit" => n \in zone
             /\ parseAAddrs(m) = "miss" => n \notin zone
  <2>1. Truthful(n, m)
    BY <1>1 DEF Messages, Lost
  <2>2. CASE parseAAddrs(m) \in {"hit", "miss"}
    <3>1. /\ m.head = "ours" /\ ~m.tc /\ m.rcode # "error"
          /\ Range(m.answers) \cap {"end", "cut"} = {}
          /\ parseAAddrs(m) = "hit" <=> "A" \in Range(m.answers)
      BY <2>2 DEF parseAAddrs
    <3> QED
      BY <2>1, <3>1 DEF Truthful
  <2> QED
    BY <2>2
<1> QED
  BY <1>1 DEF queryA

LEMMA RefetchedIsReply == ASSUME NEW n, NEW udp PROVE Refetched(n, udp) \subseteq Messages(n)
BY Zenon DEF Refetched, Messages

\* What the shim makes of them is, unless the reference makes something else of them.
LEMMA ShimReading ==
  ASSUME ShimInv, ShimAsks, NEW udp \in Messages(ShimCandidate), NEW tcp \in Messages(ShimCandidate),
         ShimReads(udp, tcp), "misread" \notin apart'
  PROVE  ShimInvNext
<1>1. k3sm_query_a(udp, tcp) = queryA(udp, tcp) /\ ShimAnswered(k3sm_query_a(udp, tcp))
  BY Zenon DEF ShimReads
<1> QED
  BY <1>1, RepliesAreTrue, ShimAnswers, Zenon DEF ShimAsks

LEMMA GoKept ==
  ASSUME GoInvNext, UNCHANGED <<cfg, name, zone>>
  PROVE  GoInv'
<1>1. Candidates' = Candidates /\ GoClosed' = GoClosed
  BY Zenon DEF Candidates, GoClosed, isClusterCandidate, Exclusive
<1> QED
  BY <1>1, Zenon DEF GoInvNext, GoInv

LEMMA ShimKept ==
  ASSUME ShimInvNext \/ (ShimInv /\ UNCHANGED shim), UNCHANGED <<cfg, name, zone>>
  PROVE  ShimInv'
<1>1. ShimCandidates' = ShimCandidates /\ ShimClosed' = ShimClosed
  BY Zenon DEF ShimCandidates, ShimClosed, ShimCfg
<1> QED
  BY <1>1, Zenon DEF ShimInvNext, ShimInv

LEMMA GoStill == GoInv /\ UNCHANGED go => GoInvNext
BY Zenon DEF GoInv, GoInvNext

LEMMA DnsInitial == DnsBegin => DnsInv
<1> SUFFICES ASSUME DnsBegin PROVE DnsInv
  OBVIOUS
<1>1. ASSUME NEW g, NEW C, NEW N, NEW z, DOMAIN g = DOMAIN Start, g.k = 1, g.temp = FALSE, g.res = "none"
      PROVE  EngineInv(g, C, N, z)
  <2>1. Formed(g)
    BY <1>1 DEF Formed, Start
  <2>2. 1 .. (g.k - 1) = {}
    BY <1>1
  <2> QED
    BY <1>1, <2>1, <2>2, Zenon DEF EngineInv, Passed, Asking, Verdicts
<1>2. \A g, p : g = Start \/ g = [Start EXCEPT !.pc = p] =>
        DOMAIN g = DOMAIN Start /\ g.k = 1 /\ g.temp = FALSE /\ g.res = "none"
  BY DEF Start
<1> QED
  BY <1>1, <1>2, Zenon DEF DnsBegin, DnsInv, ShimInv, GoInv

LEMMA DnsStep == DnsInv /\ [DnsNext]_dnsVars => DnsInv'
<1> SUFFICES ASSUME DnsInv, [DnsNext]_dnsVars PROVE DnsInv'
  OBVIOUS
<1>0. GoInv /\ ("misread" \notin apart => ShimInv)
  BY Zenon DEF DnsInv
<1>1. ASSUME "misread" \notin apart' => "misread" \notin apart /\ (ShimInvNext \/ UNCHANGED shim),
             GoInvNext \/ UNCHANGED go, UNCHANGED <<cfg, name, zone>>
      PROVE  DnsInv'
  BY <1>0, <1>1, GoKept, ShimKept, GoStill, Zenon DEF DnsInv
<1>2. CASE Entry \/ ShimWalk \/ ShimServer
  <2>1. UNCHANGED <<cfg, name, zone, go, apart>>
    BY <1>2, Zenon DEF Entry, ShimWalk, ShimServer
  <2> QED
    BY <1>0, <1>1, <1>2, <2>1, ShimEntry, ShimWalks, ShimServers, Zenon
<1>3. CASE ShimUnencodable
  <2>1. UNCHANGED <<cfg, name, zone, go, apart>> /\ shim.pc = "ask" /\ ShimAnswered("miss") /\ ~Encodable(ShimCandidate)
    BY <1>3, Zenon DEF ShimUnencodable
  <2>2. ShimInv => ShimInvNext
    BY <2>1, ShimAnswers, Zenon
  <2> QED
    BY <1>0, <1>1, <2>1, <2>2, Zenon
<1>4. CASE Reference
  <2>0. UNCHANGED <<cfg, name, zone, shim, apart>>
    BY <1>4, Zenon DEF Reference, LookupHost, NextServer, Unencodable
  <2>1. CASE LookupHost \/ NextServer
    BY <1>0, <1>1, <2>0, <2>1, GoWalk, GoServer, Zenon
  <2>2. CASE Unencodable
    <3>1. go.pc = "ask" /\ Answered("miss") /\ ~Encodable(Candidate)
      BY <2>2, Zenon DEF Unencodable
    <3>2. GoInvNext
      BY <1>0, <3>1, GoAnswered, Zenon
    <3> QED
      BY <1>0, <1>1, <2>0, <3>2, Zenon
  <2> QED
    BY <1>4, <2>1, <2>2, Zenon DEF Reference
<1>5. ASSUME NEW udp \in Messages(ShimCandidate), NEW tcp \in Refetched(ShimCandidate, udp), ShimAsks, ShimReads(udp, tcp)
      PROVE  "misread" \notin apart' => "misread" \notin apart /\ ShimInvNext
  <2>1. "misread" \notin apart' => "misread" \notin apart
    BY <1>5, Zenon DEF ShimReads
  <2>2. tcp \in Messages(ShimCandidate)
    BY <1>5, RefetchedIsReply, Zenon
  <2> QED
    BY <1>0, <1>5, <2>1, <2>2, ShimReading, Zenon
<1>6. ASSUME NEW udp \in Messages(Candidate), NEW tcp \in Refetched(Candidate, udp), GoAsks, Answered(queryA(udp, tcp))
      PROVE  GoInvNext
  <2>1. tcp \in Messages(Candidate)
    BY <1>6, RefetchedIsReply, Zenon
  <2> QED
    BY <1>0, <1>6, <2>1, RepliesAreTrue, GoAnswered, Zenon DEF GoAsks
<1>7. CASE ExchangeBoth
  <2>1. PICK udp \in Messages(ShimCandidate) : \E tcp \in Refetched(ShimCandidate, udp) :
          ShimReads(udp, tcp) /\ Answered(queryA(udp, tcp))
    BY <1>7, Zenon DEF ExchangeBoth
  <2>2. PICK tcp \in Refetched(ShimCandidate, udp) : ShimReads(udp, tcp) /\ Answered(queryA(udp, tcp))
    BY <2>1, Zenon
  <2>3. Candidate = ShimCandidate /\ GoAsks /\ ShimAsks /\ UNCHANGED <<cfg, name, zone>>
    BY <1>7, Zenon DEF ExchangeBoth, GoQuestion, ShimQuestion
  <2>4. GoInvNext
    BY <1>6, <2>2, <2>3, Zenon
  <2> QED
    BY <1>1, <1>5, <2>2, <2>3, <2>4, Zenon
<1>8. CASE ExchangeShim
  <2>1. PICK udp \in Messages(ShimCandidate) : \E tcp \in Refetched(ShimCandidate, udp) : ShimReads(udp, tcp)
    BY <1>8, Zenon DEF ExchangeShim
  <2>2. ShimAsks /\ UNCHANGED <<cfg, name, zone, go>>
    BY <1>8, Zenon DEF ExchangeShim
  <2> QED
    BY <1>1, <1>5, <2>1, <2>2, Zenon
<1>9. CASE ExchangeGo
  <2>1. PICK udp \in Messages(Candidate) : \E tcp \in Refetched(Candidate, udp) : Answered(queryA(udp, tcp))
    BY <1>9, Zenon DEF ExchangeGo
  <2>2. GoAsks /\ UNCHANGED <<cfg, name, zone, shim, apart>>
    BY <1>9, Zenon DEF ExchangeGo
  <2> QED
    BY <1>0, <1>1, <1>6, <2>1, <2>2, Zenon
<1>10. CASE ContextEnds
  <2>1. UNCHANGED <<cfg, name, zone, shim, apart>> /\ ((GoAsks /\ Answered("transport")) \/ UNCHANGED go)
    BY <1>10, Zenon DEF ContextEnds
  <2>2. GoAsks /\ Answered("transport") => GoInvNext
    BY <1>0, GoAnswered, Zenon DEF GoAsks
  <2> QED
    BY <1>0, <1>1, <2>1, <2>2, Zenon
<1>11. CASE UNCHANGED dnsVars
  BY <1>0, <1>1, <1>11, Zenon DEF dnsVars
<1> QED
  BY <1>2, <1>3, <1>4, <1>7, <1>8, <1>9, <1>10, <1>11, Zenon DEF DnsNext

LEMMA DnsFinal == DnsInv => AnswerRight
<1> SUFFICES ASSUME DnsInv PROVE AnswerRight
  OBVIOUS
<1>1. ASSUME NEW g, NEW C, NEW N, NEW z, EngineInv(g, C, N, z), ~g.temp
      PROVE  \A j \in 1 .. (g.k - 1) : Encodable(C[j]) => C[j] \notin z
  BY <1>1, Zenon DEF EngineInv, Passed
<1>2. ~go.temp => NoneExists(Candidates, go.k)
  BY <1>1, Zenon DEF DnsInv, GoInv, NoneExists
<1>3. /\ go.res = "addrs" => Candidate \in zone
      /\ go.res = "addrs" /\ isClusterCandidate(Candidate) => ~go.temp
      /\ go.res = "notfound" /\ Exclusive => ~go.temp
  BY GoAt, Zenon DEF DnsInv, GoInv, EngineInv, Verdicts, isClusterCandidate, Candidate
<1>4. ASSUME ShimInv PROVE ShimAnswerRight
  <2>1. ~shim.temp => NoneExists(ShimCandidates, shim.k)
    BY <1>1, <1>4, Zenon DEF ShimInv, NoneExists
  <2>2. /\ shim.res = "addr" => ShimCandidate \in zone
        /\ shim.res = "addr" /\ FailClosed => ~shim.temp
        /\ shim.res = "EAI_NONAME" => ~shim.temp
    BY <1>4, ShimAt, Zenon DEF ShimInv, EngineInv, Verdicts, ShimCandidate
  <2> QED
    BY <2>1, <2>2, Zenon DEF ShimAnswerRight
<1> QED
  BY <1>2, <1>3, <1>4, Zenon DEF AnswerRight, DnsInv

\* An address is that of a candidate that exists, for a cluster candidate the first of them, and "no such
\* name" is said only when none does: by LookupHost (pkg/dns/resolver.go) whatever replies are lost, useless
\* or cut short, and by k3sm_getaddrinfo (shim/getaddrinfo_shim.c) until it reads a reply otherwise; for any
\* configuration, name, zone and set of replies.
THEOREM AnswersAreRight == DnsSpec => []AnswerRight
BY DnsInitial, DnsStep, DnsFinal, PTL DEF DnsSpec

=============================================================================
