--------------------------- MODULE UdpRelayProofs ---------------------------
(***************************************************************************)
(* The safety of the UDP relays, for any number of relays, clients and     *)
(* sources.                                                                *)
(*                                                                         *)
(* FlowsCounted compares counters that are moved by one with the           *)
(* cardinalities of sets of flows over all relays, so the first part is    *)
(* about counting: what one relay's table gains or loses, the totals gain  *)
(* or lose. The step that admits a flow is safe because only the           *)
(* dispatcher adds one, so the client it dialled for still has none        *)
(* (NewFlow), and because a closed relay has no flow left to be released   *)
(* twice (ClosedEmpty).                                                    *)
(*                                                                         *)
(* SocketsOwned is inductive once it says which party holds a socket       *)
(* (SocketHeld): the table, the dispatcher between its dial and its        *)
(* admission, or the Close that drained the flow.                          *)
(***************************************************************************)
EXTENDS UdpRelay, FiniteSetTheorems, TLAPS

Dispatchers == [pc : {"read", "peek", "dial", "admit", "write", "gone"}, client : Clients \cup {NoClient}]
Closings == [pc : {"open", "drained", "unblocked", "joining", "closed"}, drained : SUBSET Clients]

UdpTypeOK ==
  /\ limits \in Limits /\ udpNow \in Nat \ {0} /\ total \in Int
  /\ flows \in [Relays -> [Clients -> Nat]] /\ perSource \in [Relays -> [Sources -> Int]]
  /\ bySource \in [Sources -> Int] /\ sockets \subseteq Relays \X Clients
  /\ disp \in [Relays -> Dispatchers] /\ sweeper \in [Relays -> BOOLEAN]
  /\ readers \in [Relays -> [Clients -> Nat]] /\ closing \in [Relays -> Closings]

\* The dispatcher is the only one to add a flow, so the client it dials for still has none.
NewFlow ==
  \A r \in Relays : disp[r].pc \in {"peek", "dial", "admit"} =>
    disp[r].client \in Clients /\ flows[r][disp[r].client] = 0

ClosedEmpty == \A r \in Relays : Closed(r) => \A c \in Clients : flows[r][c] = 0

\* The two halves of SocketsOwned.
WillClose(n, c) == c \in n.drained /\ n.pc \in {"drained", "unblocked"}
SocketHeld(x) ==
  \/ flows[x[1]][x[2]] # 0
  \/ disp[x[1]].pc = "admit" /\ disp[x[1]].client = x[2]
  \/ WillClose(closing[x[1]], x[2])
CloseDone(r) ==
  /\ ~\E c \in Clients : <<r, c>> \in sockets \/ readers[r][c] # 0 \/ flows[r][c] # 0
  /\ disp[r].pc = "gone" /\ ~sweeper[r]

UdpSafe ==
  /\ NewFlow /\ ClosedEmpty
  /\ \A x \in sockets : SocketHeld(x)
  /\ \A r \in Relays : closing[r].pc = "closed" => CloseDone(r)

UdpInv == UdpTypeOK /\ UdpSafe /\ FlowsCounted

UdpSpec == UdpInit /\ [][UdpNext]_udpVars

-----------------------------------------------------------------------------
(* Counting the flows of a table. *)

FlowTables == [Relays -> [Clients -> Nat]]
From(s) == {c \in Clients : SourceIP[c] = s}
Flows(h, C) == {c \in C : h[c] # 0}
AllFlows(f, C) == {x \in Relays \X C : f[x[1]][x[2]] # 0}

\* FlowsCounted, in those terms.
Tally ==
  /\ total = Cardinality(AllFlows(flows, Clients)) /\ total <= limits.total
  /\ \A s \in Sources :
       /\ bySource[s] = Cardinality(AllFlows(flows, From(s))) /\ bySource[s] <= limits.global
       /\ \A r \in Relays : perSource[r][s] = Cardinality(Flows(flows[r], From(s)))
                            /\ perSource[r][s] <= limits.perSource
  /\ \A r \in Relays : Cardinality(Flows(flows[r], Clients)) <= limits.flows

LEMMA FromClients == \A s \in Sources : From(s) \in SUBSET Clients
BY Zenon DEF From

\* A number of flows is a natural number: there are finitely many clients and relays.
LEMMA FlowsFinite ==
  ASSUME NEW C \in SUBSET Clients
  PROVE  /\ IsFiniteSet(C)
         /\ \A h : IsFiniteSet(Flows(h, C)) /\ Cardinality(Flows(h, C)) \in Nat
         /\ \A f : IsFiniteSet(AllFlows(f, C)) /\ Cardinality(AllFlows(f, C)) \in Nat
<1>1. IsFiniteSet(C)
  BY UdpAssumption, FS_Subset, Zenon
<1>2. ASSUME NEW h PROVE IsFiniteSet(Flows(h, C)) /\ Cardinality(Flows(h, C)) \in Nat
  <2>1. Flows(h, C) \in SUBSET C
    BY Zenon DEF Flows
  <2> QED
    BY <1>1, <2>1, FS_Subset, FS_CardinalityType, Zenon
<1>3. ASSUME NEW f PROVE IsFiniteSet(AllFlows(f, C)) /\ Cardinality(AllFlows(f, C)) \in Nat
  <2>1. IsFiniteSet(Relays \X C)
    BY <1>1, UdpAssumption, FS_Product, Zenon
  <2>2. AllFlows(f, C) \in SUBSET (Relays \X C)
    BY Zenon DEF AllFlows
  <2> QED
    BY <2>1, <2>2, FS_Subset, FS_CardinalityType, Zenon
<1> QED
  BY <1>1, <1>2, <1>3, Zenon

LEMMA OneRelay ==
  ASSUME NEW r, NEW S, IsFiniteSet(S)
  PROVE  IsFiniteSet({r} \X S) /\ Cardinality({r} \X S) = Cardinality(S)
<1>1. IsFiniteSet({r}) /\ Cardinality({r}) = 1
  BY FS_Singleton, Zenon
<1>2. IsFiniteSet({r} \X S) /\ Cardinality({r} \X S) = Cardinality({r}) * Cardinality(S)
  BY <1>1, FS_Product, Zenon
<1>3. Cardinality(S) \in Nat
  BY FS_CardinalityType, Zenon
<1> QED
  BY <1>1, <1>2, <1>3

LEMMA DisjointUnion ==
  ASSUME NEW S, NEW T, IsFiniteSet(S), IsFiniteSet(T), S \cap T = {}
  PROVE  Cardinality(S \cup T) = Cardinality(S) + Cardinality(T)
<1>1. Cardinality(S \cup T) = Cardinality(S) + Cardinality(T) - Cardinality(S \cap T)
  BY FS_Union, Zenon
<1>2. Cardinality(S \cap T) = 0
  BY FS_EmptySet, Zenon
<1>3. Cardinality(S) \in Nat /\ Cardinality(T) \in Nat
  BY FS_CardinalityType, Zenon
<1> QED
  BY <1>1, <1>2, <1>3

\* A change of one relay's table changes the number of all flows by as much.
LEMMA TableChanged ==
  ASSUME NEW f \in FlowTables, NEW g \in FlowTables, NEW r \in Relays, NEW C \in SUBSET Clients,
         \A q \in Relays : q # r => g[q] = f[q]
  PROVE  Cardinality(AllFlows(g, C))
           = Cardinality(AllFlows(f, C)) - Cardinality(Flows(f[r], C)) + Cardinality(Flows(g[r], C))
<1> DEFINE rest == {x \in AllFlows(f, C) : x[1] # r}
           old == {r} \X Flows(f[r], C)
           new == {r} \X Flows(g[r], C)
<1>1. AllFlows(f, C) = rest \cup old /\ rest \cap old = {}
  BY Zenon DEF AllFlows, Flows
<1>2. AllFlows(g, C) = rest \cup new /\ rest \cap new = {}
  BY Zenon DEF AllFlows, Flows
<1>3. IsFiniteSet(rest) /\ Cardinality(rest) \in Nat
  <2>1. rest \in SUBSET AllFlows(f, C)
    BY Zenon
  <2> HIDE DEF rest
  <2> QED
    BY <2>1, FlowsFinite, FS_Subset, FS_CardinalityType, Zenon
<1>4. /\ IsFiniteSet(old) /\ Cardinality(old) = Cardinality(Flows(f[r], C))
      /\ IsFiniteSet(new) /\ Cardinality(new) = Cardinality(Flows(g[r], C))
  BY FlowsFinite, OneRelay, Zenon
<1>5. Cardinality(old) \in Nat /\ Cardinality(new) \in Nat
  BY <1>4, FlowsFinite, Zenon
<1> HIDE DEF rest, old, new
<1>6. Cardinality(AllFlows(f, C)) = Cardinality(rest) + Cardinality(old)
  BY <1>1, <1>3, <1>4, DisjointUnion, Zenon
<1>7. Cardinality(AllFlows(g, C)) = Cardinality(rest) + Cardinality(new)
  BY <1>2, <1>3, <1>4, DisjointUnion, Zenon
<1> QED
  BY <1>3, <1>4, <1>5, <1>6, <1>7

\* A stamp neither adds a flow nor takes one away.
LEMMA StampedTable ==
  ASSUME NEW f \in FlowTables, NEW g \in FlowTables,
         \A r \in Relays, c \in Clients : g[r][c] # 0 <=> f[r][c] # 0
  PROVE  \A C \in SUBSET Clients :
           AllFlows(g, C) = AllFlows(f, C) /\ \A r \in Relays : Flows(g[r], C) = Flows(f[r], C)
BY Zenon DEF AllFlows, Flows

Gains(f, g, r, C, n) ==
  /\ Cardinality(Flows(g[r], C)) = Cardinality(Flows(f[r], C)) + n
  /\ Cardinality(AllFlows(g, C)) = Cardinality(AllFlows(f, C)) + n
Loses(f, g, r, C, n) ==
  /\ n \in Nat
  /\ Cardinality(Flows(g[r], C)) = Cardinality(Flows(f[r], C)) - n
  /\ Cardinality(AllFlows(g, C)) = Cardinality(AllFlows(f, C)) - n

Admits(f, g, r, c) ==
  /\ f \in FlowTables /\ g \in FlowTables /\ \A q \in Relays : q # r => g[q] = f[q]
  /\ f[r][c] = 0 /\ g[r][c] # 0 /\ \A d \in Clients : d # c => g[r][d] = f[r][d]

LEMMA AdmittedFlow ==
  ASSUME NEW f, NEW g, NEW r \in Relays, NEW c \in Clients, Admits(f, g, r, c)
  PROVE  \A C \in SUBSET Clients : Gains(f, g, r, C, IF c \in C THEN 1 ELSE 0)
<1> TAKE C \in SUBSET Clients
<1>0. /\ f \in FlowTables /\ g \in FlowTables /\ \A q \in Relays : q # r => g[q] = f[q]
      /\ f[r][c] = 0 /\ g[r][c] # 0 /\ \A d \in Clients : d # c => g[r][d] = f[r][d]
  BY Zenon DEF Admits
<1>1. Flows(g[r], C) = (IF c \in C THEN Flows(f[r], C) \cup {c} ELSE Flows(f[r], C))
  BY <1>0, Zenon DEF Flows
<1>2. c \notin Flows(f[r], C)
  BY <1>0, Zenon DEF Flows
<1>3. Cardinality(Flows(g[r], C)) = Cardinality(Flows(f[r], C)) + (IF c \in C THEN 1 ELSE 0)
  <2>1. IsFiniteSet(Flows(f[r], C)) /\ Cardinality(Flows(f[r], C)) \in Nat
    BY FlowsFinite, Zenon
  <2>2. Cardinality(Flows(f[r], C) \cup {c}) = Cardinality(Flows(f[r], C)) + 1
    BY <1>2, <2>1, FS_AddElement, Zenon
  <2> QED
    BY <1>1, <2>1, <2>2
<1>4. Cardinality(AllFlows(g, C))
        = Cardinality(AllFlows(f, C)) - Cardinality(Flows(f[r], C)) + Cardinality(Flows(g[r], C))
  BY <1>0, TableChanged, Zenon
<1>5. Cardinality(AllFlows(f, C)) \in Nat /\ Cardinality(Flows(f[r], C)) \in Nat
  BY FlowsFinite, Zenon
<1> QED
  BY <1>3, <1>4, <1>5 DEF Gains

Releases(f, g, r, gone) ==
  /\ f \in FlowTables /\ g \in FlowTables /\ \A q \in Relays : q # r => g[q] = f[q]
  /\ gone \in SUBSET Flows(f[r], Clients)
  /\ \A c \in Clients : g[r][c] = IF c \in gone THEN 0 ELSE f[r][c]

LEMMA ReleasedFlows ==
  ASSUME NEW f, NEW g, NEW r \in Relays, NEW gone, Releases(f, g, r, gone)
  PROVE  \A C \in SUBSET Clients : Loses(f, g, r, C, Cardinality(gone \cap C))
<1> TAKE C \in SUBSET Clients
<1>0. /\ f \in FlowTables /\ g \in FlowTables /\ \A q \in Relays : q # r => g[q] = f[q]
      /\ gone \in SUBSET Flows(f[r], Clients)
      /\ \A c \in Clients : g[r][c] = IF c \in gone THEN 0 ELSE f[r][c]
  BY Zenon DEF Releases
<1>1. /\ Flows(f[r], C) = Flows(g[r], C) \cup (gone \cap C)
      /\ Flows(g[r], C) \cap (gone \cap C) = {}
  BY <1>0, Zenon DEF Flows
<1>2. IsFiniteSet(gone \cap C) /\ Cardinality(gone \cap C) \in Nat
  <2>1. gone \cap C \in SUBSET C
    BY Zenon
  <2> QED
    BY <2>1, FlowsFinite, FS_Subset, FS_CardinalityType, Zenon
<1>3. Cardinality(Flows(f[r], C)) = Cardinality(Flows(g[r], C)) + Cardinality(gone \cap C)
  BY <1>1, <1>2, FlowsFinite, DisjointUnion, Zenon
<1>4. Cardinality(AllFlows(g, C))
        = Cardinality(AllFlows(f, C)) - Cardinality(Flows(f[r], C)) + Cardinality(Flows(g[r], C))
  BY <1>0, TableChanged, Zenon
<1>5. Cardinality(AllFlows(f, C)) \in Nat /\ Cardinality(Flows(f[r], C)) \in Nat
      /\ Cardinality(Flows(g[r], C)) \in Nat
  BY FlowsFinite, Zenon
<1> QED
  BY <1>2, <1>3, <1>4, <1>5 DEF Loses

LEMMA CountedIsTally == FlowsCounted <=> Tally
<1>1. AllFlows(flows, Clients) = {x \in Relays \X Clients : flows[x[1]][x[2]] # 0}
  BY Zenon DEF AllFlows
<1>2. \A s \in Sources : AllFlows(flows, From(s))
        = {x \in Relays \X Clients : SourceIP[x[2]] = s /\ flows[x[1]][x[2]] # 0}
  BY Zenon DEF AllFlows, From
<1>3. \A s \in Sources, r \in Relays : Flows(flows[r], From(s)) = {c \in Live(r) : SourceIP[c] = s}
  BY Zenon DEF Flows, From, Live
<1>4. \A r \in Relays : Flows(flows[r], Clients) = Live(r)
  BY Zenon DEF Flows, Live
<1>5. ASSUME FlowsCounted PROVE Tally
  <2>1. ASSUME NEW s \in Sources, NEW r \in Relays
        PROVE  perSource[r][s] = Cardinality(Flows(flows[r], From(s))) /\ perSource[r][s] <= limits.perSource
    BY <1>3, <1>5, Zenon DEF FlowsCounted
  <2>2. \A s \in Sources :
          bySource[s] = Cardinality(AllFlows(flows, From(s))) /\ bySource[s] <= limits.global
    BY <1>2, <1>5, Zenon DEF FlowsCounted
  <2>3. total = Cardinality(AllFlows(flows, Clients)) /\ total <= limits.total
    BY <1>1, <1>5, Zenon DEF FlowsCounted
  <2>4. \A r \in Relays : Cardinality(Flows(flows[r], Clients)) <= limits.flows
    BY <1>4, <1>5, Zenon DEF FlowsCounted
  <2> QED
    BY <2>1, <2>2, <2>3, <2>4, Zenon DEF Tally
<1>6. ASSUME Tally PROVE FlowsCounted
  <2>1. ASSUME NEW s \in Sources, NEW r \in Relays
        PROVE  /\ perSource[r][s] = Cardinality({c \in Live(r) : SourceIP[c] = s})
               /\ Cardinality({c \in Live(r) : SourceIP[c] = s}) <= limits.perSource
    BY <1>3, <1>6, Zenon DEF Tally
  <2>2. \A s \in Sources :
          /\ bySource[s] = Cardinality({x \in Relays \X Clients :
                                          SourceIP[x[2]] = s /\ flows[x[1]][x[2]] # 0})
          /\ bySource[s] <= limits.global
    BY <1>2, <1>6, Zenon DEF Tally
  <2>3. total = Cardinality({x \in Relays \X Clients : flows[x[1]][x[2]] # 0}) /\ total <= limits.total
    BY <1>1, <1>6, Zenon DEF Tally
  <2>4. \A r \in Relays : Cardinality(Live(r)) <= limits.flows
    BY <1>4, <1>6, Zenon DEF Tally
  <2> QED
    BY <2>1, <2>2, <2>3, <2>4, Zenon DEF FlowsCounted
<1> QED
  BY <1>5, <1>6, Zenon

\* A step that neither adds a flow nor takes one away keeps the tally.
LEMMA TallyKept ==
  ASSUME UdpTypeOK, UdpTypeOK', Tally, UNCHANGED <<limits, perSource, budgetVars>>,
         \A r \in Relays, c \in Clients : flows'[r][c] # 0 <=> flows[r][c] # 0
  PROVE  Tally'
<1>1. flows \in FlowTables /\ flows' \in FlowTables
  BY Zenon DEF UdpTypeOK, FlowTables
<1>2. \A C \in SUBSET Clients :
        /\ AllFlows(flows', C) = AllFlows(flows, C)
        /\ \A r \in Relays : Flows(flows'[r], C) = Flows(flows[r], C)
  BY <1>1, StampedTable, Zenon
<1>3. AllFlows(flows', Clients) = AllFlows(flows, Clients)
      /\ \A r \in Relays : Flows(flows'[r], Clients) = Flows(flows[r], Clients)
  BY <1>2, Zenon
<1>4. \A s \in Sources :
        /\ AllFlows(flows', From(s)) = AllFlows(flows, From(s))
        /\ \A r \in Relays : Flows(flows'[r], From(s)) = Flows(flows[r], From(s))
  BY <1>2, FromClients, Zenon
<1>5. limits' = limits /\ perSource' = perSource /\ total' = total /\ bySource' = bySource
  BY Zenon DEF budgetVars
<1> QED
  BY <1>3, <1>4, <1>5, Zenon DEF Tally

\* What a change of the table of one relay has to do to its counters and to the budget:
\* each is changed by what the change adds to the flows it counts, and no cap is passed.
LEMMA TallyMoves ==
  ASSUME UdpTypeOK, UdpTypeOK', Tally, NEW r \in Relays,
         limits' = limits, \A q \in Relays : q # r => flows'[q] = flows[q] /\ perSource'[q] = perSource[q],
         total' = Cardinality(AllFlows(flows', Clients)), total' <= limits.total,
         \A s \in Sources :
           /\ bySource'[s] = Cardinality(AllFlows(flows', From(s))) /\ bySource'[s] <= limits.global
           /\ perSource'[r][s] = Cardinality(Flows(flows'[r], From(s)))
           /\ perSource'[r][s] <= limits.perSource,
         Cardinality(Flows(flows'[r], Clients)) <= limits.flows
  PROVE  Tally'
<1>1. ASSUME NEW q \in Relays
      PROVE  /\ Cardinality(Flows(flows'[q], Clients)) <= limits.flows
             /\ \A s \in Sources : perSource'[q][s] = Cardinality(Flows(flows'[q], From(s)))
                                   /\ perSource'[q][s] <= limits.perSource
  BY Zenon DEF Tally
<1> QED
  BY <1>1, Zenon DEF Tally

-----------------------------------------------------------------------------
(* The invariant holds at first, and is kept by every step. *)

LEMMA UdpInitial == UdpInit => UdpInv
<1> SUFFICES ASSUME UdpInit PROVE UdpInv
  BY Zenon
<1>1. UdpTypeOK
  BY DEF UdpInit, UdpTypeOK, Dispatchers, Closings, Ready
<1>2. UdpSafe
  BY Zenon DEF UdpInit, UdpSafe, NewFlow, ClosedEmpty, Closed, Ready
<1>3. \A C \in SUBSET Clients :
        AllFlows(flows, C) = {} /\ \A r \in Relays : Flows(flows[r], C) = {}
  BY Zenon DEF UdpInit, AllFlows, Flows
<1>4. limits.flows \in Nat \ {0} /\ limits.perSource \in Nat \ {0}
      /\ limits.total \in Nat \ {0} /\ limits.global \in Nat \ {0}
  BY UdpAssumption, Zenon DEF UdpInit
<1>5. \A s \in Sources : /\ Cardinality(AllFlows(flows, From(s))) = 0
                         /\ \A r \in Relays : Cardinality(Flows(flows[r], From(s))) = 0
  BY <1>3, FromClients, FS_EmptySet, Zenon
<1>6. Cardinality(AllFlows(flows, Clients)) = 0
      /\ \A r \in Relays : Cardinality(Flows(flows[r], Clients)) = 0
  BY <1>3, FS_EmptySet, Zenon
<1>7. Tally
  BY <1>4, <1>5, <1>6, SMTT(20) DEF UdpInit, Tally
<1> QED
  BY <1>1, <1>2, <1>7, CountedIsTally, Zenon DEF UdpInv

\* The steps that change no counter.
LEMMA QuietStep ==
  ASSUME UdpInv, UdpTypeOK', UdpSafe', UNCHANGED <<limits, perSource, budgetVars>>,
         \A r \in Relays, c \in Clients : flows'[r][c] # 0 <=> flows[r][c] # 0
  PROVE  UdpInv'
<1>1. UdpTypeOK /\ Tally
  BY CountedIsTally, Zenon DEF UdpInv
<1>2. Tally'
  BY <1>1, TallyKept, Zenon
<1>3. FlowsCounted'
  BY <1>2, CountedIsTally, PTL
<1> QED
  BY <1>3, Zenon DEF UdpInv

LEMMA StampStep ==
  ASSUME UdpTypeOK, NEW r \in Relays, NEW c \in Clients, flows[r][c] # 0,
         flows' = [flows EXCEPT ![r][c] = udpNow]
  PROVE  /\ flows' \in [Relays -> [Clients -> Nat]]
         /\ \A q \in Relays, d \in Clients : flows'[q][d] # 0 <=> flows[q][d] # 0
<1>1. flows \in [Relays -> [Clients -> Nat]] /\ udpNow \in Nat \ {0}
  BY Zenon DEF UdpTypeOK
<1> QED
  BY <1>1, Zenon

\* A step of the dispatcher that changes no counter: it keeps to a new flow while it dials,
\* and a socket it lets go of is closed.
LEMMA DispatcherMoves ==
  ASSUME UdpInv, NEW r \in Relays, NEW d \in Dispatchers, disp' = [disp EXCEPT ![r] = d],
         disp[r].pc # "gone",
         d.pc \in {"peek", "dial", "admit"} => d.client \in Clients /\ flows[r][d.client] = 0,
         flows' \in [Relays -> [Clients -> Nat]],
         \A q \in Relays, c \in Clients : flows'[q][c] # 0 <=> flows[q][c] # 0,
         \A x \in sockets' :
           \/ x \in sockets /\ (x[1] = r => ~(disp[r].pc = "admit" /\ disp[r].client = x[2]))
           \/ x = <<r, d.client>> /\ d.pc = "admit",
         UNCHANGED <<limits, perSource, budgetVars, sweeper, readers, closing, udpNow>>
  PROVE  UdpInv'
<1>1. UdpTypeOK /\ NewFlow /\ ClosedEmpty /\ (\A x \in sockets : SocketHeld(x))
      /\ \A q \in Relays : closing[q].pc = "closed" => CloseDone(q)
  BY Zenon DEF UdpInv, UdpSafe
<1>2. /\ UNCHANGED <<limits, perSource, budgetVars>> /\ total' = total /\ bySource' = bySource
      /\ sweeper' = sweeper /\ readers' = readers /\ closing' = closing /\ udpNow' = udpNow
  BY Zenon DEF budgetVars
<1>3. disp \in [Relays -> Dispatchers]
  BY <1>1, Zenon DEF UdpTypeOK
<1>4. disp'[r] = d /\ \A q \in Relays : q # r => disp'[q] = disp[q]
  BY <1>3, Zenon
<1>5. UdpTypeOK'
  <2>1. disp' \in [Relays -> Dispatchers]
    BY <1>3, Zenon
  <2>2. sockets' \subseteq Relays \X Clients
    <3>1. sockets \subseteq Relays \X Clients
      BY <1>1, Zenon DEF UdpTypeOK
    <3>2. d.pc = "admit" => <<r, d.client>> \in Relays \X Clients
      BY Zenon
    <3> QED
      BY <3>1, <3>2, Zenon
  <2> QED
    BY <1>1, <1>2, <2>1, <2>2, Zenon DEF UdpTypeOK
<1>6. NewFlow'
  BY <1>1, <1>4 DEF NewFlow
<1>7. ClosedEmpty'
  BY <1>1, <1>2, Zenon DEF ClosedEmpty, Closed
<1>8. \A x \in sockets' : SocketHeld(x)'
  <2> SUFFICES ASSUME NEW x \in sockets' PROVE SocketHeld(x)'
    BY Zenon
  <2>1. CASE x = <<r, d.client>> /\ d.pc = "admit"
    BY <1>4, <2>1 DEF SocketHeld
  <2>2. CASE x \in sockets /\ (x[1] = r => ~(disp[r].pc = "admit" /\ disp[r].client = x[2]))
    <3>1. x[1] \in Relays /\ x[2] \in Clients /\ SocketHeld(x)
      BY <1>1, <2>2, Zenon DEF UdpTypeOK
    <3>2. x[1] # r => disp'[x[1]] = disp[x[1]]
      BY <1>4, <3>1, Zenon
    <3>3. flows'[x[1]][x[2]] # 0 <=> flows[x[1]][x[2]] # 0
      BY <3>1, Zenon
    <3> QED
      BY <1>2, <2>2, <3>1, <3>2, <3>3, Zenon DEF SocketHeld
  <2> QED
    BY <2>1, <2>2, Zenon
<1>9. \A q \in Relays : closing'[q].pc = "closed" => CloseDone(q)'
  <2> SUFFICES ASSUME NEW q \in Relays, closing'[q].pc = "closed" PROVE CloseDone(q)'
    BY Zenon
  <2>1. CloseDone(q)
    BY <1>1, <1>2, Zenon
  <2>2. q # r
    BY <2>1, Zenon DEF CloseDone
  <2>3. ASSUME NEW c \in Clients PROVE <<q, c>> \notin sockets'
    BY <2>1, <2>2, <2>3, Zenon DEF CloseDone
  <2> QED
    BY <1>2, <1>4, <2>1, <2>2, <2>3, Zenon DEF CloseDone
<1>10. UdpSafe'
  BY <1>6, <1>7, <1>8, <1>9, Zenon DEF UdpSafe
<1> QED
  BY <1>2, <1>5, <1>10, QuietStep, Zenon

\* A step of a reader, of the sweeper, of Close or of the clock that changes no counter.
LEMMA ThreadMoves ==
  ASSUME UdpInv, UdpTypeOK', UNCHANGED <<limits, perSource, budgetVars, disp>>,
         \A q \in Relays, c \in Clients : flows'[q][c] # 0 <=> flows[q][c] # 0,
         \A q \in Relays : closing'[q].pc = "open" <=> closing[q].pc = "open",
         \A x \in sockets' : SocketHeld(x)',
         \A q \in Relays : closing'[q].pc = "closed" => CloseDone(q)'
  PROVE  UdpInv'
<1>1. NewFlow /\ ClosedEmpty
  BY Zenon DEF UdpInv, UdpSafe
<1>2. NewFlow'
  BY <1>1, Zenon DEF NewFlow
<1>3. ClosedEmpty'
  BY <1>1, Zenon DEF ClosedEmpty, Closed
<1>4. UdpSafe'
  BY <1>2, <1>3, Zenon DEF UdpSafe
<1> QED
  BY <1>4, QuietStep, Zenon

LEMMA LookupStep ==
  ASSUME UdpInv, NEW r \in Relays, NEW c \in Clients, Lookup(r, c)
  PROVE  UdpInv'
<1>1. UdpTypeOK /\ disp[r].pc = "read"
  BY Zenon DEF UdpInv, Lookup
<1>2. disp \in [Relays -> Dispatchers] /\ flows \in [Relays -> [Clients -> Nat]]
  BY <1>1, Zenon DEF UdpTypeOK
<1>3. /\ flows' \in [Relays -> [Clients -> Nat]]
      /\ \A q \in Relays, e \in Clients : flows'[q][e] # 0 <=> flows[q][e] # 0
  <2>1. CASE flows[r][c] # 0
    BY <1>1, <2>1, StampStep, Zenon DEF Lookup
  <2>2. CASE flows[r][c] = 0
    BY <1>2, <2>2, Zenon DEF Lookup
  <2> QED
    BY <2>1, <2>2, Zenon
<1>4. PICK d \in Dispatchers : disp' = [disp EXCEPT ![r] = d] /\
        \/ d = disp[r]
        \/ d = [pc |-> "write", client |-> c]
        \/ d = [pc |-> "peek", client |-> c] /\ flows[r][c] = 0
  <2>1. disp[r] \in Dispatchers /\ [pc |-> "write", client |-> c] \in Dispatchers
        /\ [pc |-> "peek", client |-> c] \in Dispatchers
    BY <1>2, Zenon DEF Dispatchers
  <2>2. disp = [disp EXCEPT ![r] = disp[r]]
    BY <1>2, Zenon
  <2> QED
    BY <2>1, <2>2, Zenon DEF Lookup
<1>5. d.pc # "admit" /\ d.pc # "dial" /\ (d.pc = "peek" => d.client = c /\ flows[r][c] = 0)
  BY <1>1, <1>4
<1>6. UNCHANGED <<limits, perSource, budgetVars, sweeper, readers, closing, udpNow>> /\ sockets' = sockets
  BY Zenon DEF Lookup, upstreamVars
<1> QED
  BY <1>1, <1>3, <1>4, <1>5, <1>6, DispatcherMoves, ZenonT(40)

\* The dispatcher lets its client go, goes on with it, or returns.
LEMMA DispatcherRecords ==
  ASSUME UdpTypeOK, NEW r \in Relays
  PROVE  /\ disp \in [Relays -> Dispatchers] /\ flows \in [Relays -> [Clients -> Nat]]
         /\ sockets \subseteq Relays \X Clients
         /\ Ready \in Dispatchers /\ Ready.pc = "read"
         /\ \A p \in {"dial", "admit", "write", "gone"} :
              /\ [disp[r] EXCEPT !.pc = p] \in Dispatchers
              /\ [disp[r] EXCEPT !.pc = p].pc = p /\ [disp[r] EXCEPT !.pc = p].client = disp[r].client
              /\ [disp EXCEPT ![r].pc = p] = [disp EXCEPT ![r] = [disp[r] EXCEPT !.pc = p]]
<1>1. /\ disp \in [Relays -> Dispatchers] /\ flows \in [Relays -> [Clients -> Nat]]
      /\ sockets \subseteq Relays \X Clients
  BY Zenon DEF UdpTypeOK
<1>2. Ready \in Dispatchers /\ Ready.pc = "read"
  BY Zenon DEF Ready, Dispatchers
<1>3. disp[r] \in Dispatchers
  BY <1>1, Zenon
<1>4. ASSUME NEW p \in {"dial", "admit", "write", "gone"}
      PROVE  /\ [disp[r] EXCEPT !.pc = p] \in Dispatchers
             /\ [disp[r] EXCEPT !.pc = p].pc = p /\ [disp[r] EXCEPT !.pc = p].client = disp[r].client
  BY <1>3, Zenon DEF Dispatchers
<1>5. \A p : [disp EXCEPT ![r].pc = p] = [disp EXCEPT ![r] = [disp[r] EXCEPT !.pc = p]]
  BY <1>1, Zenon
<1> QED
  BY <1>1, <1>2, <1>4, <1>5, Zenon

LEMMA PeekStep ==
  ASSUME UdpInv, NEW r \in Relays, PeekAtCap(r)
  PROVE  UdpInv'
<1>1. UdpTypeOK /\ NewFlow /\ disp[r].pc = "peek"
  BY Zenon DEF UdpInv, UdpSafe, PeekAtCap
<1>2. disp[r].client \in Clients /\ flows[r][disp[r].client] = 0
  BY <1>1, Zenon DEF NewFlow
<1>3. PICK d \in Dispatchers : /\ disp' = [disp EXCEPT ![r] = d]
                               /\ d.pc = "read" \/ (d.pc = "dial" /\ d.client = disp[r].client)
  BY <1>1, DispatcherRecords, Zenon DEF PeekAtCap, Dropped, At
<1>4. d.pc \in {"peek", "dial", "admit"} => d.client \in Clients /\ flows[r][d.client] = 0
  BY <1>2, <1>3, Zenon
<1>5. UNCHANGED <<limits, perSource, budgetVars, sweeper, readers, closing, udpNow>>
      /\ sockets' = sockets /\ flows' = flows
  BY Zenon DEF PeekAtCap, relayVars, upstreamVars
<1> QED
  BY <1>1, <1>3, <1>4, <1>5, DispatcherRecords, DispatcherMoves, Zenon

LEMMA DialStep ==
  ASSUME UdpInv, NEW r \in Relays, Dial(r)
  PROVE  UdpInv'
<1>1. UdpTypeOK /\ NewFlow /\ disp[r].pc = "dial"
  BY Zenon DEF UdpInv, UdpSafe, Dial
<1>2. disp[r].client \in Clients /\ flows[r][disp[r].client] = 0
  BY <1>1, Zenon DEF NewFlow
<1>3. PICK d \in Dispatchers : /\ disp' = [disp EXCEPT ![r] = d]
                               /\ \/ d.pc = "read" /\ sockets' = sockets
                                  \/ /\ d.pc = "admit" /\ d.client = disp[r].client
                                     /\ sockets' = sockets \cup {<<r, disp[r].client>>}
  BY <1>1, DispatcherRecords, Zenon DEF Dial, Dropped, At
<1>4. d.pc \in {"peek", "dial", "admit"} => d.client \in Clients /\ flows[r][d.client] = 0
  BY <1>2, <1>3, Zenon
<1>5. UNCHANGED <<limits, perSource, budgetVars, sweeper, readers, closing, udpNow>> /\ flows' = flows
  BY Zenon DEF Dial, relayVars
<1>6. \A x \in sockets' : x \in sockets \/ (x = <<r, d.client>> /\ d.pc = "admit")
  BY <1>3, Zenon
<1>7. /\ flows' \in [Relays -> [Clients -> Nat]]
      /\ \A q \in Relays, c \in Clients : flows'[q][c] # 0 <=> flows[q][c] # 0
      /\ disp[r].pc # "gone"
  BY <1>1, <1>5, DispatcherRecords, Zenon
<1>8. \A x \in sockets' :
        \/ x \in sockets /\ (x[1] = r => ~(disp[r].pc = "admit" /\ disp[r].client = x[2]))
        \/ x = <<r, d.client>> /\ d.pc = "admit"
  BY <1>1, <1>6, Zenon
<1> QED
  BY <1>3, <1>4, <1>5, <1>7, <1>8, DispatcherMoves, ZenonT(40)

\* The steps after which the dispatcher has no new flow in hand.
LEMMA DispatcherLetsGo ==
  ASSUME UdpInv, NEW r \in Relays, NEW d \in Dispatchers, disp' = [disp EXCEPT ![r] = d],
         disp[r].pc # "gone", d.pc \in {"read", "gone"},
         UNCHANGED <<limits, relayVars, budgetVars, sweeper, readers, closing, udpNow>>,
         sockets' = sockets \ {<<r, disp[r].client>>} \/ (sockets' = sockets /\ disp[r].pc # "admit")
  PROVE  UdpInv'
<1>1. UdpTypeOK
  BY Zenon DEF UdpInv
<1>2. UNCHANGED <<limits, perSource, budgetVars, sweeper, readers, closing, udpNow>> /\ flows' = flows
  BY Zenon DEF relayVars
<1>3. \A x \in sockets' : x \in sockets /\ (x[1] = r => ~(disp[r].pc = "admit" /\ disp[r].client = x[2]))
  <2>1. sockets \subseteq Relays \X Clients
    BY <1>1, DispatcherRecords, Zenon
  <2>2. \A x \in sockets : x = <<x[1], x[2]>>
    BY <2>1
  <2> QED
    BY <2>2, Zenon
<1>4. /\ flows' \in [Relays -> [Clients -> Nat]]
      /\ \A q \in Relays, c \in Clients : flows'[q][c] # 0 <=> flows[q][c] # 0
      /\ ~(d.pc \in {"peek", "dial", "admit"})
  BY <1>1, <1>2, DispatcherRecords, Zenon
<1>5. \A x \in sockets' :
        \/ x \in sockets /\ (x[1] = r => ~(disp[r].pc = "admit" /\ disp[r].client = x[2]))
        \/ x = <<r, d.client>> /\ d.pc = "admit"
  BY <1>3, Zenon
<1> QED
  BY <1>2, <1>4, <1>5, DispatcherMoves, Zenon

LEMMA ForwardStep ==
  ASSUME UdpInv, NEW r \in Relays, Forward(r) \/ DispatchReturns(r)
  PROVE  UdpInv'
<1>1. UdpTypeOK /\ disp[r].pc \in {"write", "read"}
  BY Zenon DEF UdpInv, Forward, DispatchReturns
<1>2. PICK d \in Dispatchers : disp' = [disp EXCEPT ![r] = d] /\ d.pc \in {"read", "gone"}
  BY <1>1, DispatcherRecords, Zenon DEF Forward, DispatchReturns, Dropped, At
<1>3. UNCHANGED <<limits, relayVars, budgetVars, sweeper, readers, closing, udpNow>> /\ sockets' = sockets
  BY Zenon DEF Forward, DispatchReturns, upstreamVars
<1> QED
  BY <1>1, <1>2, <1>3, DispatcherLetsGo, Zenon

-----------------------------------------------------------------------------
LEMMA ReplyStep ==
  ASSUME UdpInv, NEW r \in Relays, NEW c \in Clients, Reply(r, c)
  PROVE  UdpInv'
<1>1. UdpTypeOK /\ UdpSafe
  BY Zenon DEF UdpInv
<1>2. /\ flows' \in [Relays -> [Clients -> Nat]]
      /\ \A q \in Relays, d \in Clients : flows'[q][d] # 0 <=> flows[q][d] # 0
  BY <1>1, StampStep, Zenon DEF Reply
<1>3. /\ limits' = limits /\ perSource' = perSource /\ UNCHANGED budgetVars /\ total' = total
      /\ bySource' = bySource /\ sockets' = sockets /\ disp' = disp /\ sweeper' = sweeper
      /\ readers' = readers /\ closing' = closing /\ udpNow' = udpNow
  BY Zenon DEF Reply, budgetVars, upstreamVars, threadVars
<1>4. UdpTypeOK'
  BY <1>1, <1>2, <1>3, Zenon DEF UdpTypeOK
<1>5. \A x \in sockets' : SocketHeld(x)'
  <2> SUFFICES ASSUME NEW x \in sockets' PROVE SocketHeld(x)'
    BY Zenon
  <2>1. x[1] \in Relays /\ x[2] \in Clients /\ SocketHeld(x)
    BY <1>1, <1>3, Zenon DEF UdpTypeOK, UdpSafe
  <2> QED
    BY <1>2, <1>3, <2>1, Zenon DEF SocketHeld
<1>6. \A q \in Relays : closing'[q].pc = "closed" => CloseDone(q)'
  BY <1>1, <1>2, <1>3, Zenon DEF UdpSafe, CloseDone
<1> QED
  BY <1>2, <1>3, <1>4, <1>5, <1>6, ThreadMoves, Zenon

LEMMA ReaderStep ==
  ASSUME UdpInv, NEW r \in Relays, NEW c \in Clients, ReaderReturns(r, c)
  PROVE  UdpInv'
<1>1. UdpTypeOK /\ UdpSafe
  BY DEF UdpInv
<1>2. /\ limits' = limits /\ perSource' = perSource /\ UNCHANGED budgetVars /\ total' = total
      /\ bySource' = bySource /\ sockets' = sockets /\ disp' = disp /\ sweeper' = sweeper
      /\ flows' = flows /\ closing' = closing /\ udpNow' = udpNow
  BY Zenon DEF ReaderReturns, budgetVars, relayVars
<1>3. readers \in [Relays -> [Clients -> Nat]] /\ readers' = [readers EXCEPT ![r][c] = @ - 1]
      /\ readers[r][c] # 0
  <2>1. readers \in [Relays -> [Clients -> Nat]] /\ readers' = [readers EXCEPT ![r][c] = @ - 1]
    BY <1>1, Zenon DEF UdpTypeOK, ReaderReturns
  <2>2. readers[r][c] > 1 \/ readers[r][c] > 0
    BY Zenon DEF ReaderReturns
  <2> QED
    BY <2>1, <2>2
<1>4. readers' \in [Relays -> [Clients -> Nat]] /\ \A q \in Relays : q # r => readers'[q] = readers[q]
  <2>0. readers[r] \in [Clients -> Nat] /\ readers[r][c] # 0
    BY <1>3, Zenon
  <2>1. readers[r][c] - 1 \in Nat
    BY <2>0
  <2>2. readers' = [readers EXCEPT ![r] = [readers[r] EXCEPT ![c] = readers[r][c] - 1]]
    BY <1>3, Zenon
  <2>3. [readers[r] EXCEPT ![c] = readers[r][c] - 1] \in [Clients -> Nat]
    BY <1>3, <2>1, Zenon
  <2> QED
    BY <1>3, <2>2, <2>3, Zenon
<1>5. UdpTypeOK'
  BY <1>1, <1>2, <1>4, Zenon DEF UdpTypeOK
<1>6. \A x \in sockets' : SocketHeld(x)'
  BY <1>1, <1>2, Zenon DEF UdpSafe, SocketHeld
<1>7. \A q \in Relays : closing'[q].pc = "closed" => CloseDone(q)'
  <2> SUFFICES ASSUME NEW q \in Relays, closing'[q].pc = "closed" PROVE CloseDone(q)'
    BY Zenon
  <2>1. CloseDone(q)
    BY <1>1, <1>2, Zenon DEF UdpSafe
  <2>2. q # r
    BY <1>3, <2>1, Zenon DEF CloseDone
  <2> QED
    BY <1>2, <1>4, <2>1, <2>2, Zenon DEF CloseDone
<1> QED
  BY <1>2, <1>5, <1>6, <1>7, ThreadMoves, Zenon

LEMMA SweepReturnsStep ==
  ASSUME UdpInv, NEW r \in Relays, SweepReturns(r)
  PROVE  UdpInv'
<1>1. UdpTypeOK /\ UdpSafe
  BY Zenon DEF UdpInv
<1>2. /\ limits' = limits /\ perSource' = perSource /\ UNCHANGED budgetVars /\ total' = total
      /\ bySource' = bySource /\ sockets' = sockets /\ disp' = disp /\ readers' = readers
      /\ flows' = flows /\ closing' = closing /\ udpNow' = udpNow
  BY Zenon DEF SweepReturns, budgetVars, relayVars, upstreamVars
<1>3. sweeper' \in [Relays -> BOOLEAN] /\ \A q \in Relays : ~sweeper[q] => ~sweeper'[q]
  BY <1>1, Zenon DEF UdpTypeOK, SweepReturns
<1>4. UdpTypeOK'
  BY <1>1, <1>2, <1>3, Zenon DEF UdpTypeOK
<1>5. \A x \in sockets' : SocketHeld(x)'
  BY <1>1, <1>2, Zenon DEF UdpSafe, SocketHeld
<1>6. \A q \in Relays : closing'[q].pc = "closed" => CloseDone(q)'
  BY <1>1, <1>2, <1>3, Zenon DEF UdpSafe, CloseDone
<1> QED
  BY <1>2, <1>4, <1>5, <1>6, ThreadMoves, Zenon

LEMMA UdpTickStep ==
  ASSUME UdpInv, UdpTick
  PROVE  UdpInv'
<1>1. UdpTypeOK /\ UdpSafe
  BY Zenon DEF UdpInv
<1>2. /\ limits' = limits /\ perSource' = perSource /\ UNCHANGED budgetVars /\ total' = total
      /\ bySource' = bySource /\ sockets' = sockets /\ disp' = disp /\ readers' = readers
      /\ flows' = flows /\ closing' = closing /\ sweeper' = sweeper
  BY Zenon DEF UdpTick, budgetVars, relayVars, upstreamVars, threadVars
<1>3. udpNow' \in Nat \ {0}
  BY <1>1 DEF UdpTypeOK, UdpTick
<1>4. UdpTypeOK'
  BY <1>1, <1>2, <1>3, Zenon DEF UdpTypeOK
<1>5. \A x \in sockets' : SocketHeld(x)'
  BY <1>1, <1>2, Zenon DEF UdpSafe, SocketHeld
<1>6. \A q \in Relays : closing'[q].pc = "closed" => CloseDone(q)'
  BY <1>1, <1>2, Zenon DEF UdpSafe, CloseDone
<1> QED
  BY <1>2, <1>4, <1>5, <1>6, ThreadMoves, Zenon

\* What a step of Close does to the record of its progress.
LEMMA CloseMoves ==
  ASSUME UdpInv, NEW r \in Relays, NEW n \in Closings, closing' = [closing EXCEPT ![r] = n],
         closing[r].pc # "open", n.pc # "open", n.pc = "closed" => CloseDone(r),
         closing[r].pc # "closed",
         \A x \in sockets' :
           x \in sockets /\ (x[1] = r /\ WillClose(closing[r], x[2]) => WillClose(n, x[2])),
         UNCHANGED <<limits, relayVars, budgetVars, disp, sweeper, readers, udpNow>>
  PROVE  UdpInv'
<1>1. UdpTypeOK /\ UdpSafe
  BY Zenon DEF UdpInv
<1>2. /\ limits' = limits /\ perSource' = perSource /\ UNCHANGED budgetVars /\ total' = total
      /\ bySource' = bySource /\ disp' = disp /\ readers' = readers
      /\ flows' = flows /\ sweeper' = sweeper /\ udpNow' = udpNow
  BY Zenon DEF budgetVars, relayVars
<1>3. closing \in [Relays -> Closings] /\ sockets \subseteq Relays \X Clients
  BY <1>1, Zenon DEF UdpTypeOK
<1>4. closing' \in [Relays -> Closings] /\ closing'[r] = n
      /\ \A q \in Relays : q # r => closing'[q] = closing[q]
  BY <1>3, Zenon
<1>5. UdpTypeOK'
  <2>1. sockets' \subseteq Relays \X Clients
    BY <1>3, Zenon
  <2> QED
    BY <1>1, <1>2, <1>4, <2>1, Zenon DEF UdpTypeOK
<1>6. \A x \in sockets' : SocketHeld(x)'
  <2> SUFFICES ASSUME NEW x \in sockets' PROVE SocketHeld(x)'
    BY Zenon
  <2>1. x[1] \in Relays /\ SocketHeld(x)
    BY <1>1, <1>3, Zenon DEF UdpSafe
  <2>2. CASE x[1] = r
    BY <1>2, <1>4, <2>1, <2>2, Zenon DEF SocketHeld
  <2>3. CASE x[1] # r
    BY <1>2, <1>4, <2>1, <2>3, Zenon DEF SocketHeld
  <2> QED
    BY <2>2, <2>3, Zenon
<1>7. \A q \in Relays : closing'[q].pc = "closed" => CloseDone(q)'
  <2> SUFFICES ASSUME NEW q \in Relays, closing'[q].pc = "closed" PROVE CloseDone(q)'
    BY Zenon
  <2>1. CloseDone(q)
    BY <1>1, <1>4, Zenon DEF UdpSafe
  <2> QED
    BY <1>2, <2>1, Zenon DEF CloseDone
<1>8. \A q \in Relays : closing'[q].pc = "open" <=> closing[q].pc = "open"
  BY <1>4, Zenon
<1> QED
  BY <1>2, <1>5, <1>6, <1>7, <1>8, ThreadMoves, Zenon

LEMMA CloseStep ==
  ASSUME UdpInv, NEW r \in Relays, CloseGoesOn(r)
  PROVE  UdpInv'
<1>1. UdpTypeOK /\ UdpSafe
  BY DEF UdpInv
<1>2. closing \in [Relays -> Closings] /\ closing[r] \in Closings /\ sockets \subseteq Relays \X Clients
  BY <1>1, Zenon DEF UdpTypeOK
<1>3. UNCHANGED <<limits, relayVars, budgetVars, disp, sweeper, readers, udpNow>>
  BY Zenon DEF CloseGoesOn, CloseConn, CloseUpstreams, CloseJoins
<1>4. CASE CloseConn(r)
  <2>1. PICK n \in Closings : closing' = [closing EXCEPT ![r] = n] /\ n.pc = "unblocked"
                              /\ n.drained = closing[r].drained
    <3>1. [closing[r] EXCEPT !.pc = "unblocked"] \in Closings
          /\ [closing[r] EXCEPT !.pc = "unblocked"].pc = "unblocked"
          /\ [closing[r] EXCEPT !.pc = "unblocked"].drained = closing[r].drained
      BY <1>2, Zenon DEF Closings
    <3>2. closing' = [closing EXCEPT ![r] = [closing[r] EXCEPT !.pc = "unblocked"]]
      BY <1>2, <1>4, Zenon DEF CloseConn
    <3> QED
      BY <3>1, <3>2, Zenon
  <2>2. sockets' = sockets /\ closing[r].pc = "drained"
    BY <1>4, Zenon DEF CloseConn, upstreamVars
  <2>3. n.pc # "open" /\ n.pc # "closed" /\ closing[r].pc # "open" /\ closing[r].pc # "closed"
    BY <2>1, <2>2, Zenon
  <2>4. \A x \in sockets' : x \in sockets /\ (WillClose(closing[r], x[2]) => WillClose(n, x[2]))
    BY <2>1, <2>2, Zenon DEF WillClose
  <2> QED
    BY <1>3, <2>1, <2>3, <2>4, CloseMoves, Zenon
<1>5. CASE CloseUpstreams(r)
  <2>1. PICK n \in Closings : closing' = [closing EXCEPT ![r] = n] /\ n.pc = "joining"
    <3>1. [pc |-> "joining", drained |-> {}] \in Closings
      BY Zenon DEF Closings
    <3> QED
      BY <1>5, <3>1, Zenon DEF CloseUpstreams
  <2>2. closing[r].pc = "unblocked" /\ sockets' = sockets \ ({r} \X closing[r].drained)
    BY <1>5, Zenon DEF CloseUpstreams, Shut
  <2>3. \A x \in sockets' : x \in sockets /\ ~(x[1] = r /\ x[2] \in closing[r].drained)
    BY <1>2, <2>2, Zenon
  <2>4. n.pc # "open" /\ n.pc # "closed" /\ closing[r].pc # "open" /\ closing[r].pc # "closed"
    BY <2>1, <2>2, Zenon
  <2>5. \A x \in sockets' : x \in sockets /\ ~(x[1] = r /\ WillClose(closing[r], x[2]))
    BY <2>3, Zenon DEF WillClose
  <2> QED
    BY <1>3, <2>1, <2>4, <2>5, CloseMoves, Zenon
<1>6. CASE CloseJoins(r)
  <2>1. PICK n \in Closings : closing' = [closing EXCEPT ![r] = n] /\ n.pc = "closed"
    <3>1. [closing[r] EXCEPT !.pc = "closed"] \in Closings
          /\ [closing[r] EXCEPT !.pc = "closed"].pc = "closed"
      BY <1>2, Zenon DEF Closings
    <3>2. closing' = [closing EXCEPT ![r] = [closing[r] EXCEPT !.pc = "closed"]]
      BY <1>2, <1>6, Zenon DEF CloseJoins
    <3> QED
      BY <3>1, <3>2, Zenon
  <2>2. sockets' = sockets /\ closing[r].pc = "joining"
    BY <1>6, Zenon DEF CloseJoins, upstreamVars
  <2>3. CloseDone(r)
    <3>1. disp[r].pc = "gone" /\ ~sweeper[r] /\ \A c \in Clients : readers[r][c] = 0
      BY <1>6, Zenon DEF CloseJoins
    <3>2. \A c \in Clients : flows[r][c] = 0
      BY <1>1, <2>2, Zenon DEF UdpSafe, ClosedEmpty, Closed
    <3>3. ASSUME NEW c \in Clients, <<r, c>> \in sockets PROVE FALSE
      <4>1. SocketHeld(<<r, c>>)
        BY <1>1, <3>3, Zenon DEF UdpSafe
      <4> QED
        BY <2>2, <3>1, <3>2, <4>1, Zenon DEF SocketHeld, WillClose
    <3> QED
      BY <3>1, <3>2, <3>3, Zenon DEF CloseDone
  <2>4. n.pc # "open" /\ closing[r].pc # "open" /\ closing[r].pc # "closed"
    BY <2>1, <2>2, Zenon
  <2>5. \A x \in sockets' : x \in sockets /\ ~WillClose(closing[r], x[2])
    BY <2>2, Zenon DEF WillClose
  <2> QED
    BY <1>3, <2>1, <2>3, <2>4, <2>5, CloseMoves, Zenon
<1> QED
  BY <1>4, <1>5, <1>6, Zenon DEF CloseGoesOn

-----------------------------------------------------------------------------
LEMMA LimitsAreNumbers ==
  ASSUME UdpTypeOK
  PROVE  limits.flows \in Nat /\ limits.perSource \in Nat /\ limits.total \in Nat /\ limits.global \in Nat
<1>1. limits \in Limits
  BY Zenon DEF UdpTypeOK
<1> QED
  BY <1>1, UdpAssumption, Zenon

\* A flow that passes the second lock is one more for its relay, its source and the budget,
\* and each of them had room for it.
LEMMA AdmittedTally ==
  ASSUME UdpTypeOK, UdpTypeOK', Tally, NEW r \in Relays, NEW c \in Clients, flows[r][c] = 0,
         ~PerVIPFull(r, c), ~AtCap(c), limits' = limits,
         flows' = [flows EXCEPT ![r][c] = udpNow],
         perSource' = [perSource EXCEPT ![r][SourceIP[c]] = @ + 1],
         total' = total + 1, bySource' = [bySource EXCEPT ![SourceIP[c]] = @ + 1]
  PROVE  Tally'
<1>1. /\ flows \in FlowTables /\ flows' \in FlowTables /\ udpNow \in Nat \ {0}
      /\ perSource \in [Relays -> [Sources -> Int]] /\ bySource \in [Sources -> Int] /\ total \in Int
  BY Zenon DEF UdpTypeOK, FlowTables
<1>2. SourceIP[c] \in Sources
  BY Zenon DEF Sources
<1>3. \A q \in Relays : q # r => flows'[q] = flows[q] /\ perSource'[q] = perSource[q]
  BY <1>1, Zenon DEF FlowTables
<1>4. flows'[r][c] # 0 /\ \A d \in Clients : d # c => flows'[r][d] = flows[r][d]
  BY <1>1, Zenon DEF FlowTables
<1>5. \A C \in SUBSET Clients : Gains(flows, flows', r, C, IF c \in C THEN 1 ELSE 0)
  <2>1. \A q \in Relays : q # r => flows'[q] = flows[q]
    BY <1>3, Zenon
  <2>2. Admits(flows, flows', r, c)
    BY <1>1, <1>4, <2>1, Zenon DEF Admits
  <2> QED
    BY <2>2, AdmittedFlow, Zenon
<1>6. /\ Cardinality(Flows(flows[r], Clients)) < limits.flows
      /\ perSource[r][SourceIP[c]] < limits.perSource
      /\ total < limits.total /\ bySource[SourceIP[c]] < limits.global
  <2>1. Flows(flows[r], Clients) = Live(r)
    BY Zenon DEF Flows, Live
  <2>2. Cardinality(Flows(flows[r], Clients)) \in Nat
    BY FlowsFinite, Zenon
  <2>3. /\ ~(Cardinality(Flows(flows[r], Clients)) >= limits.flows)
        /\ ~(perSource[r][SourceIP[c]] >= limits.perSource)
        /\ ~(total >= limits.total) /\ ~(bySource[SourceIP[c]] >= limits.global)
    BY <2>1, Zenon DEF PerVIPFull, AtCap
  <2>4. perSource[r][SourceIP[c]] \in Int /\ bySource[SourceIP[c]] \in Int
    BY <1>1, <1>2, Zenon
  <2> QED
    BY <1>1, <2>2, <2>3, <2>4, LimitsAreNumbers
<1>7. total' = Cardinality(AllFlows(flows', Clients)) /\ total' <= limits.total
  <2>1. total = Cardinality(AllFlows(flows, Clients))
    BY Zenon DEF Tally
  <2>2. Cardinality(AllFlows(flows', Clients)) = Cardinality(AllFlows(flows, Clients)) + 1
    BY <1>5, Zenon DEF Gains
  <2> QED
    BY <1>1, <1>6, <2>1, <2>2, LimitsAreNumbers
<1>8. Cardinality(Flows(flows'[r], Clients)) <= limits.flows
  <2>1. Cardinality(Flows(flows'[r], Clients)) = Cardinality(Flows(flows[r], Clients)) + 1
    BY <1>5, Zenon DEF Gains
  <2>2. Cardinality(Flows(flows[r], Clients)) \in Nat
    BY FlowsFinite
  <2> QED
    BY <1>6, <2>1, <2>2, LimitsAreNumbers
<1>9. ASSUME NEW s \in Sources
      PROVE  /\ bySource'[s] = Cardinality(AllFlows(flows', From(s))) /\ bySource'[s] <= limits.global
             /\ perSource'[r][s] = Cardinality(Flows(flows'[r], From(s)))
             /\ perSource'[r][s] <= limits.perSource
  <2>1. /\ bySource[s] = Cardinality(AllFlows(flows, From(s))) /\ bySource[s] <= limits.global
        /\ perSource[r][s] = Cardinality(Flows(flows[r], From(s)))
        /\ perSource[r][s] <= limits.perSource
    BY Zenon DEF Tally
  <2>2. c \in From(s) <=> s = SourceIP[c]
    BY Zenon DEF From
  <2>3. /\ Cardinality(AllFlows(flows', From(s)))
             = Cardinality(AllFlows(flows, From(s))) + (IF c \in From(s) THEN 1 ELSE 0)
        /\ Cardinality(Flows(flows'[r], From(s)))
             = Cardinality(Flows(flows[r], From(s))) + (IF c \in From(s) THEN 1 ELSE 0)
    BY <1>5, FromClients, Zenon DEF Gains
  <2>4. /\ bySource'[s] = bySource[s] + (IF s = SourceIP[c] THEN 1 ELSE 0)
        /\ perSource'[r][s] = perSource[r][s] + (IF s = SourceIP[c] THEN 1 ELSE 0)
    BY <1>1, <1>2
  <2>5. bySource[s] \in Int /\ perSource[r][s] \in Int
    BY <1>1, Zenon
  <2>6. CASE s = SourceIP[c]
    BY <1>6, <2>1, <2>2, <2>3, <2>4, <2>5, <2>6, LimitsAreNumbers, SMTT(20)
  <2>7. CASE s # SourceIP[c]
    BY <2>1, <2>2, <2>3, <2>4, <2>5, <2>7
  <2> QED
    BY <2>6, <2>7, Zenon
<1> QED
  BY <1>3, <1>7, <1>8, <1>9, TallyMoves, Zenon

\* The flows that are released are as many fewer for their relay, their sources and the budget.
LEMMA ReleasedTally ==
  ASSUME UdpTypeOK, UdpTypeOK', Tally, NEW r \in Relays, NEW gone \in SUBSET Live(r),
         limits' = limits, Release(r, gone)
  PROVE  Tally'
<1>1. /\ flows \in FlowTables /\ flows' \in FlowTables
      /\ perSource \in [Relays -> [Sources -> Int]] /\ bySource \in [Sources -> Int] /\ total \in Int
  BY Zenon DEF UdpTypeOK, FlowTables
<1>2. \A q \in Relays : q # r => flows'[q] = flows[q] /\ perSource'[q] = perSource[q]
  BY <1>1, Zenon DEF FlowTables, Release
<1>3. \A c \in Clients : flows'[r][c] = IF c \in gone THEN 0 ELSE flows[r][c]
  BY <1>1, Zenon DEF FlowTables, Release
<1>4. gone \in SUBSET Flows(flows[r], Clients) /\ gone = gone \cap Clients
  BY Zenon DEF Flows, Live
<1>5. \A C \in SUBSET Clients : Loses(flows, flows', r, C, Cardinality(gone \cap C))
  <2>1. \A q \in Relays : q # r => flows'[q] = flows[q]
    BY <1>2, Zenon
  <2>2. Releases(flows, flows', r, gone)
    BY <1>1, <1>3, <1>4, <2>1, Zenon DEF Releases
  <2> QED
    BY <2>2, ReleasedFlows, Zenon
<1>6. total' = Cardinality(AllFlows(flows', Clients)) /\ total' <= limits.total
  <2>1. total = Cardinality(AllFlows(flows, Clients)) /\ total <= limits.total
    BY Zenon DEF Tally
  <2>2. Cardinality(gone \cap Clients) \in Nat /\ Cardinality(AllFlows(flows', Clients))
          = Cardinality(AllFlows(flows, Clients)) - Cardinality(gone \cap Clients)
    BY <1>5, Zenon DEF Loses
  <2>3. total' = total - Cardinality(gone \cap Clients)
    BY <1>4, Zenon DEF Release
  <2> QED
    BY <1>1, <2>1, <2>2, <2>3, LimitsAreNumbers
<1>7. Cardinality(Flows(flows'[r], Clients)) <= limits.flows
  <2>1. Cardinality(gone \cap Clients) \in Nat /\ Cardinality(Flows(flows'[r], Clients))
          = Cardinality(Flows(flows[r], Clients)) - Cardinality(gone \cap Clients)
    BY <1>5, Zenon DEF Loses
  <2>2. Cardinality(Flows(flows[r], Clients)) \in Nat /\ Cardinality(Flows(flows[r], Clients)) <= limits.flows
    BY FlowsFinite, Zenon DEF Tally
  <2> QED
    BY <2>1, <2>2, LimitsAreNumbers
<1>8. ASSUME NEW s \in Sources
      PROVE  /\ bySource'[s] = Cardinality(AllFlows(flows', From(s))) /\ bySource'[s] <= limits.global
             /\ perSource'[r][s] = Cardinality(Flows(flows'[r], From(s)))
             /\ perSource'[r][s] <= limits.perSource
  <2>1. /\ bySource[s] = Cardinality(AllFlows(flows, From(s))) /\ bySource[s] <= limits.global
        /\ perSource[r][s] = Cardinality(Flows(flows[r], From(s)))
        /\ perSource[r][s] <= limits.perSource
    BY Zenon DEF Tally
  <2>2. {c \in gone : SourceIP[c] = s} = gone \cap From(s)
    BY <1>4, Zenon DEF From
  <2>3. /\ Cardinality(gone \cap From(s)) \in Nat
        /\ Cardinality(AllFlows(flows', From(s)))
             = Cardinality(AllFlows(flows, From(s))) - Cardinality(gone \cap From(s))
        /\ Cardinality(Flows(flows'[r], From(s)))
             = Cardinality(Flows(flows[r], From(s))) - Cardinality(gone \cap From(s))
    BY <1>5, FromClients, Zenon DEF Loses
  <2>4. /\ bySource'[s] = bySource[s] - Cardinality({c \in gone : SourceIP[c] = s})
        /\ perSource'[r][s] = perSource[r][s] - Cardinality({c \in gone : SourceIP[c] = s})
    BY <1>1, Zenon DEF Release
  <2>5. bySource[s] \in Int /\ perSource[r][s] \in Int
    BY <1>1, Zenon
  <2>6. bySource'[s] = Cardinality(AllFlows(flows', From(s)))
        /\ perSource'[r][s] = Cardinality(Flows(flows'[r], From(s)))
    BY <2>1, <2>2, <2>3, <2>4, Zenon
  <2>7. bySource'[s] <= limits.global /\ perSource'[r][s] <= limits.perSource
    <3> DEFINE n == Cardinality(gone \cap From(s))
    <3>1. n \in Nat /\ bySource'[s] = bySource[s] - n /\ perSource'[r][s] = perSource[r][s] - n
      BY <2>2, <2>3, <2>4, Zenon
    <3> HIDE DEF n
    <3> QED
      BY <2>1, <2>5, <3>1, LimitsAreNumbers
  <2> QED
    BY <2>6, <2>7, Zenon
<1> QED
  BY <1>2, <1>6, <1>7, <1>8, TallyMoves, Zenon

\* The second lock: a flow that is refused closes its socket, one that is admitted is counted.
LEMMA AdmitStep ==
  ASSUME UdpInv, NEW r \in Relays, Admit(r)
  PROVE  UdpInv'
<1>1. UdpTypeOK /\ NewFlow /\ ClosedEmpty /\ (\A x \in sockets : SocketHeld(x)) /\ Tally
      /\ \A q \in Relays : closing[q].pc = "closed" => CloseDone(q)
  BY CountedIsTally, Zenon DEF UdpInv, UdpSafe
<1>2. disp[r].pc = "admit" /\ disp[r].client \in Clients /\ flows[r][disp[r].client] = 0
  BY <1>1, Zenon DEF Admit, NewFlow
<1>3. PICK c \in Clients : c = disp[r].client /\ flows[r][c] = 0
  BY <1>2, Zenon
<1>4. CASE Closed(r) \/ PerVIPFull(r, c) \/ AtCap(c)
  <2>1. /\ sockets' = sockets \ {<<r, disp[r].client>>} /\ disp' = [disp EXCEPT ![r] = Ready]
        /\ UNCHANGED <<limits, relayVars, budgetVars, sweeper, readers, closing, udpNow>>
    BY <1>3, <1>4, Zenon DEF Admit, Dropped
  <2>2. Ready \in Dispatchers /\ Ready.pc = "read"
    BY <1>1, DispatcherRecords, Zenon
  <2> QED
    BY <1>2, <2>1, <2>2, DispatcherLetsGo, Zenon
<1>5. CASE ~(Closed(r) \/ PerVIPFull(r, c) \/ AtCap(c))
  <2>1. /\ flows' = [flows EXCEPT ![r][c] = udpNow]
        /\ perSource' = [perSource EXCEPT ![r][SourceIP[c]] = @ + 1]
        /\ total' = total + 1 /\ bySource' = [bySource EXCEPT ![SourceIP[c]] = @ + 1]
        /\ readers' = [readers EXCEPT ![r][c] = @ + 1]
        /\ disp' = [disp EXCEPT ![r].pc = "write"]
        /\ sockets' = sockets /\ limits' = limits /\ sweeper' = sweeper /\ closing' = closing
        /\ udpNow' = udpNow
    BY <1>3, <1>5, Zenon DEF Admit, At
  <2>2. /\ flows \in [Relays -> [Clients -> Nat]] /\ udpNow \in Nat \ {0} /\ total \in Int
        /\ perSource \in [Relays -> [Sources -> Int]] /\ bySource \in [Sources -> Int]
        /\ readers \in [Relays -> [Clients -> Nat]] /\ sockets \subseteq Relays \X Clients
        /\ SourceIP[c] \in Sources
    BY <1>1, Zenon DEF UdpTypeOK, Sources
  <2>3. PICK d \in Dispatchers : d.pc = "write" /\ disp' = [disp EXCEPT ![r] = d]
    BY <1>1, <2>1, DispatcherRecords, Zenon
  <2>4. /\ disp' \in [Relays -> Dispatchers] /\ disp'[r] = d
        /\ \A q \in Relays : q # r => disp'[q] = disp[q]
    BY <1>1, <2>3, DispatcherRecords, Zenon
  <2>5. /\ flows' \in [Relays -> [Clients -> Nat]] /\ flows'[r][c] # 0
        /\ \A e \in Clients : e # c => flows'[r][e] = flows[r][e]
        /\ \A q \in Relays : q # r => flows'[q] = flows[q]
    BY <2>1, <2>2, Zenon
  <2>6. readers' \in [Relays -> [Clients -> Nat]] /\ \A q \in Relays : q # r => readers'[q] = readers[q]
    BY <2>1, <2>2
  <2>7. perSource' \in [Relays -> [Sources -> Int]] /\ bySource' \in [Sources -> Int] /\ total' \in Int
    BY <2>1, <2>2
  <2>8. UdpTypeOK'
    BY <1>1, <2>1, <2>4, <2>5, <2>6, <2>7, Zenon DEF UdpTypeOK
  <2>9. Tally'
    BY <1>1, <1>3, <1>5, <2>1, <2>8, AdmittedTally, Zenon
  <2>10. NewFlow'
    BY <1>1, <2>3, <2>4, <2>5 DEF NewFlow
  <2>11. ClosedEmpty'
    BY <1>1, <1>5, <2>1, <2>5, ZenonT(40) DEF ClosedEmpty, Closed
  <2>12. \A x \in sockets' : SocketHeld(x)'
    <3> SUFFICES ASSUME NEW x \in sockets' PROVE SocketHeld(x)'
      BY Zenon
    <3>1. x[1] \in Relays /\ x[2] \in Clients /\ SocketHeld(x)
      BY <1>1, <2>1, <2>2, Zenon
    <3>2. CASE x[1] # r
      BY <2>1, <2>4, <2>5, <3>1, <3>2, Zenon DEF SocketHeld
    <3>3. CASE x[1] = r /\ x[2] = c
      BY <2>5, <3>3, Zenon DEF SocketHeld
    <3>4. CASE x[1] = r /\ x[2] # c
      BY <1>3, <2>1, <2>5, <3>1, <3>4, ZenonT(40) DEF SocketHeld
    <3> QED
      BY <3>2, <3>3, <3>4, Zenon
  <2>13. \A q \in Relays : closing'[q].pc = "closed" => CloseDone(q)'
    <3> SUFFICES ASSUME NEW q \in Relays, closing'[q].pc = "closed" PROVE CloseDone(q)'
      BY Zenon
    <3>1. CloseDone(q)
      BY <1>1, <2>1, Zenon
    <3>2. q # r
      BY <1>2, <3>1, Zenon DEF CloseDone
    <3> QED
      BY <2>1, <2>4, <2>5, <2>6, <3>1, <3>2, ZenonT(40) DEF CloseDone
  <2>14. FlowsCounted'
    BY <2>9, CountedIsTally, PTL
  <2>15. UdpSafe'
    BY <2>10, <2>11, <2>12, <2>13, Zenon DEF UdpSafe
  <2> QED
    BY <2>8, <2>14, <2>15, Zenon DEF UdpInv
<1> QED
  BY <1>4, <1>5, Zenon

\* What both who release flows, the sweeper and Close, do to the tables and the counters.
LEMMA ReleaseShape ==
  ASSUME UdpTypeOK, NEW r \in Relays, NEW gone \in SUBSET Live(r), Release(r, gone)
  PROVE  /\ flows' \in [Relays -> [Clients -> Nat]]
         /\ \A q \in Relays : q # r => flows'[q] = flows[q]
         /\ \A c \in Clients : flows'[r][c] = IF c \in gone THEN 0 ELSE flows[r][c]
         /\ perSource' \in [Relays -> [Sources -> Int]] /\ bySource' \in [Sources -> Int] /\ total' \in Int
<1>1. /\ flows \in [Relays -> [Clients -> Nat]] /\ perSource \in [Relays -> [Sources -> Int]]
      /\ bySource \in [Sources -> Int] /\ total \in Int
  BY Zenon DEF UdpTypeOK
<1>2. \A S \in SUBSET gone : Cardinality(S) \in Nat
  <2>1. gone \in SUBSET Clients
    BY Zenon DEF Live
  <2> QED
    BY <2>1, FlowsFinite, FS_CardinalityType, Zenon
<1>3. /\ flows' \in [Relays -> [Clients -> Nat]]
      /\ \A q \in Relays : q # r => flows'[q] = flows[q]
      /\ \A c \in Clients : flows'[r][c] = IF c \in gone THEN 0 ELSE flows[r][c]
  BY <1>1, Zenon DEF Release
<1>4. \A s \in Sources : Cardinality({c \in gone : SourceIP[c] = s}) \in Nat
  BY <1>2, Zenon
<1>5. total' \in Int
  BY <1>1, <1>2 DEF Release
<1>6. bySource' \in [Sources -> Int]
  BY <1>1, <1>4, SMTT(20) DEF Release
<1>7. perSource' \in [Relays -> [Sources -> Int]]
  <2>1. [s \in Sources |-> perSource[r][s] - Cardinality({c \in gone : SourceIP[c] = s})] \in [Sources -> Int]
    BY <1>1, <1>4
  <2> QED
    BY <1>1, <2>1, Zenon DEF Release
<1> QED
  BY <1>3, <1>5, <1>6, <1>7, Zenon

LEMMA SweepStep ==
  ASSUME UdpInv, NEW r \in Relays, SweepExpired(r)
  PROVE  UdpInv'
<1>1. UdpTypeOK /\ NewFlow /\ ClosedEmpty /\ (\A x \in sockets : SocketHeld(x)) /\ Tally
      /\ \A q \in Relays : closing[q].pc = "closed" => CloseDone(q)
  BY CountedIsTally DEF UdpInv, UdpSafe
<1>2. PICK gone \in SUBSET Live(r) : Release(r, gone) /\ sockets' = sockets \ ({r} \X gone)
  BY Zenon DEF SweepExpired, Shut
<1>3. /\ limits' = limits /\ disp' = disp /\ sweeper' = sweeper /\ readers' = readers
      /\ closing' = closing /\ udpNow' = udpNow /\ sweeper[r]
  BY Zenon DEF SweepExpired, threadVars
<1>4. /\ flows' \in [Relays -> [Clients -> Nat]]
      /\ \A q \in Relays : q # r => flows'[q] = flows[q]
      /\ \A c \in Clients : flows'[r][c] = IF c \in gone THEN 0 ELSE flows[r][c]
      /\ perSource' \in [Relays -> [Sources -> Int]] /\ bySource' \in [Sources -> Int] /\ total' \in Int
  BY <1>1, <1>2, ReleaseShape, Zenon
<1>5. /\ sockets \subseteq Relays \X Clients /\ sockets' \subseteq Relays \X Clients
      /\ \A x \in sockets' : x \in sockets /\ ~(x[1] = r /\ x[2] \in gone)
  <2>1. sockets \subseteq Relays \X Clients
    BY <1>1, Zenon DEF UdpTypeOK
  <2> QED
    BY <1>2, <2>1, Zenon
<1>6. UdpTypeOK'
  BY <1>1, <1>3, <1>4, <1>5, Zenon DEF UdpTypeOK
<1>7. Tally'
  BY <1>1, <1>2, <1>3, <1>6, ReleasedTally, Zenon
<1>8. \A q \in Relays, c \in Clients : flows[q][c] = 0 => flows'[q][c] = 0
  BY <1>4, Zenon
<1>9. NewFlow'
  BY <1>1, <1>3, <1>8, Zenon DEF NewFlow
<1>10. ClosedEmpty'
  BY <1>1, <1>3, <1>8, Zenon DEF ClosedEmpty, Closed
<1>11. \A x \in sockets' : SocketHeld(x)'
  <2> SUFFICES ASSUME NEW x \in sockets' PROVE SocketHeld(x)'
    BY Zenon
  <2>1. x[1] \in Relays /\ x[2] \in Clients /\ SocketHeld(x) /\ ~(x[1] = r /\ x[2] \in gone)
    BY <1>1, <1>5, Zenon
  <2>2. flows'[x[1]][x[2]] = flows[x[1]][x[2]]
    BY <1>4, <2>1
  <2> QED
    BY <1>3, <2>1, <2>2, Zenon DEF SocketHeld
<1>12. \A q \in Relays : closing'[q].pc = "closed" => CloseDone(q)'
  <2> SUFFICES ASSUME NEW q \in Relays, closing'[q].pc = "closed" PROVE CloseDone(q)'
    BY Zenon
  <2>1. CloseDone(q)
    BY <1>1, <1>3, Zenon
  <2>2. q # r
    BY <1>3, <2>1, Zenon DEF CloseDone
  <2> QED
    BY <1>3, <1>4, <1>5, <2>1, <2>2, Zenon DEF CloseDone
<1>13. FlowsCounted'
  BY <1>7, CountedIsTally, PTL
<1>14. UdpSafe'
  BY <1>9, <1>10, <1>11, <1>12, Zenon DEF UdpSafe
<1> QED
  BY <1>6, <1>13, <1>14, Zenon DEF UdpInv

LEMMA DrainStep ==
  ASSUME UdpInv, NEW r \in Relays, CloseDrain(r)
  PROVE  UdpInv'
<1>1. UdpTypeOK /\ NewFlow /\ ClosedEmpty /\ (\A x \in sockets : SocketHeld(x)) /\ Tally
      /\ \A q \in Relays : closing[q].pc = "closed" => CloseDone(q)
  BY CountedIsTally DEF UdpInv, UdpSafe
<1>2. PICK gone \in SUBSET Live(r) : gone = Live(r) /\ Release(r, gone)
  BY Zenon DEF CloseDrain
<1>3. /\ limits' = limits /\ disp' = disp /\ sweeper' = sweeper /\ readers' = readers
      /\ sockets' = sockets /\ udpNow' = udpNow /\ closing[r].pc = "open"
  BY Zenon DEF CloseDrain, Closed, upstreamVars
<1>4. /\ flows' \in [Relays -> [Clients -> Nat]]
      /\ \A q \in Relays : q # r => flows'[q] = flows[q]
      /\ \A c \in Clients : flows'[r][c] = IF c \in gone THEN 0 ELSE flows[r][c]
      /\ perSource' \in [Relays -> [Sources -> Int]] /\ bySource' \in [Sources -> Int] /\ total' \in Int
  BY <1>1, <1>2, ReleaseShape
<1>5. \A c \in Clients : flows'[r][c] = 0 /\ (c \in gone <=> flows[r][c] # 0)
  BY <1>2, <1>4, Zenon DEF Live
<1>6. PICK n \in Closings : closing' = [closing EXCEPT ![r] = n] /\ n.pc = "drained" /\ n.drained = gone
  <2>1. [pc |-> "drained", drained |-> gone] \in Closings
    BY Zenon DEF Closings, Live
  <2>2. closing' = [closing EXCEPT ![r] = [pc |-> "drained", drained |-> gone]]
    BY <1>2, Zenon DEF CloseDrain
  <2> QED
    BY <2>1, <2>2, Zenon
<1>7. closing' \in [Relays -> Closings] /\ closing'[r] = n
      /\ \A q \in Relays : q # r => closing'[q] = closing[q]
  <2>1. closing \in [Relays -> Closings]
    BY <1>1, Zenon DEF UdpTypeOK
  <2> QED
    BY <1>6, <2>1, Zenon
<1>8. UdpTypeOK'
  BY <1>1, <1>3, <1>4, <1>7, Zenon DEF UdpTypeOK
<1>9. Tally'
  BY <1>1, <1>2, <1>3, <1>8, ReleasedTally, Zenon
<1>10. NewFlow'
  <2>1. \A q \in Relays, c \in Clients : flows[q][c] = 0 => flows'[q][c] = 0
    BY <1>4, Zenon
  <2> QED
    BY <1>1, <1>3, <2>1, Zenon DEF NewFlow
<1>11. ClosedEmpty'
  <2> SUFFICES ASSUME NEW q \in Relays, closing'[q].pc # "open", NEW c \in Clients PROVE flows'[q][c] = 0
    BY Zenon DEF ClosedEmpty, Closed
  <2>1. CASE q = r
    BY <1>5, <2>1, Zenon
  <2>2. CASE q # r
    <3>1. closing[q].pc # "open" /\ flows'[q] = flows[q]
      BY <1>4, <1>7, <2>2, Zenon
    <3>2. flows[q][c] = 0
      BY <1>1, <3>1, Zenon DEF ClosedEmpty, Closed
    <3> QED
      BY <3>1, <3>2, Zenon
  <2> QED
    BY <2>1, <2>2, Zenon
<1>12. \A x \in sockets' : SocketHeld(x)'
  <2> SUFFICES ASSUME NEW x \in sockets' PROVE SocketHeld(x)'
    BY Zenon
  <2>1. x[1] \in Relays /\ x[2] \in Clients /\ SocketHeld(x)
    BY <1>1, <1>3, Zenon DEF UdpTypeOK
  <2>2. CASE x[1] # r
    BY <1>3, <1>4, <1>7, <2>1, <2>2, Zenon DEF SocketHeld
  <2>3. CASE x[1] = r
    BY <1>3, <1>5, <1>6, <1>7, <2>1, <2>3, Zenon DEF SocketHeld, WillClose
  <2> QED
    BY <2>2, <2>3, Zenon
<1>13. \A q \in Relays : closing'[q].pc = "closed" => CloseDone(q)'
  <2> SUFFICES ASSUME NEW q \in Relays, closing'[q].pc = "closed" PROVE CloseDone(q)'
    BY Zenon
  <2>1. q # r /\ closing[q].pc = "closed"
    BY <1>6, <1>7, Zenon
  <2> QED
    BY <1>1, <1>3, <1>4, <2>1, ZenonT(40) DEF CloseDone
<1>14. FlowsCounted'
  BY <1>9, CountedIsTally, PTL
<1>15. UdpSafe'
  BY <1>10, <1>11, <1>12, <1>13, Zenon DEF UdpSafe
<1> QED
  BY <1>8, <1>14, <1>15, Zenon DEF UdpInv

LEMMA UdpPreserved == UdpInv /\ [UdpNext]_udpVars => UdpInv'
<1> SUFFICES ASSUME UdpInv, [UdpNext]_udpVars PROVE UdpInv'
  BY Zenon
<1>1. ASSUME NEW r \in Relays, NEW c \in Clients, Lookup(r, c) \/ Reply(r, c) \/ ReaderReturns(r, c)
      PROVE  UdpInv'
  BY <1>1, LookupStep, ReplyStep, ReaderStep, Zenon
<1>2. ASSUME NEW r \in Relays, Dispatch(r) PROVE UdpInv'
  BY <1>2, PeekStep, DialStep, AdmitStep, ForwardStep, Zenon DEF Dispatch
<1>3. ASSUME NEW r \in Relays, SweepExpired(r) \/ SweepReturns(r) \/ CloseDrain(r) \/ CloseGoesOn(r)
      PROVE  UdpInv'
  BY <1>3, SweepStep, SweepReturnsStep, DrainStep, CloseStep, Zenon
<1>4. CASE UNCHANGED udpVars
  <2>1. /\ limits' = limits /\ perSource' = perSource /\ UNCHANGED budgetVars /\ total' = total
        /\ bySource' = bySource /\ sockets' = sockets /\ disp' = disp /\ readers' = readers
        /\ flows' = flows /\ closing' = closing /\ sweeper' = sweeper /\ udpNow' = udpNow
    BY <1>4, Zenon DEF udpVars, budgetVars, relayVars, upstreamVars, threadVars
  <2>2. UdpTypeOK'
    BY <2>1, Zenon DEF UdpInv, UdpTypeOK
  <2>3. UdpSafe'
    BY <2>1, Zenon DEF UdpInv, UdpSafe, NewFlow, ClosedEmpty, Closed, SocketHeld, CloseDone
  <2> QED
    BY <2>1, <2>2, <2>3, QuietStep, Zenon
<1> QED
  BY <1>1, <1>2, <1>3, <1>4, UdpTickStep, Zenon DEF UdpNext

LEMMA UdpInvariant == UdpSpec => []UdpInv
BY UdpInitial, UdpPreserved, PTL DEF UdpSpec

(* However the admissions of the dispatchers, the sweeps and the closes of any *)
(* number of UDP relays interleave, each per-relay, per-source and global count *)
(* of udprelay.go is the number of flows in the tables, and within its cap.     *)
THEOREM CountsAreFlows == UdpSpec => []FlowsCounted
<1>1. UdpInv => FlowsCounted
  BY Zenon DEF UdpInv
<1> QED
  BY <1>1, UdpInvariant, PTL

(* No upstream socket of a UDP relay is left without a flow, a dispatcher or a *)
(* Close that will close it, and a Close that has returned left nothing open.   *)
THEOREM NoSocketLeaks == UdpSpec => []SocketsOwned
<1>1. UdpInv => SocketsOwned
  BY Zenon DEF UdpInv, UdpSafe, SocketHeld, WillClose, CloseDone, SocketsOwned
<1> QED
  BY <1>1, UdpInvariant, PTL

=============================================================================
