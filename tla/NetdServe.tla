----------------------------- MODULE NetdServe ------------------------------
(***************************************************************************)
(* netd's accept loop, its connections and the socket watchdog             *)
(* (pkg/netd/server.go, watchdog.go), with one Client.BindPort call        *)
(* (wire/client.go): the socket the daemon binds is passed to the client,  *)
(* the kernel may flush it in flight, and the client then asks again for   *)
(* the same port. Any other peer holds its connection and sends frames.    *)
(***************************************************************************)
EXTENDS Naturals, FiniteSets

CONSTANTS
  Conns,        \* the connections there may be, the caller's among them
  MaxAttempts,  \* flushedSocketAttempts
  MaxFrames     \* bound: requests a plain peer sends on a connection

ASSUME ServeAssumption == MaxAttempts \in Nat \ {0} /\ MaxFrames \in Nat

VARIABLES
  ctx,       \* Serve's context is cancelled
  path,      \* what the socket path names: our socket, or something else (or nothing)
  listener,  \* l is open
  watchdog,  \* the watchdog goroutine: polling, lost (verdict reached), sent, over
  lost,      \* the channel lost holds the verdict
  serve,     \* Serve: accepting, draining, or what it returned
  peer,      \* each connection at its peer: none, live or closed
  conns,    \* each connection at the daemon
  refs,      \* the descriptors that keep a socket on the port: <<connection, holder>>
  flushed,   \* the connections whose passed socket the kernel flushed
  caller,    \* Client.BindPort
  busy       \* history: a bind of the call found its port taken

serveVars == <<ctx, path, listener, watchdog, lost, serve, peer, conns, refs, flushed, caller, busy>>
loopVars == <<ctx, path, listener, watchdog, lost, serve>>
portVars == <<refs, flushed, busy>>

Returned == {"errLost", "errCtx", "errAccept"}
NoConn == [pc |-> "none", fd |-> FALSE, frames |-> 0]

-----------------------------------------------------------------------------
(* Serve. *)

ConnAt(c, pc) == conns[c].pc = pc
ConnGoto(c, pc) == conns' = [conns EXCEPT ![c].pc = pc]
CallersOwn(c) == c \in caller.conn

Accept(c) ==
  /\ serve = "accepting" /\ listener /\ ConnAt(c, "queued")
  /\ conns' = [conns EXCEPT ![c].pc = "verify", ![c].fd = TRUE]
  /\ UNCHANGED <<loopVars, peer, portVars, caller>>

\* Accept fails on a closed listener, or for want of descriptors. What is queued is never
\* accepted.
AcceptFails ==
  /\ serve = "accepting"
  /\ serve' = "draining"
  /\ conns' = [c \in Conns |-> IF ConnAt(c, "queued") THEN [conns[c] EXCEPT !.pc = "gone"] ELSE conns[c]]
  /\ UNCHANGED <<ctx, path, listener, watchdog, lost, peer, portVars, caller>>

\* wg.Wait, then the watchdog's verdict before the context's error.
Drained ==
  /\ serve = "draining" /\ \A c \in Conns : conns[c].pc \in {"none", "gone"}
  /\ serve' = IF lost THEN "errLost" ELSE IF ctx THEN "errCtx" ELSE "errAccept"
  /\ lost' = FALSE
  /\ UNCHANGED <<ctx, path, listener, watchdog, peer, conns, portVars, caller>>

\* The goroutine that closes the listener when the context ends.
CloseOnCancel ==
  /\ ctx /\ listener /\ serve = "accepting"
  /\ listener' = FALSE
  /\ UNCHANGED <<ctx, path, watchdog, lost, serve, peer, conns, portVars, caller>>

-----------------------------------------------------------------------------
(* startSocketWatchdog. *)

\* A tick: a path that is gone or names another object is the verdict, a stat that fails
\* otherwise is not. It ends with the context or with Serve.
CheckSocketPath ==
  /\ watchdog = "polling"
  /\ watchdog' = IF ctx \/ serve \in Returned THEN "over" ELSE "lost"
  /\ watchdog' = "lost" => path # "ours"
  /\ UNCHANGED <<ctx, path, listener, lost, serve, peer, conns, portVars, caller>>

\* The verdict is sent, then the listener closed, which ends the pending Accept.
ReportLost ==
  \/ /\ watchdog = "lost" /\ watchdog' = "sent" /\ lost' = TRUE
     /\ UNCHANGED <<ctx, path, listener, serve, peer, conns, portVars, caller>>
  \/ /\ watchdog = "sent" /\ watchdog' = "over" /\ listener' = FALSE
     /\ UNCHANGED <<ctx, path, lost, serve, peer, conns, portVars, caller>>

-----------------------------------------------------------------------------
(* handleConn. *)

\* The handler returns, closing its connection.
End(c) == conns' = [conns EXCEPT ![c].pc = "gone", ![c].fd = FALSE]

\* The watcher closes the connection when the context ends, which fails a blocked read.
CloseOnStop(c) ==
  /\ ctx /\ conns[c].fd
  /\ conns' = [conns EXCEPT ![c].fd = FALSE]
  /\ UNCHANGED <<loopVars, peer, portVars, caller>>

VerifyPeer(c) ==
  /\ ConnAt(c, "verify")
  /\ ConnGoto(c, "read") \/ End(c)
  /\ UNCHANGED <<loopVars, peer, portVars, caller>>

\* Mutant of ReadEnds: the read is not armed with the idle deadline.
ReadEndsUnarmed(c) ==
  /\ ConnAt(c, "read")
  /\ ctx \/ ~conns[c].fd \/ peer[c] = "closed"
  /\ End(c)
  /\ UNCHANGED <<loopVars, peer, portVars, caller>>

\* The context, the peer's end, a closed connection, an unreadable frame or the idle
\* deadline ends the loop.
ReadEnds(c) ==
  /\ ConnAt(c, "read")
  /\ End(c)
  /\ UNCHANGED <<loopVars, peer, portVars, caller>>

ReadRequest(c) ==
  /\ ConnAt(c, "read") /\ conns[c].fd /\ peer[c] = "live" /\ conns[c].frames > 0
  /\ conns' = [conns EXCEPT ![c].pc = "dispatch", ![c].frames = @ - 1]
  /\ UNCHANGED <<loopVars, peer, portVars, caller>>

\* Any verb but BindPort: the response is written, or the connection is gone.
Dispatch(c) ==
  /\ ConnAt(c, "dispatch") /\ ~CallersOwn(c)
  /\ IF conns[c].fd /\ peer[c] = "live" THEN ConnGoto(c, "read") ELSE End(c)
  /\ UNCHANGED <<loopVars, peer, portVars, caller>>

\* Applier.BindPort: the bind succeeds when no descriptor keeps a socket on the port.
BindFree == refs = {}

\* handleBindPort: a refusal, a cap or a failed bind is an error response (after which the
\* caller gives up); a port that a socket still holds cannot be bound.
HandleBindPort(c) ==
  /\ ConnAt(c, "dispatch") /\ CallersOwn(c)
  /\ \/ /\ BindFree /\ refs' = {<<c, "daemon">>} /\ ConnGoto(c, "send")
        /\ UNCHANGED <<caller, busy, peer>>
     \/ /\ busy' = (busy \/ ~BindFree)
        /\ caller' = [caller EXCEPT !.pc = IF @ = "wait" THEN "failed" ELSE @]
        /\ peer' = [peer EXCEPT ![c] = "closed"] /\ ConnGoto(c, "read") /\ UNCHANGED refs
  /\ UNCHANGED <<loopVars, flushed>>

\* writeResponseWithFD: one message carries the response and the descriptor.
WriteResponseWithFD(c) ==
  /\ ConnAt(c, "send")
  /\ refs' = IF conns[c].fd /\ peer[c] = "live" THEN refs \cup {<<c, "flight">>} ELSE refs
  /\ ConnGoto(c, "close")
  /\ UNCHANGED <<loopVars, peer, flushed, caller, busy>>

\* The daemon closes its own copy once it is sent.
CloseFile(c) ==
  /\ ConnAt(c, "close")
  /\ refs' = refs \ {<<c, "daemon">>}
  /\ ConnGoto(c, "read")
  /\ UNCHANGED <<loopVars, peer, flushed, caller, busy>>

-----------------------------------------------------------------------------
(* The kernel, the peers and the caller. *)

\* The unix-socket collector may flush a socket that only a message in flight refers to.
Flush(c) ==
  /\ <<c, "flight">> \in refs /\ <<c, "daemon">> \notin refs /\ c \notin flushed
  /\ flushed' = flushed \cup {c}
  /\ UNCHANGED <<loopVars, peer, conns, refs, caller, busy>>

\* A peer dials the path, which reaches us while it is ours.
Dial(c) ==
  /\ path = "ours" /\ listener /\ serve = "accepting" /\ peer[c] = "none"
  /\ peer' = [peer EXCEPT ![c] = "live"]
  /\ \E mine \in {x \in BOOLEAN : x => caller.pc = "dial"} :
       /\ caller' = IF mine THEN [caller EXCEPT !.pc = "wait", !.conn = {c}] ELSE caller
       /\ conns' = [conns EXCEPT ![c] = [pc |-> "queued", fd |-> FALSE,
                                           frames |-> IF mine THEN 1 ELSE MaxFrames]]
  /\ UNCHANGED <<loopVars, portVars>>

PeerLeaves(c) ==
  /\ peer[c] = "live" /\ ~CallersOwn(c)
  /\ peer' = [peer EXCEPT ![c] = "closed"]
  /\ UNCHANGED <<loopVars, conns, portVars, caller>>

\* The call begins, or cannot dial.
BindPort ==
  /\ \/ caller.pc = "idle" /\ caller' = [caller EXCEPT !.pc = "dial", !.attempt = 1]
     \/ caller.pc = "dial" /\ (path # "ours" \/ ~listener \/ serve # "accepting") /\ caller' = [caller EXCEPT !.pc = "failed"]
  /\ UNCHANGED <<loopVars, peer, conns, portVars>>

\* roundTripFD has its response, and has closed the connection.
Receive(c) ==
  /\ caller.pc = "wait" /\ CallersOwn(c) /\ <<c, "flight">> \in refs
  /\ refs' = (refs \ {<<c, "flight">>}) \cup {<<c, "client">>}
  /\ peer' = [peer EXCEPT ![c] = "closed"]
  /\ caller' = [caller EXCEPT !.pc = "inspect"]
  /\ UNCHANGED <<loopVars, conns, flushed, busy>>

\* The connection is gone without a response, or the call's deadline has passed; what is
\* in flight is discarded with the connection.
GiveUp(c) ==
  /\ caller.pc = "wait" /\ CallersOwn(c)
  /\ refs' = refs \ {<<c, "flight">>}
  /\ peer' = [peer EXCEPT ![c] = "closed"]
  /\ caller' = [caller EXCEPT !.pc = "failed"]
  /\ UNCHANGED <<loopVars, conns, flushed, busy>>

\* Mutant of InspectSocket: a flushed socket is kept open while the port is asked for again.
InspectSocketKeeps(c) ==
  /\ caller.pc = "inspect" /\ CallersOwn(c)
  /\ IF c \notin flushed THEN caller' = [caller EXCEPT !.pc = "held"] /\ UNCHANGED refs
     ELSE /\ UNCHANGED refs
          /\ caller' = IF caller.attempt = MaxAttempts THEN [caller EXCEPT !.pc = "failed"]
                       ELSE [caller EXCEPT !.pc = "dial", !.attempt = @ + 1, !.conn = {}]
  /\ UNCHANGED <<loopVars, peer, conns, flushed, busy>>

\* roundTripSocket: a flushed socket is closed and the request made again, up to a bound.
InspectSocket(c) ==
  /\ caller.pc = "inspect" /\ CallersOwn(c)
  /\ IF c \notin flushed THEN caller' = [caller EXCEPT !.pc = "held"] /\ UNCHANGED refs
     ELSE /\ refs' = refs \ {<<c, "client">>}
          /\ caller' = IF caller.attempt = MaxAttempts THEN [caller EXCEPT !.pc = "failed"]
                       ELSE [caller EXCEPT !.pc = "dial", !.attempt = @ + 1, !.conn = {}]
  /\ UNCHANGED <<loopVars, peer, conns, flushed, busy>>

SocketReplaced ==
  /\ path = "ours" /\ path' = "other"
  /\ UNCHANGED <<ctx, listener, watchdog, lost, serve, peer, conns, portVars, caller>>
CancelContext ==
  /\ ~ctx /\ ctx' = TRUE
  /\ UNCHANGED <<path, listener, watchdog, lost, serve, peer, conns, portVars, caller>>

-----------------------------------------------------------------------------

ServeInit ==
  /\ ctx = FALSE /\ path = "ours" /\ listener = TRUE /\ watchdog = "polling" /\ lost = FALSE
  /\ serve = "accepting" /\ peer = [c \in Conns |-> "none"] /\ conns = [c \in Conns |-> NoConn]
  /\ refs = {} /\ flushed = {} /\ busy = FALSE
  /\ caller = [pc |-> "idle", attempt |-> 0, conn |-> {}]

Loop == (~listener /\ AcceptFails) \/ Drained \/ CloseOnCancel
Watchdog == CheckSocketPath \/ ReportLost
Handle(c) ==
  \/ Accept(c) \/ CloseOnStop(c) \/ VerifyPeer(c) \/ ReadEnds(c) \/ Dispatch(c)
  \/ HandleBindPort(c) \/ WriteResponseWithFD(c) \/ CloseFile(c)
Call(c) == Receive(c) \/ GiveUp(c) \/ InspectSocket(c)

ServeNext ==
  \/ Loop \/ AcceptFails \/ Watchdog \/ BindPort \/ SocketReplaced \/ CancelContext
  \/ \E c \in Conns : Handle(c) \/ ReadRequest(c) \/ Flush(c) \/ Dial(c) \/ PeerLeaves(c) \/ Call(c)

-----------------------------------------------------------------------------
(* Properties. *)

\* The port of a call that is made again is free: whatever the schedule, no bind of the
\* call finds the socket of an earlier attempt still open.
RetryPortFree == ~busy

\* A daemon whose context is cancelled, or whose socket is gone, stops serving: peers that
\* hold a connection without a word, or die, cannot hold the drain open.
ServeExits == (ctx \/ path # "ours") ~> serve \in Returned

=============================================================================
