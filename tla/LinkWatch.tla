----------------------------- MODULE LinkWatch -----------------------------
(***************************************************************************)
(* The link watch (pkg/linkwatch): the poll of interface flags and         *)
(* carriers, the reader of the kernel's routing socket, their merge and    *)
(* the debounce, for one interface.                                        *)
(*                                                                         *)
(* The goroutines hand events on through channels of EventBuffer slots. A  *)
(* routing message holds the flags of the moment the kernel sent it; the   *)
(* reader looks the interface up when it reads the message. A pulled cable *)
(* clears the carrier, leaves the flags and sends no message of its own.   *)
(***************************************************************************)
EXTENDS Naturals, Sequences

CONSTANTS
  EventBuffer,      \* the capacity of each channel
  NoState,          \* "none yet": no poll, no delivery, nothing pending
  MaxLinkChanges,   \* bounds the changes of the interface and its addresses
  MaxLinkFaults     \* bounds failed lists and carrier reads, and the reader's end

States == {"up", "down", "gone"}

ASSUME LinkAssumption == NoState \notin States

VARIABLES
  flags,      \* the interface: "up" is IFF_UP and IFF_RUNNING, "gone" not in the list
  carrier,    \* its carrier
  reported,   \* whether the driver reports one
  socket,     \* the kernel's messages not yet read
  reader,     \* the RouteReader: "open", "ended", or "none" when it could not be opened
  named,      \* RouteReader.names has the interface
  last,       \* the Poller's last
  sending,    \* the state its pass found, while it sends the event
  pollOut, routeOut, merged,  \* the channels
  pending,    \* Debounce's pending event
  timer,      \* whether its timer is armed
  delivered,  \* what it delivered last
  linkChanges, linkFaults

ifaceVars == <<flags, carrier, reported, linkChanges>>
readerVars == <<socket, reader, named, routeOut>>
pollVars == <<last, sending, pollOut>>
debounceVars == <<pending, timer, delivered>>
linkVars == <<ifaceVars, readerVars, pollVars, merged, debounceVars, linkFaults>>

LinkInit ==
  /\ flags \in States /\ carrier \in BOOLEAN /\ reported \in BOOLEAN
  /\ socket = <<>> /\ reader \in {"open", "none"} /\ named = FALSE
  /\ last = NoState /\ sending = NoState
  /\ pollOut = <<>> /\ routeOut = <<>> /\ merged = <<>>
  /\ pending = NoState /\ timer = FALSE /\ delivered = NoState
  /\ linkChanges = 0 /\ linkFaults = 0

LinkFault == linkFaults < MaxLinkFaults /\ linkFaults' = linkFaults + 1

-----------------------------------------------------------------------------
(* The interface and the kernel's routing socket. *)

Change == linkChanges < MaxLinkChanges /\ linkChanges' = linkChanges + 1
Broadcast(m) == socket' = IF reader = "open" THEN Append(socket, m) ELSE socket
Elsewhere == UNCHANGED <<reader, named, routeOut, pollVars, merged, debounceVars, linkFaults>>

SetFlags(f) ==
  /\ Change /\ f # flags /\ flags' = f
  /\ Broadcast(IF f = "up" THEN "ifinfo up" ELSE "ifinfo down")
  /\ UNCHANGED <<carrier, reported>> /\ Elsewhere

Cable(plugged) ==
  /\ Change /\ flags # "gone" /\ plugged # carrier
  /\ carrier' = plugged
  /\ UNCHANGED <<flags, reported, socket>> /\ Elsewhere

\* An address comes or goes.
Address ==
  /\ Change /\ flags # "gone" /\ Broadcast("addr")
  /\ UNCHANGED <<flags, carrier, reported>> /\ Elsewhere

-----------------------------------------------------------------------------
(* The Poller. *)

\* linkUp and the carrier: a carrier that cannot be read leaves the decision to the flags.
PollState(readable) ==
  IF flags = "up" /\ readable /\ reported /\ ~carrier THEN "down" ELSE flags

\* diff: every interface on the first pass, then a change or a vanishing.
Diff(next) == IF last = NoState THEN next # "gone" ELSE next # last

\* One pass: the list, and the event it has to send.
PollPass(readable) ==
  /\ sending = NoState
  /\ LET next == PollState(readable) IN
       IF Diff(next) THEN sending' = next /\ UNCHANGED last
       ELSE last' = next /\ UNCHANGED sending

Poll ==
  /\ \/ PollPass(TRUE) /\ UNCHANGED linkFaults
     \/ PollPass(FALSE) /\ LinkFault
     \/ sending = NoState /\ LinkFault /\ UNCHANGED <<last, sending>>
  /\ UNCHANGED <<ifaceVars, readerVars, pollOut, merged, debounceVars>>

\* The event is sent when the channel has room; only then is the pass the last one.
PollSend ==
  /\ sending # NoState /\ Len(pollOut) < EventBuffer
  /\ pollOut' = Append(pollOut, sending)
  /\ last' = sending /\ sending' = NoState
  /\ UNCHANGED <<ifaceVars, readerVars, merged, debounceVars, linkFaults>>

-----------------------------------------------------------------------------
(* The RouteReader. *)

\* event: an interface that is gone is named from the cache, once.
RouteEvents(m) ==
  IF flags = "gone" THEN (IF named THEN <<"gone">> ELSE <<>>)
  ELSE CASE m = "ifinfo up" -> <<"up">>
         [] m = "ifinfo down" -> <<"down">>
         [] m = "addr" -> <<flags>>

ReadRoute ==
  /\ reader = "open" /\ socket # <<>> /\ Len(routeOut) < EventBuffer
  /\ socket' = Tail(socket)
  /\ routeOut' = routeOut \o RouteEvents(Head(socket))
  /\ named' = (flags # "gone")
  /\ UNCHANGED <<ifaceVars, reader, pollVars, merged, debounceVars, linkFaults>>

\* A read failure ends the source.
ReaderEnds ==
  /\ reader = "open" /\ LinkFault
  /\ reader' = "ended" /\ socket' = <<>>
  /\ UNCHANGED <<ifaceVars, named, routeOut, pollVars, merged, debounceVars>>

-----------------------------------------------------------------------------
(* Merge and Debounce. *)

MergePoll ==
  /\ pollOut # <<>> /\ Len(merged) < EventBuffer
  /\ merged' = Append(merged, Head(pollOut)) /\ pollOut' = Tail(pollOut)
  /\ UNCHANGED <<ifaceVars, readerVars, last, sending, debounceVars, linkFaults>>

MergeRoute ==
  /\ routeOut # <<>> /\ Len(merged) < EventBuffer
  /\ merged' = Append(merged, Head(routeOut)) /\ routeOut' = Tail(routeOut)
  /\ UNCHANGED <<ifaceVars, socket, reader, named, pollVars, debounceVars, linkFaults>>

\* Mutant of DebounceEvent: an event like the last delivered one is dropped at once.
DebounceEventDrops ==
  /\ merged # <<>> /\ merged' = Tail(merged)
  /\ IF Head(merged) = delivered THEN UNCHANGED <<pending, timer>>
     ELSE pending' = Head(merged) /\ timer' = TRUE
  /\ UNCHANGED <<ifaceVars, readerVars, pollVars, delivered, linkFaults>>

\* Every event replaces the pending one and restarts the wait.
DebounceEvent ==
  /\ merged # <<>> /\ merged' = Tail(merged)
  /\ pending' = Head(merged) /\ timer' = TRUE
  /\ UNCHANGED <<ifaceVars, readerVars, pollVars, delivered, linkFaults>>

\* The quiet period is over: what differs from the last delivery is delivered.
DebounceDelivers ==
  /\ timer /\ timer' = FALSE
  /\ pending' = NoState /\ delivered' = pending
  /\ UNCHANGED <<ifaceVars, readerVars, pollVars, merged, linkFaults>>

LinkNext ==
  \/ \E f \in States : SetFlags(f)
  \/ \E plugged \in BOOLEAN : Cable(plugged)
  \/ Address \/ Poll \/ PollSend \/ ReadRoute \/ ReaderEnds \/ MergePoll \/ MergeRoute
  \/ DebounceEvent \/ DebounceDelivers

-----------------------------------------------------------------------------
(* What Event says of the interface: up is up, running and, where it is reported, with a
   carrier. *)
LinkState == IF flags = "up" /\ reported /\ ~carrier THEN "down" ELSE flags

\* Nothing is on its way, and the last poll saw the interface as it is.
Quiet ==
  /\ last = LinkState /\ sending = NoState /\ ~timer
  /\ socket = <<>> /\ pollOut = <<>> /\ routeOut = <<>> /\ merged = <<>>

(* Once a burst is over the consumer's last event is the interface's state, whatever the
   order in which the two sources' events were merged and however the cable and the flags
   changed meanwhile, with two exceptions: an interface that is up without its carrier may be
   left reported up where the routing socket is read, and where a reader ended, the state only
   it had seen is never taken back. (An interface that never was there is never reported.) *)
LinkSettles ==
  Quiet /\ reader # "ended" =>
    \/ delivered = LinkState
    \/ delivered = "up" /\ flags = "up" /\ reader = "open"
    \/ delivered = NoState /\ flags = "gone"

=============================================================================
