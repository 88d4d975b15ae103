------------------------------ MODULE ControlHub ------------------------------
(***************************************************************************)
(* ControlHub and the socket side of ControlServer: the control WebSockets *)
(* of the applications, the SIP routes each registers, and the requests    *)
(* the gateway sends down a socket (sip.invite, sip.reinvite) and whose    *)
(* answer, late, repeated, from another socket or never, it waits for.     *)
(*                                                                         *)
(* Every handler runs to completion in the event loop and is one action.   *)
(***************************************************************************)
EXTENDS Integers, Sequences, FiniteSets

CONSTANTS
    Conns,        \* connection ids; randomUUID() never hands one out twice
    NoConn,
    Keys,         \* route keys `match:value`
    RouteLists,   \* the lists of keys a route.register may carry
    Dests,        \* destinations of INVITEs
    Matching,     \* the route keys that match each destination
    Requests,     \* ids of gateway-initiated requests
    Sessions,     \* session ids events are about
    MaxEvents     \* bound on the events of a session per connection

ASSUME HubAssumption ==
    /\ NoConn \notin Conns
    /\ RouteLists \subseteq Seq(Keys)
    /\ Matching \in [Dests -> SUBSET Keys]
    /\ MaxEvents \in Nat

VARIABLES
    ws,           \* each socket: "none", "open", "closing" (readyState CLOSING) or "closed"
    connections,  \* ids of the registered connections, oldest first
    routes,       \* the keys of each connection's routes, in order
    sequenceBySession,
    pending,      \* ids of the requests that wait for an answer
    timers,       \* ids of the requests whose timer runs
    addressee,    \* the connection each request went to
    settlements,  \* history: how often each request's promise was resolved or rejected
    outcome,      \* history: how it was settled first
    answeredBy,   \* history: the connection whose response resolved it
    isDraining,
    told          \* history: the connections sent gateway.draining

requestVars == <<pending, timers, addressee, settlements, outcome, answeredBy>>
drainVars   == <<isDraining, told>>
vars == <<ws, connections, routes, requestVars, sequenceBySession, drainVars>>

Registered == {connections[i] : i \in DOMAIN connections}
isConnected(c) == c \in Registered
KeysOf(list) == {list[i] : i \in DOMAIN list}

-----------------------------------------------------------------------------
(* Connections and routes. *)

(* Mutant: upgrades are accepted during the drain. *)
AlwaysAccepts == TRUE

AcceptsUpgrade == ~isDraining

(* The upgrade handler and registerConnection. *)
Upgrade(c) ==
    /\ ws[c] = "none"
    /\ AcceptsUpgrade
    /\ ws' = [ws EXCEPT ![c] = "open"]
    /\ connections' = Append(connections, c)
    /\ UNCHANGED <<routes, requestVars, sequenceBySession, drainVars>>

NoDuplicates(list) == \A i, j \in DOMAIN list : list[i] = list[j] => i = j

(* Mutant: only the connection's own list is checked. *)
OwnRoutesDiffer(c, list) == NoDuplicates(list)

assertRoutesAvailable(c, list) ==
    /\ NoDuplicates(list)
    /\ \A d \in Registered \ {c} : KeysOf(routes[d]) \cap KeysOf(list) = {}

(* route.register: assertAccepting, then setRoutes; a conflict changes nothing. *)
RegisterRoutes(c) ==
    /\ isConnected(c)
    /\ ~isDraining
    /\ \E list \in RouteLists :
        /\ assertRoutesAvailable(c, list)
        /\ routes' = [routes EXCEPT ![c] = list]
    /\ UNCHANGED <<ws, connections, requestVars, sequenceBySession, drainVars>>

(* The oldest connection with a route that matches. *)
findRoute(dest) ==
    LET Matches(c) == KeysOf(routes[c]) \cap Matching[dest] # {}
        found == SelectSeq(connections, Matches)
    IN  IF found = <<>> THEN NoConn ELSE Head(found)

-----------------------------------------------------------------------------
(* Requests. *)

Settled(ids, how) ==
    /\ settlements' = [r \in Requests |-> IF r \in ids THEN settlements[r] + 1
                                                       ELSE settlements[r]]
    /\ outcome' = [r \in Requests |-> IF r \in ids /\ outcome[r] = "none" THEN how
                                                                         ELSE outcome[r]]

(* The request leaves `pending`, its timer is cleared and its promise settled. *)
Settle(ids, how) ==
    /\ pending' = pending \ ids
    /\ timers' = timers \ ids
    /\ Settled(ids, how)

(* Mutant: no timer is set when the socket takes the request. *)
NoTimer(r) == timers

ArmTimer(r) == timers \union {r}

(* request(): the socket takes the message and the promise stays pending. *)
Send(r, c) ==
    /\ ws[c] = "open"
    /\ pending' = pending \union {r}
    /\ timers' = ArmTimer(r)
    /\ UNCHANGED <<settlements, outcome, answeredBy>>

(* request(): the socket is not open, or send throws; rejectPending at once. *)
SendFails(r) ==
    /\ Settled({r}, "failed")
    /\ UNCHANGED <<pending, timers, answeredBy>>

Request(r, c) ==
    /\ addressee[r] = NoConn
    /\ isConnected(c)
    /\ addressee' = [addressee EXCEPT ![r] = c]
    /\ Send(r, c) \/ SendFails(r)
    /\ UNCHANGED <<ws, connections, routes, sequenceBySession, drainVars>>

(* An INVITE is routed and asked about in one turn of the event loop. *)
RequestInvite(r) == \E dest \in Dests : Request(r, findRoute(dest))

(* A re-INVITE is asked about on the connection of the call. *)
RequestReinvite(r) == \E c \in Conns : Request(r, c)

(* Mutant: a failure of the send rejects a request that is already settled. *)
RejectAnyway(r) == {r}

(* rejectPending: `if (!pending) return`. *)
Rejected(r) == {r} \cap pending

(* The callback of ws.send reports an error, at any later time. *)
SendCallbackError(r) ==
    /\ addressee[r] # NoConn
    /\ Settle(Rejected(r), "failed")
    /\ UNCHANGED <<ws, connections, routes, addressee, answeredBy, sequenceBySession, drainVars>>

IsAnswerTo(r, c) == r \in pending /\ addressee[r] = c

(* handleResponse, with ok true or false; an unmatched response is ignored. A *)
(* closing socket still delivers messages.                                    *)
ReceiveResponse(r, c) ==
    /\ isConnected(c)
    /\ IsAnswerTo(r, c)
    /\ \E how \in {"answered", "refused"} : Settle({r}, how)
    /\ answeredBy' = [answeredBy EXCEPT ![r] = c]
    /\ UNCHANGED <<ws, connections, routes, addressee, sequenceBySession, drainVars>>

(* The timer callback: pending.delete and reject, whatever happened before. *)
RequestTimeout(r) ==
    /\ r \in timers
    /\ Settle({r}, "failed")
    /\ UNCHANGED <<ws, connections, routes, addressee, answeredBy, sequenceBySession, drainVars>>

-----------------------------------------------------------------------------
(* The end of a connection. *)

(* The peer's close frame, or closeConnections when the gateway stops. *)
StartClose(c) ==
    /\ ws[c] = "open"
    /\ ws' = [ws EXCEPT ![c] = "closing"]
    /\ UNCHANGED <<connections, routes, requestVars, sequenceBySession, drainVars>>

PendingOn(c) == {r \in pending : addressee[r] = c}

Position(c) == CHOOSE i \in DOMAIN connections : connections[i] = c
Without(c)  == [i \in 1..(Len(connections) - 1) |->
                    connections[IF i < Position(c) THEN i ELSE i + 1]]

(* The socket's `close` event: removeConnection. *)
RemoveConnection(c) ==
    /\ ws[c] \in {"open", "closing"}
    /\ isConnected(c)
    /\ ws' = [ws EXCEPT ![c] = "closed"]
    /\ connections' = Without(c)
    /\ routes' = [routes EXCEPT ![c] = <<>>]
    /\ Settle(PendingOn(c), "failed")
    /\ sequenceBySession' = [sequenceBySession EXCEPT ![c] = [s \in Sessions |-> 0]]
    /\ UNCHANGED <<addressee, answeredBy, drainVars>>

-----------------------------------------------------------------------------
(* Events. *)

(* sendEvent for a session: each connection numbers the events of a session,  *)
(* and the number is used up even if the send throws.                         *)
SendEvent(c, s) ==
    /\ isConnected(c)
    /\ ws[c] = "open"
    /\ sequenceBySession[c][s] < MaxEvents
    /\ sequenceBySession' = [sequenceBySession EXCEPT ![c][s] = @ + 1]
    /\ UNCHANGED <<ws, connections, routes, requestVars, drainVars>>

(* lifecycle.drain emits `draining`, which is broadcast to the open sockets. *)
Drain ==
    /\ ~isDraining
    /\ isDraining' = TRUE
    /\ told' = {c \in Registered : ws[c] = "open"}
    /\ UNCHANGED <<ws, connections, routes, requestVars, sequenceBySession>>

-----------------------------------------------------------------------------
Init ==
    /\ ws = [c \in Conns |-> "none"]
    /\ connections = <<>>
    /\ routes = [c \in Conns |-> <<>>]
    /\ sequenceBySession = [c \in Conns |-> [s \in Sessions |-> 0]]
    /\ pending = {}
    /\ timers = {}
    /\ addressee = [r \in Requests |-> NoConn]
    /\ settlements = [r \in Requests |-> 0]
    /\ outcome = [r \in Requests |-> "none"]
    /\ answeredBy = [r \in Requests |-> NoConn]
    /\ isDraining = FALSE
    /\ told = {}

ConnNext(c) ==
    \/ Upgrade(c)
    \/ RegisterRoutes(c)
    \/ StartClose(c)
    \/ RemoveConnection(c)
    \/ \E r \in Requests : ReceiveResponse(r, c)
    \/ \E s \in Sessions : SendEvent(c, s)

RequestNext(r) ==
    \/ RequestInvite(r)
    \/ RequestReinvite(r)
    \/ SendCallbackError(r)
    \/ RequestTimeout(r)

(* Every socket closed and every request settled: nothing is left to happen. *)
Quiet ==
    /\ isDraining
    /\ \A c \in Conns : ws[c] \in {"none", "closed"}
    /\ UNCHANGED vars

Next ==
    \/ \E c \in Conns : ConnNext(c)
    \/ \E r \in Requests : RequestNext(r)
    \/ Drain
    \/ Quiet

Spec == Init /\ [][Next]_vars

(* Timers fire.  Nothing is assumed of the applications or the network. *)
FairSpec == Spec /\ \A r \in Requests : WF_vars(RequestTimeout(r))

-----------------------------------------------------------------------------
(* The types, and that the registered connections are those whose socket has *)
(* not reported `close`, each once.                                          *)
TypeOK ==
    /\ ws \in [Conns -> {"none", "open", "closing", "closed"}]
    /\ connections \in Seq(Conns) /\ NoDuplicates(connections)
    /\ Registered = {c \in Conns : ws[c] \in {"open", "closing"}}
    /\ routes \in [Conns -> Seq(Keys)]
    /\ sequenceBySession \in [Conns -> [Sessions -> Nat]]
    /\ pending \subseteq Requests
    /\ timers \subseteq Requests
    /\ addressee \in [Requests -> Conns \union {NoConn}]
    /\ settlements \in [Requests -> Nat]
    /\ outcome \in [Requests -> {"none", "answered", "refused", "failed"}]
    /\ answeredBy \in [Requests -> Conns \union {NoConn}]
    /\ isDraining \in BOOLEAN
    /\ told \subseteq Conns

(* A route key belongs to one connection, whatever order connections come,   *)
(* register, re-register and go in: "A competing connection cannot register  *)
(* the same route while it is active" (docs/guide/control-websocket.md:70).   *)
OneOwnerPerRoute ==
    \A c, d \in Registered : c # d => KeysOf(routes[c]) \cap KeysOf(routes[d]) = {}

(* A request is settled once: an answer, a send error, the timeout and the    *)
(* closing of its connection race, and all but the first find nothing to do.  *)
(* Only the connection that was asked decides, and none waits on a connection *)
(* that is gone: its INVITE is refused at once and not after its timeout.     *)
SettledOnce ==
    /\ \A r \in Requests :
        /\ settlements[r] = IF outcome[r] = "none" THEN 0 ELSE 1
        /\ outcome[r] \in {"answered", "refused"} => answeredBy[r] = addressee[r]
    /\ \A r \in pending : isConnected(addressee[r])

(* While the gateway drains every open connection has been told, also those   *)
(* opened in the instant before.                                              *)
EveryOwnerIsTold ==
    isDraining => \A c \in Registered : ws[c] = "open" => c \in told

(* Every request is settled, though the application never answers and its     *)
(* socket stays open.                                                         *)
EveryRequestSettles ==
    \A r \in Requests : (addressee[r] # NoConn) ~> (outcome[r] # "none")
=============================================================================
