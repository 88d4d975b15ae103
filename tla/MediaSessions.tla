----------------------------- MODULE MediaSessions -----------------------------
(***************************************************************************)
(* MediaSessionService: media sessions on rtpbridge, each on a WebSocket   *)
(* of its own, the endpoints and bridges in them, and what ends them: a    *)
(* delete, the owner's control connection closing, the rtpbridge socket    *)
(* failing, the gateway stopping.                                          *)
(*                                                                         *)
(* Each handler awaits rtpbridge, and anything may happen meanwhile: a     *)
(* handler is an action that starts it and one for each way it goes on.    *)
(* rtpbridge is external: it answers, refuses or leaves a request to its   *)
(* timeout.  Recordings, and gathers and playback on an endpoint, are not  *)
(* part of this module.                                                    *)
(***************************************************************************)
EXTENDS Naturals, FiniteSets

CONSTANTS
    Sessions,      \* session records; rtpbridge never reuses an id
    Conns, NoConn, \* control connections; NoConn owns what came over HTTP
    Endpoints, NoEndpoint,
    NoSession,
    Calls,         \* endpoint commands in flight at once
    MaxDestroys    \* bound on concurrent deletions of a session

ASSUME MediaAssumption ==
    /\ NoConn \notin Conns
    /\ NoEndpoint \notin Endpoints
    /\ NoSession \notin Sessions
    /\ MaxDestroys \in Nat

VARIABLES
    isConnected,       \* is the control connection registered in the hub?
    isStopping,
    session,           \* "none", "connecting", "allocating", "aborting", "live" or "gone"
    owner,             \* ownerConnectionId
    client,            \* its socket: "none", "open", "closing" or "closed"
    destroys,          \* destroySession calls that await rtpbridge
    teardown,          \* is destroySessionsForOwner awaiting rtpbridge?
    endpoints,         \* session.endpoints
    endpointToSession,
    pair,              \* pairedEndpointId of a bridge endpoint, else NoEndpoint
    used,              \* endpoint ids rtpbridge has given out
    call,              \* the endpoint commands in flight
    late               \* history: sessions being created when their owner left

sessionVars  == <<session, owner, client, destroys, teardown, late>>
endpointVars == <<endpoints, endpointToSession, pair, used>>
vars == <<isConnected, isStopping, sessionVars, endpointVars, call>>

(* The keys of the map `sessions`. *)
Live == {s \in Sessions : session[s] = "live"}

(* A request can be answered until the socket is closed, and is rejected then. *)
CanAnswer(s) == client[s] \in {"open", "closing"}

(* client.close(): a socket that is open begins to close. *)
Closed(s) == IF client[s] = "open" THEN "closing" ELSE client[s]

-----------------------------------------------------------------------------
(* dropSession. *)

(* dropPairedBridgeEndpoints: the far ends of the bridges of the sessions S. *)
FarEnds(S) == {pair[e] : e \in UNION {endpoints[s] : s \in S}} \ {NoEndpoint}

(* The sessions S leave the map, their endpoints leave the index and the far  *)
(* ends of their bridges leave the sessions they are in.                      *)
DropEndpoints(S) ==
    LET unindexed == FarEnds(S) \union UNION {endpoints[s] : s \in S} IN
    /\ endpoints' = [s \in Sessions |-> IF s \in Live \ S THEN endpoints[s] \ FarEnds(S)
                                                         ELSE endpoints[s]]
    /\ endpointToSession' = [e \in Endpoints |-> IF e \in unindexed THEN NoSession
                                                 ELSE endpointToSession[e]]
    /\ UNCHANGED <<pair, used>>

Gone(S) == [s \in Sessions |-> IF s \in S THEN "gone" ELSE session[s]]

-----------------------------------------------------------------------------
(* createSession. *)

(* Over HTTP or by a connection; the service does not ask whether it is open. *)
CreateSession(s) ==
    /\ session[s] = "none"
    /\ ~isStopping
    /\ session' = [session EXCEPT ![s] = "connecting"]
    /\ \E c \in {d \in Conns : isConnected[d]} \union {NoConn} :
        owner' = [owner EXCEPT ![s] = c]
    /\ UNCHANGED <<isConnected, isStopping, client, destroys, teardown, late, endpointVars, call>>

(* mediaServers.createClient: a backend is found and its client made, or not. *)
CreateClient(s) ==
    /\ session[s] = "connecting"
    /\ \/ /\ session' = [session EXCEPT ![s] = "allocating"]
          /\ client' = [client EXCEPT ![s] = "open"]
       \/ /\ session' = [session EXCEPT ![s] = "gone"]
          /\ UNCHANGED client
    /\ UNCHANGED <<isConnected, isStopping, owner, destroys, teardown, late, endpointVars, call>>

AssertRunning == ~isStopping

(* rtpbridge created it and the ICE configuration is made: sessions.set. *)
RegisterSession(s) ==
    /\ session[s] = "allocating"
    /\ client[s] = "open"
    /\ AssertRunning
    /\ session' = [session EXCEPT ![s] = "live"]
    /\ UNCHANGED <<isConnected, isStopping, owner, client, destroys, teardown, late,
                   endpointVars, call>>

(* rtpbridge refuses, times out or is lost, or the gateway is stopping: the    *)
(* catch awaits destroySession if rtpbridge had created the session.           *)
AbortSession(s) ==
    /\ session[s] = "allocating"
    /\ session' = [session EXCEPT ![s] = "aborting"]
    /\ UNCHANGED <<isConnected, isStopping, owner, client, destroys, teardown, late,
                   endpointVars, call>>

(* ... and then closes the client. *)
AbortDone(s) ==
    /\ session[s] = "aborting"
    /\ session' = [session EXCEPT ![s] = "gone"]
    /\ client' = [client EXCEPT ![s] = Closed(s)]
    /\ UNCHANGED <<isConnected, isStopping, owner, destroys, teardown, late, endpointVars, call>>

-----------------------------------------------------------------------------
(* The ends of a session. *)

(* destroySession: session.delete. *)
DestroySession(s) ==
    /\ s \in Live
    /\ destroys[s] < MaxDestroys
    /\ destroys' = [destroys EXCEPT ![s] = @ + 1]
    /\ UNCHANGED <<isConnected, isStopping, session, owner, client, teardown, late,
                   endpointVars, call>>

(* rtpbridge confirmed or failed; either way `finally` closes and drops. *)
DestroyDone(s) ==
    /\ destroys[s] > 0
    /\ destroys' = [destroys EXCEPT ![s] = @ - 1]
    /\ client' = [client EXCEPT ![s] = Closed(s)]
    /\ session' = Gone({s})
    /\ DropEndpoints({s} \cap Live)
    /\ UNCHANGED <<isConnected, isStopping, owner, teardown, late, call>>

(* Mutant: what belongs to a connection lives on. *)
NoneOwned(c) == {}

OwnedBy(c) == {s \in Live : owner[s] = c}

Connect(c) ==
    /\ ~isConnected[c]
    /\ \A s \in Sessions : owner[s] # c
    /\ ~isStopping
    /\ isConnected' = [isConnected EXCEPT ![c] = TRUE]
    /\ UNCHANGED <<isStopping, sessionVars, endpointVars, call>>

(* The hub's `disconnect` event: destroySessionsForOwner drops first and then  *)
(* asks rtpbridge.                                                             *)
Disconnect(c) ==
    /\ isConnected[c]
    /\ isConnected' = [isConnected EXCEPT ![c] = FALSE]
    /\ session' = Gone(OwnedBy(c))
    /\ teardown' = teardown \union OwnedBy(c)
    /\ DropEndpoints(OwnedBy(c))
    /\ late' = late \union {s \in Sessions : /\ owner[s] = c
                                             /\ session[s] \in {"connecting", "allocating"}}
    /\ UNCHANGED <<isStopping, owner, client, destroys, call>>

(* Mutant: a failed destroy leaves the socket open. *)
StaysOpen(s) == client[s]

AfterTeardown(s) == Closed(s)

TeardownDone(s) ==
    /\ s \in teardown
    /\ teardown' = teardown \ {s}
    /\ client' = [client EXCEPT ![s] = AfterTeardown(s)]
    /\ UNCHANGED <<isConnected, isStopping, session, owner, destroys, late, endpointVars, call>>

(* The socket reports `close` or `error`.  Pending requests are rejected and,  *)
(* unless the gateway itself closed it, the close handler drops the session.   *)
SocketClosed(s) ==
    /\ CanAnswer(s)
    /\ client' = [client EXCEPT ![s] = "closed"]
    /\ LET dropped == IF client[s] = "open" THEN {s} \cap Live ELSE {} IN
        /\ session' = Gone(dropped)
        /\ DropEndpoints(dropped)
    /\ UNCHANGED <<isConnected, isStopping, owner, destroys, teardown, late, call>>

(* Mutant: shutdown only waits for the deletions that run already. *)
BeingDestroyed == {s \in Live : destroys[s] > 0}

ShutdownSessions == Live

(* The gateway stops: shutdown() deletes every session of the map. *)
Shutdown ==
    /\ ~isStopping
    /\ isStopping' = TRUE
    /\ destroys' = [s \in Sessions |-> IF s \in ShutdownSessions THEN destroys[s] + 1
                                                                 ELSE destroys[s]]
    /\ UNCHANGED <<isConnected, session, owner, client, teardown, late, endpointVars, call>>

-----------------------------------------------------------------------------
(* Endpoints. *)

Idle == [op |-> "idle"]

Start(k, command) == call[k] = Idle /\ call' = [call EXCEPT ![k] = command]
Finish(k) == call' = [call EXCEPT ![k] = Idle]

(* createWebrtc*, createRtp*, play: requireSession, then rtpbridge is asked. *)
CreateEndpoint(k, s) ==
    /\ s \in Live
    /\ Start(k, [op |-> "create", session |-> s])
    /\ UNCHANGED <<isConnected, isStopping, sessionVars, endpointVars>>

(* addEndpoint on the record the handler holds, whatever became of it. *)
CreateEndpointDone(k, e) ==
    /\ call[k].op = "create"
    /\ e \notin used
    /\ LET s == call[k].session IN
        /\ CanAnswer(s)
        /\ endpoints' = [endpoints EXCEPT ![s] = @ \union {e}]
        /\ endpointToSession' = [endpointToSession EXCEPT ![e] = s]
    /\ used' = used \union {e}
    /\ Finish(k)
    /\ UNCHANGED <<isConnected, isStopping, sessionVars, pair>>

(* bridge: two different sessions. *)
Bridge(k, s, t) ==
    /\ {s, t} \subseteq Live
    /\ s # t
    /\ Start(k, [op |-> "bridge", session |-> s, target |-> t])
    /\ UNCHANGED <<isConnected, isStopping, sessionVars, endpointVars>>

(* Mutant: the sessions are not looked up again after the await. *)
TakenForGranted(s, t) == TRUE

StillThere(s, t) == {s, t} \subseteq Live

(* rtpbridge made the two ends e and f, and both sessions are still there. *)
BridgeDone(k, e, f) ==
    /\ call[k].op = "bridge"
    /\ e # f /\ {e, f} \cap used = {}
    /\ LET s == call[k].session
           t == call[k].target
       IN  /\ CanAnswer(s)
           /\ StillThere(s, t)
           /\ endpoints' = [endpoints EXCEPT ![s] = @ \union {e}, ![t] = @ \union {f}]
           /\ endpointToSession' = [endpointToSession EXCEPT ![e] = s, ![f] = t]
    /\ pair' = [pair EXCEPT ![e] = f, ![f] = e]
    /\ used' = used \union {e, f}
    /\ Finish(k)
    /\ UNCHANGED <<isConnected, isStopping, sessionVars>>

(* One of the sessions went meanwhile: rtpbridge is asked to remove the bridge, *)
(* its answer is ignored and the command fails; nothing is recorded.            *)
BridgeTooLate(k) ==
    /\ call[k].op = "bridge"
    /\ CanAnswer(call[k].session)
    /\ ~StillThere(call[k].session, call[k].target)
    /\ call' = [call EXCEPT ![k] = [op |-> "unmake", session |-> call[k].session]]
    /\ UNCHANGED <<isConnected, isStopping, sessionVars, endpointVars>>

(* rtpbridge refuses, times out or is lost, or the ignored answer comes. *)
EndpointCallFails(k) ==
    /\ call[k].op \in {"create", "bridge", "unmake"}
    /\ Finish(k)
    /\ UNCHANGED <<isConnected, isStopping, sessionVars, endpointVars>>

(* media.stop and media.unbridge: requireSessionForEndpoint, then              *)
(* removeTrackedEndpoint, which keeps what it knew of the endpoint.            *)
RemoveEndpoint(k, e) ==
    LET s == endpointToSession[e] IN
    /\ s \in Live
    /\ Start(k, [op |-> "remove", session |-> s, endpoint |-> e,
                 far |-> IF e \in endpoints[s] THEN pair[e] ELSE NoEndpoint])
    /\ UNCHANGED <<isConnected, isStopping, sessionVars, endpointVars>>

(* The far end is removed where its session is still in the map. *)
RemovedEnds(k) ==
    {call[k].endpoint}
        \union {e \in {call[k].far} : \E t \in Live : e \in endpoints[t]}

(* The snapshot goes, and that of the far end. *)
RemoveEndpointDone(k) ==
    /\ call[k].op = "remove"
    /\ LET s == call[k].session
           near == call[k].endpoint
       IN
        /\ CanAnswer(s) \/ s \notin Live \/ near \notin endpoints[s]
        /\ endpoints' = [t \in Sessions |->
            endpoints[t] \ ((IF t = s THEN {near} ELSE {})
                            \union (IF t \in Live THEN {call[k].far} ELSE {}))]
        /\ endpointToSession' = [e \in Endpoints |->
            IF e \in RemovedEnds(k) THEN NoSession ELSE endpointToSession[e]]
    /\ Finish(k)
    /\ UNCHANGED <<isConnected, isStopping, sessionVars, pair, used>>

(* rtpbridge fails while the endpoint is still tracked: the error is passed on. *)
RemoveEndpointFails(k) ==
    /\ call[k].op = "remove"
    /\ call[k].session \in Live
    /\ call[k].endpoint \in endpoints[call[k].session]
    /\ Finish(k)
    /\ UNCHANGED <<isConnected, isStopping, sessionVars, endpointVars>>

-----------------------------------------------------------------------------
Init ==
    /\ isConnected = [c \in Conns |-> FALSE]
    /\ isStopping = FALSE
    /\ session = [s \in Sessions |-> "none"]
    /\ owner = [s \in Sessions |-> NoConn]
    /\ client = [s \in Sessions |-> "none"]
    /\ destroys = [s \in Sessions |-> 0]
    /\ teardown = {}
    /\ late = {}
    /\ endpoints = [s \in Sessions |-> {}]
    /\ endpointToSession = [e \in Endpoints |-> NoSession]
    /\ pair = [e \in Endpoints |-> NoEndpoint]
    /\ used = {}
    /\ call = [k \in Calls |-> Idle]

SessionNext(s) ==
    \/ CreateSession(s)
    \/ CreateClient(s)
    \/ RegisterSession(s)
    \/ AbortSession(s)
    \/ AbortDone(s)
    \/ DestroySession(s)
    \/ DestroyDone(s)
    \/ TeardownDone(s)
    \/ SocketClosed(s)

CallNext(k) ==
    \/ \E s \in Sessions : CreateEndpoint(k, s)
    \/ \E s, t \in Sessions : Bridge(k, s, t)
    \/ \E e \in Endpoints : CreateEndpointDone(k, e) \/ RemoveEndpoint(k, e)
    \/ \E e, f \in Endpoints : BridgeDone(k, e, f)
    \/ BridgeTooLate(k)
    \/ EndpointCallFails(k)
    \/ RemoveEndpointFails(k)

(* Once the gateway stops the process may end and do nothing more. *)
Ended == isStopping /\ UNCHANGED vars

(* Every step but those that remove one endpoint. *)
OtherNext ==
    \/ \E c \in Conns : Connect(c) \/ Disconnect(c)
    \/ \E s \in Sessions : SessionNext(s)
    \/ \E k \in Calls : CallNext(k)
    \/ Shutdown

Next ==
    \/ OtherNext
    \/ \E k \in Calls : RemoveEndpointDone(k)
    \/ Ended

Spec == Init /\ [][Next]_vars

(* Every request to rtpbridge has a timeout, so what awaits one goes on. *)
Fairness ==
    \A s \in Sessions :
        /\ WF_vars(CreateClient(s))
        /\ WF_vars(RegisterSession(s) \/ AbortSession(s))
        /\ WF_vars(AbortDone(s))
        /\ WF_vars(DestroyDone(s))
        /\ WF_vars(TeardownDone(s))

-----------------------------------------------------------------------------
Commands ==
    {Idle}
        \union [op : {"create", "unmake"}, session : Sessions]
        \union [op : {"bridge"}, session : Sessions, target : Sessions]
        \union [op : {"remove"}, session : Sessions, endpoint : Endpoints,
                far : Endpoints \union {NoEndpoint}]

(* The types; a session has a client before anything is torn down. *)
TypeOK ==
    /\ isConnected \in [Conns -> BOOLEAN]
    /\ isStopping \in BOOLEAN
    /\ session \in [Sessions -> {"none", "connecting", "allocating", "aborting", "live", "gone"}]
    /\ owner \in [Sessions -> Conns \union {NoConn}]
    /\ client \in [Sessions -> {"none", "open", "closing", "closed"}]
    /\ destroys \in [Sessions -> Nat]
    /\ teardown \subseteq {s \in Sessions : client[s] # "none"}
    /\ late \subseteq Sessions
    /\ endpoints \in [Sessions -> SUBSET Endpoints]
    /\ endpointToSession \in [Endpoints -> Sessions \union {NoSession}]
    /\ pair \in [Endpoints -> Endpoints \union {NoEndpoint}]
    /\ used \subseteq Endpoints
    /\ call \in [Calls -> Commands]

(* A bridge has two ends or none: while a session of the map holds one end,   *)
(* another session of the map holds the other, whichever of them is deleted,  *)
(* lost or stopped, before, during or after the bridge is made or removed.    *)
(* And the index finds the endpoints of every session of the map and no       *)
(* others, so that a command on an endpoint reaches the session it is in.     *)
EndpointsAreLinked ==
    \A s \in Live, e \in Endpoints :
        /\ e \in endpoints[s] <=> endpointToSession[e] = s
        /\ e \in endpoints[s] /\ pair[e] # NoEndpoint =>
            /\ pair[pair[e]] = e
            /\ \E t \in Live \ {s} : pair[e] \in endpoints[t]

(* A session that left the map does not keep its rtpbridge socket: it is      *)
(* closed, or a handler that will close it still waits for rtpbridge, which   *)
(* may fail.                                                                  *)
DroppedSessionsAreReleased ==
    \A s \in Sessions :
        (session[s] = "gone" /\ client[s] = "open") => s \in teardown \/ destroys[s] > 0

(* "Media sessions created through a control connection are owned by that      *)
(* connection and are cleaned up when it disconnects"                          *)
(* (docs/guide/media-sessions.md:23), but for those still being created then:  *)
(* they are registered afterwards, and no other outlives its owner.            *)
OrphansCameLate ==
    \A s \in Live : (owner[s] # NoConn /\ ~isConnected[owner[s]]) => s \in late

(* Once the gateway stops, every session asked for ends with its socket given  *)
(* up, also one still being created.                                           *)
StopEndsEverySession ==
    \A s \in Sessions :
        (isStopping /\ session[s] # "none") ~> (session[s] = "gone" /\ client[s] # "open")
=============================================================================
