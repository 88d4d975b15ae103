---------------------------- MODULE RtpbridgeClient ----------------------------
(***************************************************************************)
(* RtpbridgeClient: one WebSocket to rtpbridge and the requests on it.  A   *)
(* request waits for the socket to be ready, is pending until it is        *)
(* answered, times out, cannot be sent or loses its socket; the owner may  *)
(* close the client at any time, and hears of a socket that is lost.       *)
(*                                                                         *)
(* The socket and rtpbridge are external: the socket opens or not, may     *)
(* report an error before it reports that it closed, and an answer may     *)
(* come at any time before that, or never.  The ping timer and the parsing *)
(* of messages are left out.                                               *)
(***************************************************************************)
EXTENDS Naturals

CONSTANT Requests

VARIABLES
    ws,         \* "connecting", "open", "closing" or "closed"
    ready,      \* the promise `ready`: "pending", "resolved" or "rejected"
    ended,      \* intentionalClose: "no", or who set it first, "owner" or "loss"
    registered, \* history: has the session registered its close handler?
    handlers,   \* closeHandlers holds it
    fired,      \* how often it ran
    request     \* "none", "waiting", "pending", "resolved" or "rejected"

socketVars  == <<ws, ready>>
handlerVars == <<ended, registered, handlers, fired>>
clientVars == <<socketVars, handlerVars, request>>

Set(r, state) == request' = [request EXCEPT ![r] = state]

-----------------------------------------------------------------------------
(* Requests. *)

(* createSession, createWebrtcOffer ... stopVad: each makes one request, which  *)
(* awaits `ready` before anything else.                                       *)
SendRequest(r) ==
    /\ request[r] = "none"
    /\ Set(r, "waiting")
    /\ UNCHANGED <<socketVars, handlerVars>>

(* Mutant: the state of the socket is not looked at after the await. *)
SendsAnyway == TRUE

CanSend == ws = "open"

(* `await this.ready` returned: the request is registered and sent, or        *)
(* rejected at once when the socket is no longer open.                        *)
Send(r) ==
    /\ request[r] = "waiting"
    /\ ready = "resolved"
    /\ Set(r, IF CanSend THEN "pending" ELSE "rejected")
    /\ UNCHANGED <<socketVars, handlerVars>>

ReadyFails(r) ==
    /\ request[r] = "waiting"
    /\ ready = "rejected"
    /\ Set(r, "rejected")
    /\ UNCHANGED <<socketVars, handlerVars>>

(* handleMessage; a message for a request that is not pending is dropped. *)
Answer(r) ==
    /\ request[r] = "pending"
    /\ ws \in {"open", "closing"}
    /\ \E outcome \in {"resolved", "rejected"} : Set(r, outcome)
    /\ UNCHANGED <<socketVars, handlerVars>>

(* Its timer, or the callback of ws.send. *)
RequestFails(r) ==
    /\ request[r] = "pending"
    /\ Set(r, "rejected")
    /\ UNCHANGED <<socketVars, handlerVars>>

-----------------------------------------------------------------------------
(* The socket and its owner. *)

(* onClose: the session registers when rtpbridge has answered it. *)
OnClose ==
    /\ ~registered
    /\ ended = "no"
    /\ \E r \in Requests : request[r] = "resolved"
    /\ registered' = TRUE
    /\ handlers' = TRUE
    /\ UNCHANGED <<socketVars, ended, fired, request>>

Open ==
    /\ ws = "connecting"
    /\ ws' = "open"
    /\ ready' = "resolved"
    /\ UNCHANGED <<handlerVars, request>>

(* Mutant: nobody watches how long the socket takes to open. *)
NoConnectionTimer == FALSE

ConnectionTimer == ready = "pending"

(* The socket is given up; what it reports then comes later. *)
ConnectTimeout ==
    /\ ConnectionTimer
    /\ ready' = "rejected"
    /\ ws' = "closing"
    /\ UNCHANGED <<handlerVars, request>>

(* close(): no handler will hear of it.  An answer may still arrive. *)
Close ==
    /\ ended' = IF ended = "no" THEN "owner" ELSE ended
    /\ handlers' = FALSE
    /\ ws' = IF ws \in {"open", "connecting"} THEN "closing" ELSE ws
    /\ UNCHANGED <<ready, registered, fired, request>>

RejectAllPending ==
    request' = [r \in Requests |-> IF request[r] = "pending" THEN "rejected" ELSE request[r]]

(* fireCloseHandlers. *)
FireCloseHandlers ==
    \/ /\ ended = "no"
       /\ ended' = "loss"
       /\ fired' = IF handlers THEN fired + 1 ELSE fired
       /\ handlers' = FALSE
       /\ UNCHANGED registered
    \/ /\ ended # "no"
       /\ UNCHANGED handlerVars

(* The socket reports an error; `close` will follow. *)
SocketError ==
    /\ ws # "closed"
    /\ ws' = "closing"
    /\ ready' = IF ready = "pending" THEN "rejected" ELSE ready
    /\ RejectAllPending
    /\ FireCloseHandlers

(* A socket that never opened has reported an error before it closes. *)
SocketClose ==
    /\ ws \in {"open", "closing"}
    /\ ready # "pending"
    /\ ws' = "closed"
    /\ RejectAllPending
    /\ FireCloseHandlers
    /\ UNCHANGED ready

-----------------------------------------------------------------------------
ClientInit ==
    /\ ws = "connecting"
    /\ ready = "pending"
    /\ ended = "no"
    /\ registered = FALSE
    /\ handlers = FALSE
    /\ fired = 0
    /\ request = [r \in Requests |-> "none"]

Awaits(r) == Send(r) \/ ReadyFails(r)

ClientNext ==
    \/ \E r \in Requests :
        SendRequest(r) \/ Send(r) \/ ReadyFails(r) \/ Answer(r) \/ RequestFails(r)
    \/ OnClose
    \/ Open
    \/ ConnectTimeout
    \/ Close
    \/ SocketError
    \/ SocketClose

ClientSpec == ClientInit /\ [][ClientNext]_clientVars

(* An await that is over continues, and the timers of the client fire. *)
ClientFairSpec ==
    /\ ClientSpec
    /\ WF_clientVars(ConnectTimeout)
    /\ \A r \in Requests : WF_clientVars(Awaits(r)) /\ WF_clientVars(RequestFails(r))

-----------------------------------------------------------------------------
(* The types; a handler is in the list from its registration to its end. *)
ClientTypeOK ==
    /\ ws \in {"connecting", "open", "closing", "closed"}
    /\ ready \in {"pending", "resolved", "rejected"}
    /\ ended \in {"no", "owner", "loss"}
    /\ registered \in BOOLEAN
    /\ handlers = (registered /\ ended = "no")
    /\ fired \in {0, 1}
    /\ request \in [Requests -> {"none", "waiting", "pending", "resolved", "rejected"}]

(* Once the socket is closed no request waits for an answer, not even until   *)
(* its timeout, also one that was on its way through `await ready`; and the   *)
(* session hears of the loss, unless its owner had closed the client before.  *)
SocketLossIsNoticed ==
    /\ ws = "closed" => /\ ended # "no"
                        /\ \A r \in Requests : request[r] # "pending"
    /\ fired = (IF registered /\ ended = "loss" THEN 1 ELSE 0)

(* Every request settles, also one made while the socket never opens. *)
EveryRequestSettles ==
    \A r \in Requests :
        request[r] # "none" ~> request[r] \in {"resolved", "rejected"}
=============================================================================
