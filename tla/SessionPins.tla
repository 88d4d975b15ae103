------------------------------ MODULE SessionPins ------------------------------
(***************************************************************************)
(* MediaSessionService on top of MediaServerManager: MediaSessions and     *)
(* BackendPinning composed.  A session takes a reference to the backend of *)
(* its call when its client is created; the failing creation, or else      *)
(* dropSession, gives it back.  A delete, a lost socket, an owner that     *)
(* leaves and a stop may all come to drop the same session.                *)
(*                                                                         *)
(* The sessions are those with a callId: the others have no part in pins.  *)
(* Where a session is in BackendPinning follows from where it is in        *)
(* MediaSessions, so a step of both is one that each of them allows.       *)
(***************************************************************************)
EXTENDS MediaSessions

CONSTANTS CallIds, Backends, NoBackend

ASSUME PinsAssumption == NoBackend \notin Backends /\ IsFiniteSet(Sessions)

VARIABLES callOf, backend, callToBackend, refs, isCallActive

pinVars == <<callOf, backend, callToBackend, refs, isCallActive>>
sessionPinVars == <<vars, pinVars>>

(* What a session is to BackendPinning; one without a client got no reference. *)
PinStage(s) ==
    CASE session[s] = "none" -> "new"
      [] session[s] = "connecting" -> IF backend[s] = NoBackend THEN "discovering" ELSE "picked"
      [] session[s] \in {"allocating", "aborting", "live"} -> "using"
      [] session[s] = "gone" -> IF client[s] = "none" THEN "refused" ELSE "released"

Pinning == INSTANCE BackendPinning WITH
    Users <- Sessions, stage <- [s \in Sessions |-> PinStage(s)]

-----------------------------------------------------------------------------
(* createClient awaits discovery, picks, takes the reference a microtask     *)
(* later and makes the client; any of this may fail.                         *)
StartsDiscovery(s) == CreateSession(s) /\ UNCHANGED backend /\ Pinning!CreateClient(s)

PicksBackend(s) == UNCHANGED vars /\ Pinning!PickBackend(s)

TakesReference(s) ==
    /\ CreateClient(s)
    /\ session'[s] = "allocating"
    /\ UNCHANGED backend
    /\ Pinning!RegisterCall(s)

GetsNoClient(s) ==
    /\ CreateClient(s)
    /\ session'[s] = "gone"
    /\ UNCHANGED backend
    /\ Pinning!PickFails(s) \/ Pinning!RegisterFails(s)

(* The catch of createAdmittedSession: unregisterCall comes last. *)
GivesBack(s) == AbortDone(s) /\ UNCHANGED backend /\ Pinning!UnregisterCall(s)

-----------------------------------------------------------------------------
(* Mutant: a delete that comes late gives the reference back once more. *)
DroppedAgain == (Live \ Live') \union {s \in Sessions : destroys'[s] < destroys[s]}

(* dropSession returns at once unless the session is in the map. *)
Dropped == Live \ Live'

(* The references of call id that the sessions S give back: unregisterCall  *)
(* ignores a session whose call has another backend by now.                 *)
GivenBack(S, id) == {s \in S : callOf[s] = id /\ backend[s] = callToBackend[id]}

(* unregisterCall for one session after the other: the last one takes the   *)
(* pin with it unless the call is up.                                       *)
Unregister(S) ==
    LET n(id) == Cardinality(GivenBack(S, id)) IN
    /\ refs' = [id \in CallIds |-> IF n(id) < refs[id] THEN refs[id] - n(id) ELSE 0]
    /\ callToBackend' = [id \in CallIds |->
            IF n(id) > 0 /\ n(id) >= refs[id] /\ ~isCallActive[id]
            THEN NoBackend ELSE callToBackend[id]]
    /\ UNCHANGED <<callOf, backend, isCallActive>>

(* What may drop sessions: destroySession, destroySessionsForOwner, a socket. *)
DropsSessions ==
    /\ \/ \E s \in Sessions : DestroyDone(s) \/ SocketClosed(s)
       \/ \E c \in Conns : Disconnect(c)
    /\ Unregister(Dropped)

(* Every other step of the service. *)
TouchesNoPin ==
    /\ \/ \E c \in Conns : Connect(c)
       \/ \E s \in Sessions : RegisterSession(s) \/ AbortSession(s) \/ DestroySession(s)
                                \/ TeardownDone(s)
       \/ \E k \in Calls : CallNext(k) \/ RemoveEndpointDone(k)
       \/ Shutdown
       \/ Ended
    /\ UNCHANGED pinVars

(* The sweep, and the calls that come and go. *)
ManagerStep ==
    /\ UNCHANGED <<vars, backend>>
    /\ \E id \in CallIds : Pinning!SweepStaleEntry(id) \/ Pinning!CallStartsOrEnds(id)

PinsInit ==
    /\ Init
    /\ callOf \in [Sessions -> CallIds]
    /\ backend = [s \in Sessions |-> NoBackend]
    /\ callToBackend = [id \in CallIds |-> NoBackend]
    /\ refs = [id \in CallIds |-> 0]
    /\ isCallActive = [id \in CallIds |-> FALSE]

PinsNext ==
    \/ \E s \in Sessions : \/ StartsDiscovery(s) \/ PicksBackend(s)
                           \/ TakesReference(s) \/ GetsNoClient(s) \/ GivesBack(s)
    \/ DropsSessions
    \/ TouchesNoPin
    \/ ManagerStep

PinsSpec == PinsInit /\ [][PinsNext]_sessionPinVars

-----------------------------------------------------------------------------
(* The types; a session has a backend before it gets a reference to it, and *)
(* only one that was registered is deleted.                                 *)
PinsTypeOK ==
    /\ callOf \in [Sessions -> CallIds]
    /\ backend \in [Sessions -> Backends \union {NoBackend}]
    /\ callToBackend \in [CallIds -> Backends \union {NoBackend}]
    /\ refs \in [CallIds -> Nat]
    /\ isCallActive \in [CallIds -> BOOLEAN]
    /\ \A s \in Sessions :
        /\ session[s] \in {"allocating", "aborting", "live"} => backend[s] # NoBackend
        /\ destroys[s] > 0 => session[s] \in {"live", "gone"}

(* Each session that was given a client holds one reference to the backend of *)
(* its call until it has ended, and none afterwards: of everything that may   *)
(* drop it, or fail while it is created, one gives the reference back.  The   *)
(* pin stands for as long as a session needs it.                              *)
SessionsHoldOneReference == Pinning!RefsCountUsers

(* bridge() refuses sessions on different backends ("Cannot bridge media       *)
(* sessions on different rtpbridge backends"): two sessions of one call are    *)
(* never refused for that, whatever ended other sessions of the call before.   *)
SessionsOfACallCanBeBridged ==
    \A s, t \in Live : callOf[s] = callOf[t] => backend[s] = backend[t]
=============================================================================
