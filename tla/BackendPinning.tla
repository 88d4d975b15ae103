---------------------------- MODULE BackendPinning ----------------------------
(***************************************************************************)
(* MediaServerManager: which rtpbridge backend a session gets.  Sessions   *)
(* of one SIP call must share a backend, so the call is pinned to the      *)
(* backend of its first session and the pin counts the sessions that use   *)
(* it.  Choosing a backend awaits discovery, and taking a reference comes  *)
(* one turn of the microtask queue after choosing.                         *)
(*                                                                         *)
(* The sessions are those of MediaSessionService that carry a callId.  What *)
(* discovery lists may change at any time and is left open here; module    *)
(* EndpointCatalog says what a catalogue file makes of it.                 *)
(***************************************************************************)
EXTENDS Naturals, FiniteSets

CONSTANTS
    Users,     \* sessions with a callId
    CallIds,
    Backends,
    NoBackend

ASSUME PinningAssumption == NoBackend \notin Backends /\ IsFiniteSet(Users)

VARIABLES
    callOf,    \* the callId of each session
    stage,     \* "new", "discovering", "picked", "using", "refused" or "released"
    backend,   \* the backend picked for the session
    callToBackend, \* the pins: callToBackend[id].backendId
    refs,      \* and callToBackend[id].refs
    isCallActive \* of the call registry and the media service, by callId

vars == <<callOf, stage, backend, callToBackend, refs, isCallActive>>

IsPinned(id) == callToBackend[id] # NoBackend

(* selectBackend: a pinned call's own backend or any, if it accepts sessions. *)
Eligible(id) == IF IsPinned(id) THEN {callToBackend[id]} ELSE Backends

(* A catalogue is read at once; without one pickBackend awaits resolveBackends. *)
Picking(k) == stage[k] \in {"new", "discovering"}

(* createClient without a catalogue, up to the await of resolveBackends. *)
CreateClient(k) ==
    /\ stage[k] = "new"
    /\ stage' = [stage EXCEPT ![k] = "discovering"]
    /\ UNCHANGED <<callOf, backend, callToBackend, refs, isCallActive>>

(* The rest of pickBackend: select, then pinCall, which keeps an equal pin. *)
PickBackend(k) ==
    LET id == callOf[k] IN
    /\ Picking(k)
    /\ \E b \in Eligible(id) :
        /\ backend' = [backend EXCEPT ![k] = b]
        /\ callToBackend' = [callToBackend EXCEPT ![id] = b]
        /\ refs' = [refs EXCEPT ![id] = IF callToBackend[id] = b THEN @ ELSE 0]
    /\ stage' = [stage EXCEPT ![k] = "picked"]
    /\ UNCHANGED <<callOf, isCallActive>>

(* No backend accepts, or the pinned one is not listed or does not accept. *)
PickFails(k) ==
    /\ Picking(k)
    /\ stage' = [stage EXCEPT ![k] = "refused"]
    /\ UNCHANGED <<callOf, backend, callToBackend, refs, isCallActive>>

MayRegister(k) == callToBackend[callOf[k]] \in {backend[k], NoBackend}

(* registerCall, a microtask later: one more reference, or a new pin. *)
RegisterCall(k) ==
    LET id == callOf[k] IN
    /\ stage[k] = "picked"
    /\ MayRegister(k)
    /\ refs' = [refs EXCEPT ![id] = IF IsPinned(id) THEN @ + 1 ELSE 1]
    /\ callToBackend' = [callToBackend EXCEPT ![id] = backend[k]]
    /\ stage' = [stage EXCEPT ![k] = "using"]
    /\ UNCHANGED <<callOf, backend, isCallActive>>

(* registerCall throws: the call was pinned elsewhere in between. *)
RegisterFails(k) ==
    /\ stage[k] = "picked"
    /\ ~MayRegister(k)
    /\ stage' = [stage EXCEPT ![k] = "refused"]
    /\ UNCHANGED <<callOf, backend, callToBackend, refs, isCallActive>>

(* Mutant: the last session takes the pin with it, call or no call. *)
GoesWithTheLast(id) == refs[id] <= 1

PinGoes(id) == refs[id] <= 1 /\ ~isCallActive[id]

(* unregisterCall: the session is dropped or its creation fails. *)
UnregisterCall(k) ==
    LET id == callOf[k] IN
    /\ stage[k] = "using"
    /\ stage' = [stage EXCEPT ![k] = "released"]
    /\ IF callToBackend[id] # backend[k]
       THEN UNCHANGED <<callToBackend, refs>>
       ELSE /\ refs' = [refs EXCEPT ![id] = IF @ > 1 THEN @ - 1 ELSE 0]
            /\ callToBackend' = [callToBackend EXCEPT ![id] = IF PinGoes(id) THEN NoBackend ELSE @]
    /\ UNCHANGED <<callOf, backend, isCallActive>>

Sweepable(id) == IsPinned(id) /\ refs[id] = 0 /\ ~isCallActive[id]

(* sweepStaleEntries, of pins that are older than CALL_BACKEND_TTL_MS. *)
SweepStaleEntry(id) ==
    /\ Sweepable(id)
    /\ callToBackend' = [callToBackend EXCEPT ![id] = NoBackend]
    /\ refs' = [refs EXCEPT ![id] = 0]
    /\ UNCHANGED <<callOf, stage, backend, isCallActive>>

(* Calls start and end. *)
CallStartsOrEnds(id) ==
    /\ isCallActive' = [isCallActive EXCEPT ![id] = ~@]
    /\ UNCHANGED <<callOf, stage, backend, callToBackend, refs>>

Init ==
    /\ callOf \in [Users -> CallIds]
    /\ stage = [k \in Users |-> "new"]
    /\ backend = [k \in Users |-> NoBackend]
    /\ callToBackend = [id \in CallIds |-> NoBackend]
    /\ refs = [id \in CallIds |-> 0]
    /\ isCallActive = [id \in CallIds |-> FALSE]

UserNext(k) ==
    \/ CreateClient(k)
    \/ PickBackend(k)
    \/ PickFails(k)
    \/ RegisterCall(k)
    \/ RegisterFails(k)
    \/ UnregisterCall(k)

Next ==
    \/ \E k \in Users : UserNext(k)
    \/ \E id \in CallIds : SweepStaleEntry(id) \/ CallStartsOrEnds(id)

Spec == Init /\ [][Next]_vars

-----------------------------------------------------------------------------
UsersOf(id) == {k \in Users : stage[k] = "using" /\ callOf[k] = id}

(* The types; only a pinned call has references. *)
TypeOK ==
    /\ callOf \in [Users -> CallIds]
    /\ stage \in [Users -> {"new", "discovering", "picked", "using", "refused", "released"}]
    /\ backend \in [Users -> Backends \union {NoBackend}]
    /\ callToBackend \in [CallIds -> Backends \union {NoBackend}]
    /\ refs \in [CallIds -> Nat]
    /\ isCallActive \in [CallIds -> BOOLEAN]
    /\ \A id \in CallIds : refs[id] > 0 => IsPinned(id)

(* "Sessions with the same `callId` are pinned to the same backend"           *)
(* (docs/guide/media-sessions.md:92), so that they can be bridged, however     *)
(* their creations, failures and deletions interleave.                         *)
OneBackendPerCall ==
    \A k, l \in Users :
        (stage[k] = "using" /\ stage[l] = "using" /\ callOf[k] = callOf[l])
            => backend[k] = backend[l]

(* The pin of a call counts exactly the sessions that use it, and names the    *)
(* backend they are on: no reference is lost or taken twice.                   *)
RefsCountUsers ==
    \A id \in CallIds :
        /\ refs[id] = Cardinality(UsersOf(id))
        /\ \A k \in UsersOf(id) : callToBackend[id] = backend[k]

(* While a SIP call is up its pin does not move, even while it has no session, *)
(* so that its next session finds the backend of the last one.                 *)
PinOfActiveCallStays ==
    [][\A id \in CallIds :
        (IsPinned(id) /\ isCallActive[id]) => callToBackend'[id] = callToBackend[id]]_vars
=============================================================================
