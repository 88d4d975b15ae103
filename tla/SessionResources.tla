--------------------------- MODULE SessionResources ---------------------------
(***************************************************************************)
(* What MediaSessionService keeps for a session besides its endpoints: the *)
(* recordings it started and the ICE restarts whose answer is awaited,     *)
(* superposed on MediaSessions.  A step of MediaSessions that drops a      *)
(* session, or removes an endpoint, forgets what belongs to it; the        *)
(* commands of this module await rtpbridge meanwhile and go on afterwards  *)
(* with the record they hold, as the code does.                            *)
(***************************************************************************)
EXTENDS MediaSessions

CONSTANTS
    Recordings,            \* recordings rtpbridge is asked for; ids are never reused
    Restarts, NoRestart    \* ICE restarts rtpbridge is asked for

ASSUME ResourceAssumption == NoRestart \notin Restarts

VARIABLES
    recording,             \* [Recordings -> [pc, session]]
    recordings,            \* the keys of the map `recordings`
    restart,               \* [Restarts -> [pc, endpoint]]
    pendingIceRestarts,    \* [Endpoints -> the cached restart, or NoRestart]
    answering,             \* acceptWebrtcAnswer calls: <<endpoint, the restart answered>>
    startedLate,           \* history: recordings asked for when their session was dropped
    indexedLate,           \* history: endpoints indexed after their session was dropped
    forgotten              \* history: restarts removed from the cache by another's answer or failure

recordingVars == <<recording, recordings, startedLate>>
restartVars   == <<restart, pendingIceRestarts, answering, forgotten>>
resourceVars  == <<recordingVars, restartVars, indexedLate>>
allVars       == <<vars, resourceVars>>

-----------------------------------------------------------------------------
(* dropSession and removeEndpointSnapshot. *)

(* Mutant: only stopRecording clears the map. *)
RecordingsStay(S) == {}

(* dropSession deletes the recordings of a session it drops. *)
RecordingsOf(S) == {r \in recordings : recording[r].session \in S}

(* The endpoints whose cached restart goes with the sessions S. *)
EndpointsOf(S) == FarEnds(S) \union UNION {endpoints[s] : s \in S}

(* The sessions S were dropped and the endpoints E removed. *)
Forget(S, E) ==
    /\ recordings' = recordings \ RecordingsOf(S)
    /\ startedLate' = startedLate \union
            {r \in Recordings : recording[r].pc = "starting" /\ recording[r].session \in S}
    /\ pendingIceRestarts' = [e \in Endpoints |->
            IF e \in E \union EndpointsOf(S) THEN NoRestart ELSE pendingIceRestarts[e]]
    /\ indexedLate' = indexedLate \union
            {e \in used' \ used : endpointToSession'[e] \notin Live}
    /\ UNCHANGED <<recording, restart, answering, forgotten>>

-----------------------------------------------------------------------------
(* startRecording and stopRecording. *)

StartRecording(r, s) ==
    /\ recording[r].pc = "none"
    /\ s \in Live
    /\ recording' = [recording EXCEPT ![r] = [pc |-> "starting", session |-> s]]
    /\ UNCHANGED <<vars, indexedLate, recordings, startedLate, restartVars>>

(* recordings.set, whatever became of the session meanwhile. *)
StartRecordingDone(r) ==
    /\ recording[r].pc = "starting"
    /\ CanAnswer(recording[r].session)
    /\ recording' = [recording EXCEPT ![r].pc = "started"]
    /\ recordings' = recordings \union {r}
    /\ UNCHANGED <<vars, indexedLate, startedLate, restartVars>>

StartRecordingFails(r) ==
    /\ recording[r].pc = "starting"
    /\ recording' = [recording EXCEPT ![r].pc = "over"]
    /\ UNCHANGED <<vars, indexedLate, recordings, startedLate, restartVars>>

(* A recording not in the map is not found, nor is one whose session is gone. *)
StopRecording(r) ==
    /\ recording[r].pc = "started"
    /\ r \in recordings
    /\ recording[r].session \in Live
    /\ recording' = [recording EXCEPT ![r].pc = "stopping"]
    /\ UNCHANGED <<vars, indexedLate, recordings, startedLate, restartVars>>

StopRecordingDone(r) ==
    /\ recording[r].pc = "stopping"
    /\ CanAnswer(recording[r].session)
    /\ recording' = [recording EXCEPT ![r].pc = "over"]
    /\ recordings' = recordings \ {r}
    /\ UNCHANGED <<vars, indexedLate, startedLate, restartVars>>

(* The error is passed on and the entry stays, so the stop may be retried. *)
StopRecordingFails(r) ==
    /\ recording[r].pc = "stopping"
    /\ recording' = [recording EXCEPT ![r].pc = "started"]
    /\ UNCHANGED <<vars, indexedLate, recordings, startedLate, restartVars>>

-----------------------------------------------------------------------------
(* restartIce and acceptWebrtcAnswer. *)

(* Mutant: a restart is shared only once its offer is there. *)
OfferCached(e) == pendingIceRestarts[e] # NoRestart
                    /\ restart[pendingIceRestarts[e]].pc = "offered"

IsCached(e) == pendingIceRestarts[e] # NoRestart

(* No restart is cached: rtpbridge is asked, and the promise is cached in the  *)
(* same step.  With one cached the call awaits that promise and changes        *)
(* nothing here.  The iceConfiguration minted afterwards is left out.          *)
RestartIce(q, e) ==
    /\ restart[q].pc = "none"
    /\ endpointToSession[e] \in Live
    /\ ~IsCached(e)
    /\ restart' = [restart EXCEPT ![q] = [pc |-> "pending", endpoint |-> e]]
    /\ pendingIceRestarts' = [pendingIceRestarts EXCEPT ![e] = q]
    /\ UNCHANGED <<vars, indexedLate, recordingVars, answering, forgotten>>

(* rtpbridge answers with an offer; the promise stays cached. *)
RestartOffered(q) ==
    /\ restart[q].pc = "pending"
    /\ \E s \in Sessions : restart[q].endpoint \in endpoints[s] /\ CanAnswer(s)
    /\ restart' = [restart EXCEPT ![q].pc = "offered"]
    /\ UNCHANGED <<vars, indexedLate, recordingVars, pendingIceRestarts, answering, forgotten>>

(* The catch deletes the entry of the endpoint, whichever restart it holds. *)
Uncached(e) == [pendingIceRestarts EXCEPT ![e] = NoRestart]
Others(e, q) == {pendingIceRestarts[e]} \ {q, NoRestart}

RestartFails(q) ==
    /\ restart[q].pc = "pending"
    /\ restart' = [restart EXCEPT ![q].pc = "failed"]
    /\ pendingIceRestarts' = Uncached(restart[q].endpoint)
    /\ forgotten' = forgotten \union Others(restart[q].endpoint, q)
    /\ UNCHANGED <<vars, indexedLate, recordingVars, answering>>

(* The client answers the offer of a restart, or the first one (NoRestart). *)
AcceptAnswer(e, q) ==
    /\ endpointToSession[e] \in Live
    /\ <<e, q>> \notin answering
    /\ q # NoRestart => restart[q] = [pc |-> "offered", endpoint |-> e]
    /\ answering' = answering \union {<<e, q>>}
    /\ UNCHANGED <<vars, indexedLate, recordingVars, restart, pendingIceRestarts, forgotten>>

(* rtpbridge took the answer: whatever restart is cached now is forgotten. *)
AnswerAccepted(e, q) ==
    /\ <<e, q>> \in answering
    /\ \E s \in Sessions : e \in endpoints[s] /\ CanAnswer(s)
    /\ answering' = answering \ {<<e, q>>}
    /\ restart' = IF q = NoRestart THEN restart ELSE [restart EXCEPT ![q].pc = "answered"]
    /\ pendingIceRestarts' = Uncached(e)
    /\ forgotten' = forgotten \union Others(e, q)
    /\ UNCHANGED <<vars, indexedLate, recordingVars>>

AnswerRefused(e, q) ==
    /\ <<e, q>> \in answering
    /\ answering' = answering \ {<<e, q>>}
    /\ UNCHANGED <<vars, indexedLate, recordingVars, restart, pendingIceRestarts, forgotten>>

-----------------------------------------------------------------------------
ResourcesInit ==
    /\ Init
    /\ recording = [r \in Recordings |-> [pc |-> "none", session |-> NoSession]]
    /\ recordings = {}
    /\ restart = [q \in Restarts |-> [pc |-> "none", endpoint |-> NoEndpoint]]
    /\ pendingIceRestarts = [e \in Endpoints |-> NoRestart]
    /\ answering = {}
    /\ startedLate = {}
    /\ indexedLate = {}
    /\ forgotten = {}

RecordingNext(r) ==
    \/ \E s \in Sessions : StartRecording(r, s)
    \/ StartRecordingDone(r) \/ StartRecordingFails(r)
    \/ StopRecording(r) \/ StopRecordingDone(r) \/ StopRecordingFails(r)

RestartNext(q) ==
    \/ \E e \in Endpoints : RestartIce(q, e)
    \/ RestartOffered(q) \/ RestartFails(q)

AnswerNext(e, q) == AcceptAnswer(e, q) \/ AnswerAccepted(e, q) \/ AnswerRefused(e, q)

ResourcesNext ==
    \/ OtherNext /\ Forget(Live \ Live', {})
    \/ \E k \in Calls : RemoveEndpointDone(k) /\ Forget({}, {call[k].endpoint} \union RemovedEnds(k))
    \/ \E r \in Recordings : RecordingNext(r)
    \/ \E q \in Restarts : RestartNext(q)
    \/ \E e \in Endpoints, q \in Restarts \union {NoRestart} : AnswerNext(e, q)
    \/ Ended /\ UNCHANGED resourceVars

ResourcesSpec == ResourcesInit /\ [][ResourcesNext]_allVars

(* The fairness of MediaSessions: its steps are steps of this module. *)
FairResourcesSpec == ResourcesSpec /\ Fairness

-----------------------------------------------------------------------------
(* The types of the variables of this module. *)
ResourcesTypeOK ==
    /\ recording \in [Recordings -> [pc : {"none", "starting", "started", "stopping", "over"},
                                     session : Sessions \union {NoSession}]]
    /\ recordings \subseteq Recordings
    /\ restart \in [Restarts -> [pc : {"none", "pending", "offered", "failed", "answered"},
                                 endpoint : Endpoints \union {NoEndpoint}]]
    /\ pendingIceRestarts \in [Endpoints -> Restarts \union {NoRestart}]
    /\ answering \subseteq Endpoints \X (Restarts \union {NoRestart})
    /\ startedLate \subseteq Recordings
    /\ indexedLate \subseteq Endpoints
    /\ forgotten \subseteq Restarts

(* However a session ends (a delete, its socket, its owner, a stop), its       *)
(* recordings, index entries and cached ICE restarts end with it: none belongs *)
(* to a session or an endpoint that is gone, but for the recordings and        *)
(* endpoints rtpbridge was being asked for at that moment.  Those stay for     *)
(* good.  A restart served from the cache is one of that endpoint which has    *)
(* not failed and has not been answered: its failure or its answer, whenever   *)
(* it comes, makes the next call ask rtpbridge again.                          *)
ResourcesFollowTheirSession ==
    /\ \A r \in recordings : recording[r].session \in Live \/ r \in startedLate
    /\ \A e \in Endpoints :
        endpointToSession[e] \in Live \union {NoSession} \/ e \in indexedLate
    /\ \A e \in Endpoints : IsCached(e) =>
        /\ endpointToSession[e] \in Live
        /\ restart[pendingIceRestarts[e]].endpoint = e
        /\ restart[pendingIceRestarts[e]].pc \in {"pending", "offered"}

(* "reuses pending ICE restart until the matching answer is accepted"          *)
(* (test/media-session-service.test.ts:70): rtpbridge is asked for one restart *)
(* of an endpoint at a time: those still outstanding when it is asked again    *)
(* are restarts that the answer of another offer, or the failure of another    *)
(* restart, removed from the cache.                                            *)
RestartsAreShared ==
    [][\A e \in Endpoints, q \in Restarts :
        (restart[q].pc = "none" /\ restart'[q] = [pc |-> "pending", endpoint |-> e])
            => \A p \in Restarts \ forgotten :
                    restart[p].endpoint = e => restart[p].pc \notin {"pending", "offered"}]_allVars
=============================================================================
