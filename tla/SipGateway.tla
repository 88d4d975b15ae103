----------------------------- MODULE SipGateway -----------------------------
(***************************************************************************)
(* The SIP half of the gateway: DrachtioGateway (INVITE handling, outbound *)
(* calls, hang-up, owner teardown, shutdown) together with the CallRegistry*)
(* it keeps, the control connections that own calls and the drain flags of *)
(* GatewayLifecycle.                                                       *)
(*                                                                         *)
(* A leg is one INVITE: received (inbound) or sent for one outbound        *)
(* attempt.  Node runs one callback at a time, so an action is the code    *)
(* between two awaits; pc[l] names the await the handler of leg l is at.   *)
(* A control connection id is a fresh UUID and is never reused.  Headers   *)
(* are left out, re-INVITEs and SDP are in CallSdp; a follow-up event is   *)
(* counted where the code produces it.                                     *)
(***************************************************************************)
EXTENDS Integers, Sequences, FiniteSets

CONSTANTS
    Legs,         \* INVITE transactions, inbound or outbound
    Conns,        \* control WebSocket connections
    NoConn,       \* "owner" of a call routed to an HTTP receiver
    Bases,        \* normalised SIP Call-IDs
    CallIds,      \* gateway call ids
    Candidates,   \* Candidates[b] = <<b, b-2, b-3, ...>>, the ids tried for b
    NoId,         \* no call id assigned yet
    NoLeg,        \* no entry in the registry
    Requests,     \* concurrent hang-up commands (HTTP or control)
    CallIdReuse   \* may a SIP Call-ID come back after a call that had it ended?

ASSUME ConstantsAssumption ==
    /\ NoConn \notin Conns
    /\ NoId \notin CallIds
    /\ NoLeg \notin Legs
    /\ "shutdown" \notin Requests
    /\ Candidates \in [Bases -> Seq(CallIds)]
    /\ CallIdReuse \in BOOLEAN

VARIABLES
    phase,            \* isDraining / isStopping of the lifecycle, and process exit
    conn,             \* state of every control connection
    pc,               \* the await each leg's handler is at
    outbound,         \* the legs created by createOutbound
    owner,            \* controlConnectionId of each leg
    callId,           \* callId of each leg
    dialog,           \* the SIP dialog as the far end sees it
    calls,            \* CallRegistry.calls
    reservations,     \* CallRegistry.reservations
    responses,        \* final responses sent to an inbound INVITE
    cancelRequested,  \* pending.cancelRequested
    requestSent,      \* pending.request is set
    cancelSent,       \* a CANCEL was sent for the pending request
    byes,             \* <<caller, leg>>: bye() awaiting dialog.destroy
    dropping,         \* owner teardown awaiting dialog.destroy
    undestroyed,      \* destroy failed after the gateway gave the dialog up
    terminal          \* `bye`/`terminated` events produced for each leg

vars == <<phase, conn, pc, outbound, owner, callId, dialog, calls, reservations,
          responses, cancelRequested, requestSent, cancelSent, byes, dropping,
          undestroyed, terminal>>

registryVars == <<calls, reservations>>
pendingVars  == <<cancelRequested, requestSent, cancelSent>>

Owners == Conns \union {NoConn}
PCs == {"Idle", "Deciding", "Answering", "Cancelled", "Aborting",
        "Dialing", "HangingUp", "Bound", "Over"}

isDraining == phase # "Accepting"
isStopping == phase \in {"Stopping", "Exited"}
Alive      == phase # "Exited"

(* Handlers inside handleAdmittedInvite and inside createAdmittedOutbound. *)
PendingInbound  == {l \in Legs : pc[l] \in {"Deciding", "Answering", "Cancelled", "Aborting"}}
PendingOutbound == {l \in Legs : pc[l] \in {"Dialing", "HangingUp"}}

Connected(c) == c # NoConn => conn[c] = "Open"

LegsIn(registry) == {registry[id] : id \in CallIds} \ {NoLeg}

-----------------------------------------------------------------------------
(* CallRegistry. *)

(* Mutant: pending INVITEs are not looked at. *)
TakenByActiveCall(id) == calls[id] # NoLeg

Taken(id) == calls[id] # NoLeg \/ id \in reservations

(* reserveCallId: the first candidate that is neither active nor reserved. *)
(* Without CallIdReuse no SIP Call-ID outlives its call.                   *)
ReserveCallId(b, id) ==
    /\ \E n \in 1..Len(Candidates[b]) :
          /\ id = Candidates[b][n]
          /\ ~Taken(id)
          /\ \A m \in 1..(n - 1) : Taken(Candidates[b][m])
    /\ CallIdReuse \/ \A l \in Legs : callId[l] # id

Activated(id, l) == [calls EXCEPT ![id] = l]

Removed(id) == [calls EXCEPT ![id] = NoLeg]

(* Mutant: the event is sent for the call looked up before the await. *)
NotifyLookedUp(id) == [l \in Legs |-> terminal[l] + IF callId[l] = id THEN 1 ELSE 0]

(* sendFollowUpEvent for whichever call registry.remove(id) returned. *)
NotifyRemoved(id) ==
    IF calls[id] = NoLeg THEN terminal ELSE [terminal EXCEPT ![calls[id]] = @ + 1]

-----------------------------------------------------------------------------
(* Inbound INVITEs. *)

AssertRunning == ~isStopping

(* handleInvite while draining (503), or no route for the destination (404). *)
RefuseInvite(l) ==
    /\ Alive
    /\ pc[l] = "Idle"
    /\ pc' = [pc EXCEPT ![l] = "Over"]
    /\ responses' = [responses EXCEPT ![l] = @ + 1]
    /\ UNCHANGED <<phase, conn, outbound, owner, callId, dialog, registryVars,
                   pendingVars, byes, dropping, undestroyed, terminal>>

(* An INVITE that has a route: its id is reserved and the owner is asked. *)
AdmitInvite(l, b, c) ==
    /\ Alive
    /\ pc[l] = "Idle"
    /\ ~isDraining
    /\ Connected(c)
    /\ \E id \in CallIds :
          /\ ReserveCallId(b, id)
          /\ callId' = [callId EXCEPT ![l] = id]
          /\ reservations' = reservations \union {id}
    /\ owner' = [owner EXCEPT ![l] = c]
    /\ pc' = [pc EXCEPT ![l] = "Deciding"]
    /\ UNCHANGED <<phase, conn, outbound, dialog, calls, responses, pendingVars,
                   byes, dropping, undestroyed, terminal>>

(* The owner rejects: its status is the final response. *)
RejectInvite(l) ==
    /\ Alive
    /\ pc[l] = "Deciding"
    /\ Connected(owner[l])
    /\ AssertRunning
    /\ pc' = [pc EXCEPT ![l] = "Over"]
    /\ responses' = [responses EXCEPT ![l] = @ + 1]
    /\ reservations' = reservations \ {callId[l]}
    /\ UNCHANGED <<phase, conn, outbound, owner, callId, dialog, calls, pendingVars,
                   byes, dropping, undestroyed, terminal>>

(* The owner accepts: createUAS sends the 200, or finds that the caller has *)
(* cancelled and is about to reject.                                       *)
AcceptInvite(l) ==
    /\ Alive
    /\ pc[l] = "Deciding"
    /\ Connected(owner[l])
    /\ AssertRunning
    /\ \/ /\ pc' = [pc EXCEPT ![l] = "Answering"]
          /\ responses' = [responses EXCEPT ![l] = @ + 1]
       \/ /\ pc' = [pc EXCEPT ![l] = "Cancelled"]
          /\ UNCHANGED responses
    /\ UNCHANGED <<phase, conn, outbound, owner, callId, dialog, registryVars,
                   pendingVars, byes, dropping, undestroyed, terminal>>

(* Mutant: the catch block always responds. *)
FinalResponseAgain(l) == [responses EXCEPT ![l] = @ + 1]

(* The catch block of handleAdmittedInvite: `if (!res.finalResponseSent)`. *)
FinalResponse(l) == [responses EXCEPT ![l] = IF @ = 0 THEN 1 ELSE @]

(* No usable decision: the owner disconnected or timed out, the HTTP request *)
(* failed, the action was invalid, or the gateway began to stop meanwhile.   *)
FailDecision(l) ==
    /\ Alive
    /\ pc[l] = "Deciding"
    /\ pc' = [pc EXCEPT ![l] = "Over"]
    /\ calls' = Removed(callId[l])
    /\ reservations' = reservations \ {callId[l]}
    /\ responses' = FinalResponse(l)
    /\ UNCHANGED <<phase, conn, outbound, owner, callId, dialog, pendingVars,
                   byes, dropping, undestroyed, terminal>>

(* createUAS rejects: no ACK for the 200, or the caller had cancelled. *)
FailAnswer(l) ==
    /\ Alive
    /\ pc[l] \in {"Answering", "Cancelled"}
    /\ pc' = [pc EXCEPT ![l] = "Over"]
    /\ calls' = Removed(callId[l])
    /\ reservations' = reservations \ {callId[l]}
    /\ responses' = FinalResponse(l)
    /\ terminal' = [terminal EXCEPT ![l] = @ + 1]
    /\ UNCHANGED <<phase, conn, outbound, owner, callId, dialog, pendingVars,
                   byes, dropping, undestroyed>>

(* createUAS resolves: the call becomes active and its dialog is bound. *)
AnswerInvite(l) ==
    /\ Alive
    /\ pc[l] = "Answering"
    /\ AssertRunning
    /\ pc' = [pc EXCEPT ![l] = "Bound"]
    /\ dialog' = [dialog EXCEPT ![l] = "Up"]
    /\ calls' = Activated(callId[l], l)
    /\ reservations' = reservations \ {callId[l]}
    /\ UNCHANGED <<phase, conn, outbound, owner, callId, responses, pendingVars,
                   byes, dropping, undestroyed, terminal>>

(* createUAS resolves after the gateway began to stop: destroy the dialog. *)
AnswerWhileStopping(l) ==
    /\ Alive
    /\ pc[l] = "Answering"
    /\ ~AssertRunning
    /\ pc' = [pc EXCEPT ![l] = "Aborting"]
    /\ dialog' = [dialog EXCEPT ![l] = "Up"]
    /\ calls' = Removed(callId[l])
    /\ reservations' = reservations \ {callId[l]}
    /\ UNCHANGED <<phase, conn, outbound, owner, callId, responses, pendingVars,
                   byes, dropping, undestroyed, terminal>>

(* The outcome of dialog.destroy: the far end confirms, or the request fails. *)
DestroyConfirmed(l) == dialog' = [dialog EXCEPT ![l] = "Down"] /\ UNCHANGED undestroyed
DestroyFailed(l)    == undestroyed' = undestroyed \union {l} /\ UNCHANGED dialog

(* destroyFailedInviteDialog returns; its error is only logged. *)
AbortSettled(l) ==
    /\ Alive
    /\ pc[l] = "Aborting"
    /\ pc' = [pc EXCEPT ![l] = "Over"]
    /\ responses' = FinalResponse(l)
    /\ terminal' = [terminal EXCEPT ![l] = @ + 1]
    /\ DestroyConfirmed(l) \/ DestroyFailed(l)
    /\ UNCHANGED <<phase, conn, outbound, owner, callId, registryVars, pendingVars,
                   byes, dropping>>

-----------------------------------------------------------------------------
(* Outbound calls.  A leg stands for its outboundAttemptId. *)

CreateOutbound(l, c) ==
    /\ Alive
    /\ pc[l] = "Idle"
    /\ ~isDraining
    /\ Connected(c)
    /\ outbound' = outbound \union {l}
    /\ owner' = [owner EXCEPT ![l] = c]
    /\ pc' = [pc EXCEPT ![l] = "Dialing"]
    /\ UNCHANGED <<phase, conn, callId, dialog, registryVars, responses, pendingVars,
                   byes, dropping, undestroyed, terminal>>

(* Mutant: cbRequest only stores the request. *)
NoDeferredCancel(l) == {}

(* The CANCEL that cbRequest owes when the cancel came before the request. *)
DeferredCancel(l) == {l} \intersect cancelRequested

(* cbRequest: the INVITE left, and the request can now be cancelled. *)
OutboundRequestSent(l) ==
    /\ Alive
    /\ pc[l] = "Dialing"
    /\ l \notin requestSent
    /\ requestSent' = requestSent \union {l}
    /\ cancelSent' = cancelSent \union DeferredCancel(l)
    /\ UNCHANGED <<phase, conn, pc, outbound, owner, callId, dialog, registryVars,
                   responses, cancelRequested, byes, dropping, undestroyed, terminal>>

(* What cancelOutbound does for a set of pending attempts. *)
Cancel(pending) ==
    /\ cancelRequested' = cancelRequested \union pending
    /\ cancelSent' = cancelSent \union ((pending \ cancelRequested) \intersect requestSent)
    /\ UNCHANGED requestSent

(* sip.cancelOutbound, by the connection (or the HTTP side) that owns it. *)
CancelOutbound(l, c) ==
    /\ l \in PendingOutbound
    /\ ~isStopping
    /\ Connected(c)
    /\ owner[l] = c
    /\ l \notin cancelRequested
    /\ Cancel({l})
    /\ UNCHANGED <<phase, conn, pc, outbound, owner, callId, dialog, registryVars,
                   responses, byes, dropping, undestroyed, terminal>>

(* createUAC rejects: busy, unreachable, or the CANCEL took effect. *)
FailOutbound(l) ==
    /\ Alive
    /\ pc[l] = "Dialing"
    /\ pc' = [pc EXCEPT ![l] = "Over"]
    /\ UNCHANGED <<phase, conn, outbound, owner, callId, dialog, registryVars,
                   responses, pendingVars, byes, dropping, undestroyed, terminal>>

(* Mutant: a cancel that lost the race with the answer is forgotten. *)
HangUpOnlyWhenStopping(l) == isStopping

(* `pending.cancelRequested || lifecycle.isStopping` after createUAC. *)
MustHangUp(l) == l \in cancelRequested \/ isStopping

(* createUAC resolves and the call is still wanted: reserve and activate. *)
AnswerOutbound(l, b) ==
    /\ Alive
    /\ pc[l] = "Dialing"
    /\ l \in requestSent
    /\ ~MustHangUp(l)
    /\ \E id \in CallIds :
          /\ ReserveCallId(b, id)
          /\ callId' = [callId EXCEPT ![l] = id]
          /\ calls' = Activated(id, l)
    /\ pc' = [pc EXCEPT ![l] = "Bound"]
    /\ dialog' = [dialog EXCEPT ![l] = "Up"]
    /\ UNCHANGED <<phase, conn, outbound, owner, reservations, responses, pendingVars,
                   byes, dropping, undestroyed, terminal>>

(* createUAC resolves although the attempt was cancelled, or too late. *)
AnswerUnwanted(l) ==
    /\ Alive
    /\ pc[l] = "Dialing"
    /\ l \in requestSent
    /\ MustHangUp(l)
    /\ pc' = [pc EXCEPT ![l] = "HangingUp"]
    /\ dialog' = [dialog EXCEPT ![l] = "Up"]
    /\ UNCHANGED <<phase, conn, outbound, owner, callId, registryVars, responses,
                   pendingVars, byes, dropping, undestroyed, terminal>>

HangUpSettled(l) ==
    /\ Alive
    /\ pc[l] = "HangingUp"
    /\ pc' = [pc EXCEPT ![l] = "Over"]
    /\ DestroyConfirmed(l) \/ DestroyFailed(l)
    /\ UNCHANGED <<phase, conn, outbound, owner, callId, registryVars, responses,
                   pendingVars, byes, dropping, terminal>>

-----------------------------------------------------------------------------
(* Hanging up an active call. *)

(* The dialog's 'destroy' event: the far end hung up. *)
RemoteHangUp(l) ==
    /\ Alive
    /\ pc[l] = "Bound"
    /\ dialog[l] = "Up"
    /\ dialog' = [dialog EXCEPT ![l] = "Down"]
    /\ calls' = Removed(callId[l])
    /\ terminal' = NotifyRemoved(callId[l])
    /\ UNCHANGED <<phase, conn, pc, outbound, owner, callId, reservations, responses,
                   pendingVars, byes, dropping, undestroyed>>

Found(id) == calls[id] # NoLeg

(* bye(callId): the call is looked up, then dialog.destroy is awaited. *)
RequestBye(r, id) ==
    /\ ~isStopping
    /\ \A l \in Legs : <<r, l>> \notin byes
    /\ Found(id)
    /\ byes' = byes \union {<<r, calls[id]>>}
    /\ UNCHANGED <<phase, conn, pc, outbound, owner, callId, dialog, registryVars,
                   responses, pendingVars, dropping, undestroyed, terminal>>

(* destroy succeeded: the registry entry is removed by id, whoever holds it. *)
ByeConfirmed(b) ==
    /\ Alive
    /\ b \in byes
    /\ LET l == b[2] IN
          /\ dialog' = [dialog EXCEPT ![l] = "Down"]
          /\ calls' = Removed(callId[l])
          /\ terminal' = NotifyRemoved(callId[l])
    /\ byes' = byes \ {b}
    /\ UNCHANGED <<phase, conn, pc, outbound, owner, callId, reservations, responses,
                   pendingVars, dropping, undestroyed>>

(* Mutant: a call whose BYE failed is given up like one that ended. *)
GivesUp(b) ==
    /\ Alive
    /\ b \in byes
    /\ calls' = Removed(callId[b[2]])
    /\ terminal' = NotifyRemoved(callId[b[2]])
    /\ byes' = byes \ {b}
    /\ UNCHANGED <<phase, conn, pc, outbound, owner, callId, dialog, reservations, responses,
                   pendingVars, dropping, undestroyed>>

(* destroy failed: bye() throws and the call stays in the registry. *)
ByeFailed(b) ==
    /\ Alive
    /\ b \in byes
    /\ byes' = byes \ {b}
    /\ UNCHANGED <<phase, conn, pc, outbound, owner, callId, dialog, registryVars,
                   responses, pendingVars, dropping, undestroyed, terminal>>

-----------------------------------------------------------------------------
(* Control connections. *)

Connect(c) ==
    /\ conn[c] = "New"
    /\ ~isDraining
    /\ conn' = [conn EXCEPT ![c] = "Open"]
    /\ UNCHANGED <<phase, pc, outbound, owner, callId, dialog, registryVars, responses,
                   pendingVars, byes, dropping, undestroyed, terminal>>

(* Mutant: only established calls are torn down with their owner. *)
NoOwnedPending(c) == {}

OwnedPending(c) == {l \in PendingOutbound : owner[l] = c}
OwnedCalls(c)   == {l \in LegsIn(calls) : owner[l] = c}

(* Mutant: the calls leave the registry and their dialogs stay up. *)
ForgetsToDestroy(c) ==
    /\ Cancel(OwnedPending(c))
    /\ calls' = [id \in CallIds |-> IF calls[id] \in OwnedCalls(c) THEN NoLeg ELSE calls[id]]
    /\ UNCHANGED dropping

(* terminateCallsForControlConnection, run by the hub's 'disconnect' event. *)
TerminateCallsForControlConnection(c) ==
    /\ Cancel(OwnedPending(c))
    /\ calls' = [id \in CallIds |-> IF calls[id] \in OwnedCalls(c) THEN NoLeg ELSE calls[id]]
    /\ dropping' = dropping \union OwnedCalls(c)

Disconnect(c) ==
    /\ Alive
    /\ conn[c] = "Open"
    /\ conn' = [conn EXCEPT ![c] = "Gone"]
    /\ TerminateCallsForControlConnection(c)
    /\ UNCHANGED <<phase, pc, outbound, owner, callId, dialog, reservations, responses,
                   byes, undestroyed, terminal>>

(* The destroy of an owned call returns; a failure is only logged. *)
DropSettled(l) ==
    /\ Alive
    /\ l \in dropping
    /\ dropping' = dropping \ {l}
    /\ \/ DestroyConfirmed(l) /\ terminal' = [terminal EXCEPT ![l] = @ + 1]
       \/ DestroyFailed(l) /\ UNCHANGED terminal
    /\ UNCHANGED <<phase, conn, pc, outbound, owner, callId, registryVars, responses,
                   pendingVars, byes>>

-----------------------------------------------------------------------------
(* Drain, stop and exit. *)

Drain ==
    /\ phase = "Accepting"
    /\ phase' = "Draining"
    /\ UNCHANGED <<conn, pc, outbound, owner, callId, dialog, registryVars, responses,
                   pendingVars, byes, dropping, undestroyed, terminal>>

(* Mutant: the drain poll only looks at the registry. *)
IgnoresPendingOperations == TRUE

(* pendingOperations = 0: no tracked handler or teardown is running.  A      *)
(* hang-up command may be: it stops counting when its HTTP client goes away. *)
NoPendingOperations == PendingInbound \union PendingOutbound = {} /\ dropping = {}

(* registry.size + registry.pendingCount = 0 *)
NoActiveResources == LegsIn(calls) = {} /\ reservations = {}

(* DrachtioGateway.shutdown up to its await. *)
Shutdown ==
    /\ responses' = [l \in Legs |-> IF l \in PendingInbound /\ responses[l] = 0
                                    THEN 1 ELSE responses[l]]
    /\ reservations' = reservations \ {callId[l] : l \in PendingInbound}
    /\ Cancel(PendingOutbound)
    /\ byes' = byes \union ({"shutdown"} \X LegsIn(calls))

Stop ==
    /\ phase' = "Stopping"
    /\ Shutdown
    /\ UNCHANGED <<conn, pc, outbound, owner, callId, dialog, calls, dropping,
                   undestroyed, terminal>>

QuietStop == phase = "Draining" /\ NoPendingOperations /\ NoActiveResources /\ Stop

DeadlineStop == phase = "Draining" /\ Stop

(* shutdown's Promise.allSettled, or SHUTDOWN_CLEANUP_TIMEOUT_MS: exit(0). *)
CleanupSettled == PendingOutbound = {} /\ \A l \in Legs : <<"shutdown", l>> \notin byes

Exit ==
    /\ phase = "Stopping"
    /\ phase' = "Exited"
    /\ UNCHANGED <<conn, pc, outbound, owner, callId, dialog, registryVars, responses,
                   pendingVars, byes, dropping, undestroyed, terminal>>

CleanExit   == CleanupSettled /\ Exit
TimeoutExit == Exit

-----------------------------------------------------------------------------
Init ==
    /\ phase = "Accepting"
    /\ conn = [c \in Conns |-> "New"]
    /\ pc = [l \in Legs |-> "Idle"]
    /\ outbound = {}
    /\ owner = [l \in Legs |-> NoConn]
    /\ callId = [l \in Legs |-> NoId]
    /\ dialog = [l \in Legs |-> "None"]
    /\ calls = [id \in CallIds |-> NoLeg]
    /\ reservations = {}
    /\ responses = [l \in Legs |-> 0]
    /\ cancelRequested = {}
    /\ requestSent = {}
    /\ cancelSent = {}
    /\ byes = {}
    /\ dropping = {}
    /\ undestroyed = {}
    /\ terminal = [l \in Legs |-> 0]

InboundStep(l) ==
    \/ RefuseInvite(l)
    \/ \E b \in Bases, c \in Owners : AdmitInvite(l, b, c)
    \/ RejectInvite(l)
    \/ AcceptInvite(l)
    \/ FailDecision(l)
    \/ FailAnswer(l)
    \/ AnswerInvite(l)
    \/ AnswerWhileStopping(l)
    \/ AbortSettled(l)

(* createUAC settles. *)
SettleOutbound(l) ==
    \/ FailOutbound(l)
    \/ \E b \in Bases : AnswerOutbound(l, b)
    \/ AnswerUnwanted(l)

OutboundStep(l) ==
    \/ \E c \in Owners : CreateOutbound(l, c) \/ CancelOutbound(l, c)
    \/ OutboundRequestSent(l)
    \/ SettleOutbound(l)
    \/ HangUpSettled(l)

ByeStep ==
    \/ \E r \in Requests, id \in CallIds : RequestBye(r, id)
    \/ \E b \in byes : ByeConfirmed(b) \/ ByeFailed(b)

ConnStep == \E c \in Conns : Connect(c) \/ Disconnect(c)

LifecycleStep == Drain \/ QuietStop \/ DeadlineStop \/ CleanExit \/ TimeoutExit

(* Once the process has exited nothing happens. *)
Terminated == phase = "Exited" /\ UNCHANGED vars

Next ==
    \/ \E l \in Legs : InboundStep(l) \/ OutboundStep(l) \/ RemoteHangUp(l) \/ DropSettled(l)
    \/ ByeStep
    \/ ConnStep
    \/ LifecycleStep
    \/ Terminated

Spec == Init /\ [][Next]_vars

-----------------------------------------------------------------------------
(* Type invariant. *)
TypeOK ==
    /\ phase \in {"Accepting", "Draining", "Stopping", "Exited"}
    /\ conn \in [Conns -> {"New", "Open", "Gone"}]
    /\ pc \in [Legs -> PCs]
    /\ outbound \subseteq Legs
    /\ owner \in [Legs -> Owners]
    /\ callId \in [Legs -> CallIds \union {NoId}]
    /\ dialog \in [Legs -> {"None", "Up", "Down"}]
    /\ calls \in [CallIds -> Legs \union {NoLeg}]
    /\ reservations \subseteq CallIds
    /\ responses \in [Legs -> Nat]
    /\ cancelRequested \subseteq Legs
    /\ requestSent \subseteq Legs
    /\ cancelSent \subseteq Legs
    /\ byes \subseteq (Requests \union {"shutdown"}) \X Legs
    /\ dropping \subseteq Legs
    /\ undestroyed \subseteq Legs
    /\ terminal \in [Legs -> Nat]

InSetup(l) == pc[l] \in {"Deciding", "Answering", "Cancelled"}

(* A call id names one thing.  An active call is found under its own id;    *)
(* until the gateway stops an INVITE in setup holds its id as a reservation *)
(* that no other INVITE and no call shares; and the registry.remove(callId) *)
(* of a failing INVITE never removes somebody else's call.                  *)
CallIdNamesOneLeg ==
    /\ \A id \in CallIds : calls[id] # NoLeg =>
          /\ pc[calls[id]] = "Bound"
          /\ callId[calls[id]] = id
          /\ id \notin reservations
    /\ \A l \in Legs : InSetup(l) =>
          /\ calls[callId[l]] = NoLeg
          /\ callId[l] \in reservations \/ isStopping
    /\ \A l, m \in Legs : InSetup(l) /\ InSetup(m) /\ callId[l] = callId[m] => l = m

(* Whatever order decision, answer, failure and shutdown come in, an INVITE *)
(* gets at most one final response, and its handler never ends without one. *)
OneFinalResponse ==
    \A l \in Legs \ outbound :
        /\ responses[l] <= 1
        /\ pc[l] \in {"Answering", "Aborting", "Bound", "Over"} => responses[l] = 1

(* The owner hears of the end of a call exactly once: not while the call is *)
(* active or its teardown is awaited, and once it has left the registry, be *)
(* it by a hang-up on either side, by both at once or by a teardown.  Only a*)
(* teardown whose destroy fails is silent.                                  *)
TerminalEventExactlyOnce ==
    \A l \in Legs :
        /\ terminal[l] <= 1
        /\ pc[l] = "Bound" =>
              (terminal[l] = 0 <=> l \in LegsIn(calls) \union dropping \union undestroyed)

(* A control connection that goes away takes its outbound calls with it,    *)
(* those still being dialled included: none is active afterwards.           *)
OutboundCallHasOwner ==
    \A l \in LegsIn(calls) \intersect outbound : Connected(owner[l])

(* The same for every call: "calls cannot remain alive without an           *)
(* application owner".  Stated for moments when no handler, command or      *)
(* teardown is running, so that nothing is left that could still end it.    *)
CallHasOwner ==
    NoPendingOperations /\ byes = {} => \A l \in LegsIn(calls) : Connected(owner[l])

(* A cancelled attempt never becomes a call, and the far end is told as soon*)
(* as there is a request to cancel, whichever of the two came first.        *)
CancelTakesEffect ==
    /\ \A l \in cancelRequested : pc[l] # "Bound"
    /\ cancelRequested \intersect requestSent \subseteq cancelSent

(* Every dialog that is up is in the registry or somebody is ending it; only*)
(* one whose destroy failed is given up.                                    *)
NoForgottenDialog ==
    \A l \in Legs : dialog[l] = "Up" =>
        \/ l \in LegsIn(calls) \union dropping \union undestroyed
        \/ pc[l] \in {"Aborting", "HangingUp"}

(* "`sip.terminated`: Sent when a SIP dialog is terminated." *)
TerminatedMeansDown ==
    \A l \in Legs : terminal[l] > 0 /\ l \notin undestroyed => dialog[l] # "Up"

(* Once the gateway is stopping no handler that resumes from its await adds *)
(* a call to the registry: shutdown has already hung up every call it saw.  *)
NoActivationAfterStop ==
    [][isStopping => LegsIn(calls') \subseteq LegsIn(calls)]_vars

(* A drain that ends before its deadline cuts nobody off: at that moment no *)
(* dialog is up but those whose destroy failed.                             *)
QuietStopCutsNobodyOff ==
    [][QuietStop => \A l \in Legs : dialog[l] = "Up" => l \in undestroyed]_vars

-----------------------------------------------------------------------------
(* The promise of CallPromise, seen through the registry. *)

PromisedStage(l) ==
    CASE pc[l] = "Idle" -> "None"
      [] pc[l] \in {"Deciding", "Answering", "Cancelled", "Dialing"} -> "Setup"
      [] pc[l] = "Bound" /\ l \in LegsIn(calls) -> "Active"
      [] OTHER -> "Over"

Promise == INSTANCE CallPromise WITH
    mode <- IF isStopping THEN "Stopped" ELSE phase,
    stage <- [l \in Legs |-> PromisedStage(l)],
    withdrawn <- cancelRequested

(* Every step of the gateway is a step of the promise or leaves it alone.   *)
KeepsPromise == Promise!Spec

-----------------------------------------------------------------------------
(* Fairness.  drachtio settles every createUAC and every dialog.destroy, by *)
(* a response or by a SIP timer.                                            *)
Fairness ==
    \A l \in Legs :
        /\ WF_vars(SettleOutbound(l))
        /\ WF_vars(HangUpSettled(l))
        /\ WF_vars(DropSettled(l))

(* An outbound leg whose owner has gone is over before long, even if it was *)
(* answered at the same moment: its dialog ends, unless ending it failed.   *)
OwnerGoneEndsOutbound ==
    \A l \in Legs, c \in Conns :
        conn[c] = "Gone" /\ l \in outbound /\ owner[l] = c
            ~> \/ phase = "Exited"
               \/ pc[l] \in {"Bound", "Over"} /\ (dialog[l] # "Up" \/ l \in undestroyed)
=============================================================================
