-------------------------------- MODULE CallSdp --------------------------------
(***************************************************************************)
(* Re-INVITEs and the SDP a call is recorded with, superposed on           *)
(* SipGateway.  A re-INVITE of the application (reinvite) looks its call up *)
(* by id and awaits dialog.modify; one of the far end (handleRemoteModify)  *)
(* looks the call of its dialog up by id and awaits the decision of that    *)
(* call's application.  Both then hand the SDP to CallRegistry.updateSdp,   *)
(* which looks the id up again, whatever became of the call meanwhile.      *)
(*                                                                         *)
(* An SDP is the re-INVITE that negotiated it, or NoReinvite for the one    *)
(* the call was set up with; localSdp and remoteSdp are recorded as one,    *)
(* and a re-INVITE that carries no offer is left out.                       *)
(***************************************************************************)
EXTENDS SipGateway

CONSTANTS
    Reinvites,     \* re-INVITE transactions, of either side
    NoReinvite     \* the INVITE that set the call up

ASSUME ReinviteAssumption == NoReinvite \notin Reinvites

VARIABLES
    reinvite,      \* [Reinvites -> [pc, dialog, callId, call]]
    recorded,      \* localSdp and remoteSdp of each ActiveCall
    agreed         \* history: the last SDP accepted on each dialog

sdpVars == <<reinvite, recorded, agreed>>
callVars == <<vars, sdpVars>>

(* CallRegistry.updateSdp: whichever call the id names now is updated. *)
UpdatedSdp(id, m) == IF Found(id) THEN [recorded EXCEPT ![calls[id]] = m] ELSE recorded

(* The re-INVITE m was answered 200. *)
Accepted(m) ==
    /\ reinvite' = [reinvite EXCEPT ![m].pc = "over"]
    /\ agreed' = [agreed EXCEPT ![reinvite[m].dialog] = m]
    /\ recorded' = UpdatedSdp(reinvite[m].callId, m)
    /\ UNCHANGED vars

Refused(m) ==
    /\ reinvite' = [reinvite EXCEPT ![m].pc = "over"]
    /\ UNCHANGED <<vars, recorded, agreed>>

-----------------------------------------------------------------------------
(* Re-INVITEs of the application. *)

(* reinvite(callId): the call is looked up, then dialog.modify is awaited. *)
Reinvite(m, id) ==
    /\ ~isStopping
    /\ reinvite[m].pc = "none"
    /\ Found(id)
    /\ reinvite' = [reinvite EXCEPT ![m] = [pc |-> "sent", dialog |-> calls[id],
                                            callId |-> id, call |-> calls[id]]]
    /\ UNCHANGED <<vars, recorded, agreed>>

ModifyDone(m)  == Alive /\ reinvite[m].pc = "sent" /\ Accepted(m)
ModifyFails(m) == Alive /\ reinvite[m].pc = "sent" /\ Refused(m)

-----------------------------------------------------------------------------
(* Re-INVITEs of the far end. *)

RemoteModify(m, l) ==
    /\ Alive
    /\ pc[l] = "Bound"
    /\ dialog[l] = "Up"
    /\ reinvite[m].pc = "none"
    /\ UNCHANGED <<vars, agreed>>

Asks(m, l) == [reinvite EXCEPT ![m] = [pc |-> "asked", dialog |-> l,
                                       callId |-> callId[l], call |-> calls[callId[l]]]]

(* Mutant: the offer is recorded before the application has accepted it. *)
RecordsTheOffer(m, l) ==
    /\ RemoteModify(m, l)
    /\ Found(callId[l])
    /\ Connected(owner[calls[callId[l]]])
    /\ reinvite' = Asks(m, l)
    /\ recorded' = UpdatedSdp(callId[l], m)

(* The application of the call found is asked. *)
AskOwner(m, l) ==
    /\ RemoteModify(m, l)
    /\ Found(callId[l])
    /\ Connected(owner[calls[callId[l]]])
    /\ reinvite' = Asks(m, l)
    /\ UNCHANGED recorded

(* 481 if no call has the id, an error if its control connection is gone. *)
RefuseModify(m, l) ==
    /\ RemoteModify(m, l)
    /\ Found(callId[l]) => ~Connected(owner[calls[callId[l]]])
    /\ reinvite' = [reinvite EXCEPT ![m].pc = "over"]
    /\ UNCHANGED recorded

(* The application answers, or it rejects, times out or fails. *)
OwnerAccepts(m) == Alive /\ reinvite[m].pc = "asked" /\ Accepted(m)
OwnerRefuses(m) == Alive /\ reinvite[m].pc = "asked" /\ Refused(m)

(* The hub rejects what a connection that closes has not answered. *)
Unanswered ==
    {m \in Reinvites : reinvite[m].pc = "asked"
                          /\ \E c \in Conns : owner[reinvite[m].call] = c /\ conn'[c] # "Open"}

GatewayStep ==
    /\ Next
    /\ reinvite' = [m \in Reinvites |-> IF m \in Unanswered THEN [reinvite[m] EXCEPT !.pc = "over"]
                                                            ELSE reinvite[m]]
    /\ UNCHANGED <<recorded, agreed>>

-----------------------------------------------------------------------------
SdpInit ==
    /\ Init
    /\ reinvite = [m \in Reinvites |-> [pc |-> "none", dialog |-> NoLeg,
                                        callId |-> NoId, call |-> NoLeg]]
    /\ recorded = [l \in Legs |-> NoReinvite]
    /\ agreed = [l \in Legs |-> NoReinvite]

ReinviteNext(m) ==
    \/ \E id \in CallIds : Reinvite(m, id)
    \/ ModifyDone(m) \/ ModifyFails(m)
    \/ \E l \in Legs : AskOwner(m, l) \/ RefuseModify(m, l)
    \/ OwnerAccepts(m) \/ OwnerRefuses(m)

SdpNext == GatewayStep \/ \E m \in Reinvites : ReinviteNext(m)

SdpSpec == SdpInit /\ [][SdpNext]_callVars

FairSdpSpec == SdpSpec /\ Fairness

-----------------------------------------------------------------------------
(* The types of the variables of this module. *)
SdpTypeOK ==
    /\ reinvite \in [Reinvites -> [pc : {"none", "sent", "asked", "over"},
                                   dialog : Legs \union {NoLeg},
                                   callId : CallIds \union {NoId},
                                   call : Legs \union {NoLeg}]]
    /\ recorded \in [Legs -> Reinvites \union {NoReinvite}]
    /\ agreed \in [Legs -> Reinvites \union {NoReinvite}]

(* The SDP an active call is recorded with is the one its two ends use: the  *)
(* last that was accepted on its own dialog, by the far end or by the        *)
(* application.  A re-INVITE that is refused, or that is answered after its  *)
(* call has ended and left the registry, changes the record of no call.      *)
RecordedSdpIsAgreed ==
    \A l \in LegsIn(calls) : recorded[l] = agreed[l]

(* A re-INVITE of the far end is put to the application of its own call, and *)
(* waits only as long as that application can answer: not once its control   *)
(* connection is gone.                                                       *)
ReinviteAsksItsOwner ==
    \A m \in Reinvites : reinvite[m].pc = "asked" =>
        /\ reinvite[m].call = reinvite[m].dialog
        /\ Connected(owner[reinvite[m].dialog])

(* A re-INVITE is the affair of the call on whose dialog it comes or goes,   *)
(* although the code finds that call by its id, before and again after an    *)
(* await: its application is asked, and its SDP is the one that is updated.  *)
ReinvitesConcernTheirCall == RecordedSdpIsAgreed /\ ReinviteAsksItsOwner
=============================================================================
