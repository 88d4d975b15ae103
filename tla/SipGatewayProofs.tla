------------------------- MODULE SipGatewayProofs -------------------------
(***************************************************************************)
(* Proofs about SipGateway, for every set of legs, connections, call ids   *)
(* and requests, and about CallSdp, for every set of re-INVITEs.           *)
(***************************************************************************)
EXTENDS CallSdp, TLAPS

(* The id that ReserveCallId returns is neither active nor reserved, so a *)
(* handler that takes it takes it from nobody.                            *)
LEMMA ReservedIdIsFree ==
    ASSUME NEW b \in Bases, NEW id, ReserveCallId(b, id)
    PROVE  id \in CallIds /\ calls[id] = NoLeg /\ id \notin reservations
  BY ConstantsAssumption DEF ReserveCallId, Taken

(* Counting one more response or event keeps a counter a function into *)
(* Nat.                                                                *)
LEMMA OneMoreIsNat ==
    ASSUME NEW S, NEW f \in [S -> Nat], NEW x
    PROVE  [f EXCEPT ![x] = @ + 1] \in [S -> Nat]
<1>1. CASE x \in S
  BY <1>1
<1>2. CASE x \notin S
  BY <1>2
<1>3. QED
  BY <1>1, <1>2

(* Every handler, however their awaits interleave, leaves the registry,   *)
(* the pending sets, the connections and the counters within their types. *)
THEOREM TypeCorrect == Spec => []TypeOK
<1>1. Init => TypeOK
  BY DEF Init, TypeOK, PCs, Owners
<1>2. TypeOK /\ [Next]_vars => TypeOK'
  <2> SUFFICES ASSUME TypeOK, [Next]_vars PROVE TypeOK'
    OBVIOUS
  <2> USE ConstantsAssumption DEF TypeOK, PCs, Owners, registryVars, pendingVars
  <2>1. ASSUME NEW l \in Legs, RefuseInvite(l)
        PROVE  TypeOK'
    BY <2>1 DEF RefuseInvite
  <2>2. ASSUME NEW l \in Legs, NEW b \in Bases, NEW c \in Owners, AdmitInvite(l, b, c)
        PROVE  TypeOK'
    BY <2>2, ReservedIdIsFree DEF AdmitInvite
  <2>3. ASSUME NEW l \in Legs, RejectInvite(l)
        PROVE  TypeOK'
    BY <2>3 DEF RejectInvite
  <2>4. ASSUME NEW l \in Legs, AcceptInvite(l)
        PROVE  TypeOK'
    <3>1. responses' \in [Legs -> Nat]
      BY <2>4, OneMoreIsNat DEF AcceptInvite
    <3>2. pc' \in [Legs -> PCs]
      <4>1. CASE pc' = [pc EXCEPT ![l] = "Answering"]
        BY <4>1
      <4>2. CASE pc' = [pc EXCEPT ![l] = "Cancelled"]
        BY <4>2
      <4>3. QED
        BY <4>1, <4>2, <2>4 DEF AcceptInvite
    <3>3. UNCHANGED <<phase, conn, outbound, owner, callId, dialog, calls, reservations,
                      cancelRequested, requestSent, cancelSent, byes, dropping, undestroyed,
                      terminal>>
      BY <2>4 DEF AcceptInvite
    <3>4. QED
      BY <3>1, <3>2, <3>3
  <2>5. ASSUME NEW l \in Legs, FailDecision(l)
        PROVE  TypeOK'
    BY <2>5 DEF FailDecision, Removed, FinalResponse
  <2>6. ASSUME NEW l \in Legs, FailAnswer(l)
        PROVE  TypeOK'
    <3>1. terminal' \in [Legs -> Nat]
      BY <2>6, OneMoreIsNat DEF FailAnswer, Removed, FinalResponse
    <3>2. QED
      BY <3>1, <2>6 DEF FailAnswer, Removed, FinalResponse
  <2>7. ASSUME NEW l \in Legs, AnswerInvite(l)
        PROVE  TypeOK'
    BY <2>7 DEF AnswerInvite, Activated
  <2>8. ASSUME NEW l \in Legs, AnswerWhileStopping(l)
        PROVE  TypeOK'
    BY <2>8 DEF AnswerWhileStopping, Removed
  <2>9. ASSUME NEW l \in Legs, AbortSettled(l)
        PROVE  TypeOK'
    BY <2>9 DEF AbortSettled, FinalResponse, DestroyConfirmed, DestroyFailed
  <2>10. ASSUME NEW l \in Legs, NEW c \in Owners, CreateOutbound(l, c)
        PROVE  TypeOK'
    BY <2>10 DEF CreateOutbound
  <2>11. ASSUME NEW l \in Legs, NEW c \in Owners, CancelOutbound(l, c)
        PROVE  TypeOK'
    BY <2>11 DEF CancelOutbound, Cancel
  <2>12. ASSUME NEW l \in Legs, OutboundRequestSent(l)
        PROVE  TypeOK'
    BY <2>12 DEF OutboundRequestSent, DeferredCancel
  <2>13. ASSUME NEW l \in Legs, FailOutbound(l)
        PROVE  TypeOK'
    BY <2>13 DEF FailOutbound
  <2>14. ASSUME NEW l \in Legs, NEW b \in Bases, AnswerOutbound(l, b)
        PROVE  TypeOK'
    BY <2>14, ReservedIdIsFree DEF AnswerOutbound, Activated
  <2>15. ASSUME NEW l \in Legs, AnswerUnwanted(l)
        PROVE  TypeOK'
    BY <2>15 DEF AnswerUnwanted
  <2>16. ASSUME NEW l \in Legs, HangUpSettled(l)
        PROVE  TypeOK'
    BY <2>16 DEF HangUpSettled, DestroyConfirmed, DestroyFailed
  <2>17. ASSUME NEW l \in Legs, RemoteHangUp(l)
        PROVE  TypeOK'
    <3>1. terminal' \in [Legs -> Nat]
      BY <2>17, OneMoreIsNat DEF RemoteHangUp, Removed, NotifyRemoved
    <3>2. QED
      BY <3>1, <2>17 DEF RemoteHangUp, Removed, NotifyRemoved
  <2>18. ASSUME NEW l \in Legs, DropSettled(l)
        PROVE  TypeOK'
    <3>1. terminal' \in [Legs -> Nat]
      BY <2>18, OneMoreIsNat DEF DropSettled, DestroyConfirmed, DestroyFailed
    <3>2. QED
      BY <3>1, <2>18 DEF DropSettled, DestroyConfirmed, DestroyFailed
  <2>19. ASSUME NEW r \in Requests, NEW id \in CallIds, RequestBye(r, id)
        PROVE  TypeOK'
    BY <2>19 DEF RequestBye, Found
  <2>20. ASSUME NEW b \in byes, ByeConfirmed(b)
        PROVE  TypeOK'
    <3>1. terminal' \in [Legs -> Nat]
      BY <2>20, OneMoreIsNat DEF ByeConfirmed, Removed, NotifyRemoved
    <3>2. QED
      BY <3>1, <2>20 DEF ByeConfirmed, Removed, NotifyRemoved
  <2>21. ASSUME NEW b \in byes, ByeFailed(b)
        PROVE  TypeOK'
    BY <2>21 DEF ByeFailed
  <2>22. ASSUME NEW c \in Conns, Connect(c)
        PROVE  TypeOK'
    BY <2>22 DEF Connect
  <2>23. ASSUME NEW c \in Conns, Disconnect(c)
        PROVE  TypeOK'
    BY <2>23 DEF Disconnect, TerminateCallsForControlConnection, Cancel, LegsIn, OwnedCalls, OwnedPending, PendingOutbound
  <2>24. ASSUME Drain
        PROVE  TypeOK'
    BY <2>24 DEF Drain
  <2>25. ASSUME Stop
        PROVE  TypeOK'
    BY <2>25 DEF Stop, Shutdown, Cancel, LegsIn, PendingInbound, PendingOutbound
  <2>26. ASSUME Exit
        PROVE  TypeOK'
    BY <2>26 DEF Exit
  <2>27. CASE UNCHANGED vars
    BY <2>27 DEF vars
  <2>28. QED
    BY <2>1, <2>2, <2>3, <2>4, <2>5, <2>6, <2>7, <2>8, <2>9, <2>10, <2>11, <2>12, <2>13, <2>14, <2>15, <2>16, <2>17, <2>18, <2>19, <2>20, <2>21, <2>22, <2>23, <2>24, <2>25, <2>26, <2>27 DEF Next, InboundStep, OutboundStep, SettleOutbound, ByeStep, ConnStep, LifecycleStep, QuietStop, DeadlineStop, CleanExit, TimeoutExit, Terminated
<1>3. QED
  BY <1>1, <1>2, PTL DEF Spec

-----------------------------------------------------------------------------
(* A leg that has an id keeps it; this makes CallIdNamesOneLeg inductive. *)
HandledLegHasId ==
    \A l \in Legs : pc[l] \in {"Deciding", "Answering", "Cancelled", "Bound"} => callId[l] \in CallIds

RegistryInv == CallIdNamesOneLeg /\ HandledLegHasId

(* CallIdNamesOneLeg strengthened to an inductive invariant. *)
LEMMA RegistryInvariant == Spec => []RegistryInv
<1>1. Init => RegistryInv
  BY ConstantsAssumption DEF Init, RegistryInv, CallIdNamesOneLeg, HandledLegHasId, InSetup
<1>2. TypeOK /\ RegistryInv /\ [Next]_vars => RegistryInv'
  <2> SUFFICES ASSUME TypeOK, RegistryInv, [Next]_vars PROVE RegistryInv'
    OBVIOUS
  <2> USE ConstantsAssumption DEF TypeOK, PCs, RegistryInv, CallIdNamesOneLeg, HandledLegHasId,
          InSetup, isStopping, registryVars, pendingVars
  <2>1. ASSUME NEW l \in Legs, RefuseInvite(l)
        PROVE  RegistryInv'
    BY <2>1 DEF RefuseInvite
  <2>2. ASSUME NEW l \in Legs, NEW b \in Bases, NEW c \in Owners, AdmitInvite(l, b, c)
        PROVE  RegistryInv'
    BY <2>2, ReservedIdIsFree DEF AdmitInvite, isDraining
  <2>3. ASSUME NEW l \in Legs, RejectInvite(l)
        PROVE  RegistryInv'
    BY <2>3 DEF RejectInvite
  <2>4. ASSUME NEW l \in Legs, AcceptInvite(l)
        PROVE  RegistryInv'
    <3>1. CASE pc' = [pc EXCEPT ![l] = "Answering"]
      BY <3>1, <2>4 DEF AcceptInvite
    <3>2. CASE pc' = [pc EXCEPT ![l] = "Cancelled"]
      BY <3>2, <2>4 DEF AcceptInvite
    <3>3. QED
      BY <3>1, <3>2, <2>4 DEF AcceptInvite
  <2>5. ASSUME NEW l \in Legs, FailDecision(l)
        PROVE  RegistryInv'
    BY <2>5 DEF FailDecision, Removed, FinalResponse
  <2>6. ASSUME NEW l \in Legs, FailAnswer(l)
        PROVE  RegistryInv'
    BY <2>6 DEF FailAnswer, Removed, FinalResponse
  <2>7. ASSUME NEW l \in Legs, AnswerInvite(l)
        PROVE  RegistryInv'
    BY <2>7 DEF AnswerInvite, Activated, AssertRunning
  <2>8. ASSUME NEW l \in Legs, AnswerWhileStopping(l)
        PROVE  RegistryInv'
    BY <2>8 DEF AnswerWhileStopping, Removed
  <2>9. ASSUME NEW l \in Legs, AbortSettled(l)
        PROVE  RegistryInv'
    BY <2>9 DEF AbortSettled, FinalResponse, DestroyConfirmed, DestroyFailed
  <2>10. ASSUME NEW l \in Legs, NEW c \in Owners, CreateOutbound(l, c)
        PROVE  RegistryInv'
    BY <2>10 DEF CreateOutbound, isDraining
  <2>11. ASSUME NEW l \in Legs, NEW c \in Owners, CancelOutbound(l, c)
        PROVE  RegistryInv'
    BY <2>11 DEF CancelOutbound, Cancel
  <2>12. ASSUME NEW l \in Legs, OutboundRequestSent(l)
        PROVE  RegistryInv'
    BY <2>12 DEF OutboundRequestSent, DeferredCancel
  <2>13. ASSUME NEW l \in Legs, FailOutbound(l)
        PROVE  RegistryInv'
    BY <2>13 DEF FailOutbound
  <2>14. ASSUME NEW l \in Legs, NEW b \in Bases, AnswerOutbound(l, b)
        PROVE  RegistryInv'
    BY <2>14, ReservedIdIsFree DEF AnswerOutbound, Activated, MustHangUp
  <2>15. ASSUME NEW l \in Legs, AnswerUnwanted(l)
        PROVE  RegistryInv'
    BY <2>15 DEF AnswerUnwanted
  <2>16. ASSUME NEW l \in Legs, HangUpSettled(l)
        PROVE  RegistryInv'
    BY <2>16 DEF HangUpSettled, DestroyConfirmed, DestroyFailed
  <2>17. ASSUME NEW l \in Legs, RemoteHangUp(l)
        PROVE  RegistryInv'
    BY <2>17 DEF RemoteHangUp, Removed, NotifyRemoved
  <2>18. ASSUME NEW l \in Legs, DropSettled(l)
        PROVE  RegistryInv'
    BY <2>18 DEF DropSettled, DestroyConfirmed, DestroyFailed
  <2>19. ASSUME NEW r \in Requests, NEW id \in CallIds, RequestBye(r, id)
        PROVE  RegistryInv'
    BY <2>19 DEF RequestBye, Found
  <2>20. ASSUME NEW b \in byes, ByeConfirmed(b)
        PROVE  RegistryInv'
    BY <2>20 DEF ByeConfirmed, Removed, NotifyRemoved
  <2>21. ASSUME NEW b \in byes, ByeFailed(b)
        PROVE  RegistryInv'
    BY <2>21 DEF ByeFailed
  <2>22. ASSUME NEW c \in Conns, Connect(c)
        PROVE  RegistryInv'
    BY <2>22 DEF Connect
  <2>23. ASSUME NEW c \in Conns, Disconnect(c)
        PROVE  RegistryInv'
    BY <2>23 DEF Disconnect, TerminateCallsForControlConnection, Cancel, LegsIn, OwnedCalls, OwnedPending, PendingOutbound
  <2>24. ASSUME Drain
        PROVE  RegistryInv'
    BY <2>24 DEF Drain
  <2>25. ASSUME Stop
        PROVE  RegistryInv'
    BY <2>25 DEF Stop, Shutdown, Cancel, LegsIn, PendingInbound, PendingOutbound
  <2>26. ASSUME Exit
        PROVE  RegistryInv'
    BY <2>26 DEF Exit
  <2>27. CASE UNCHANGED vars
    BY <2>27 DEF vars
  <2>28. QED
    BY <2>1, <2>2, <2>3, <2>4, <2>5, <2>6, <2>7, <2>8, <2>9, <2>10, <2>11, <2>12, <2>13, <2>14, <2>15, <2>16, <2>17, <2>18, <2>19, <2>20, <2>21, <2>22, <2>23, <2>24, <2>25, <2>26, <2>27 DEF Next, InboundStep, OutboundStep, SettleOutbound, ByeStep, ConnStep, LifecycleStep, QuietStop, DeadlineStop, CleanExit, TimeoutExit, Terminated
<1>3. QED
  BY <1>1, <1>2, TypeCorrect, PTL DEF Spec

(* An active call is found under its own id, an INVITE in setup holds its   *)
(* id alone, and a failing INVITE removes nobody else's call.               *)
THEOREM CallIdsAreUnique == Spec => []CallIdNamesOneLeg
  BY RegistryInvariant, PTL DEF RegistryInv

-----------------------------------------------------------------------------
(* OneFinalResponse is not inductive: an INVITE being decided must be known *)
(* to have no response yet, unless shutdown has just sent its 503.          *)
ResponsesInv ==
    /\ OneFinalResponse
    /\ \A l \in Legs :
          /\ pc[l] = "Idle" => responses[l] = 0
          /\ pc[l] \in {"Deciding", "Cancelled"} => responses[l] = 0 \/ isStopping
          /\ pc[l] \in {"Dialing", "HangingUp"} => l \in outbound

(* OneFinalResponse strengthened: before its answer an INVITE has had a *)
(* response only from shutdown, which responds to every pending one.    *)
LEMMA ResponsesInvariant == Spec => []ResponsesInv
<1>1. Init => ResponsesInv
  BY DEF Init, ResponsesInv, OneFinalResponse
<1>2. TypeOK /\ ResponsesInv /\ [Next]_vars => ResponsesInv'
  <2> SUFFICES ASSUME TypeOK, ResponsesInv, [Next]_vars PROVE ResponsesInv'
    OBVIOUS
  <2> USE DEF TypeOK, PCs, ResponsesInv, OneFinalResponse, isStopping, registryVars, pendingVars
  <2>1. ASSUME NEW l \in Legs, RefuseInvite(l)
        PROVE  ResponsesInv'
    BY <2>1 DEF RefuseInvite
  <2>2. ASSUME NEW l \in Legs, NEW b \in Bases, NEW c \in Owners, AdmitInvite(l, b, c)
        PROVE  ResponsesInv'
    BY <2>2, ReservedIdIsFree DEF AdmitInvite
  <2>3. ASSUME NEW l \in Legs, RejectInvite(l)
        PROVE  ResponsesInv'
    BY <2>3 DEF RejectInvite, AssertRunning
  <2>4. ASSUME NEW l \in Legs, AcceptInvite(l)
        PROVE  ResponsesInv'
    <3>1. CASE pc' = [pc EXCEPT ![l] = "Answering"] /\ responses' = [responses EXCEPT ![l] = @ + 1]
      BY <3>1, <2>4 DEF AcceptInvite, AssertRunning
    <3>2. CASE pc' = [pc EXCEPT ![l] = "Cancelled"] /\ UNCHANGED responses
      BY <3>2, <2>4 DEF AcceptInvite, AssertRunning
    <3>3. QED
      BY <3>1, <3>2, <2>4 DEF AcceptInvite
  <2>5. ASSUME NEW l \in Legs, FailDecision(l)
        PROVE  ResponsesInv'
    BY <2>5 DEF FailDecision, FinalResponse
  <2>6. ASSUME NEW l \in Legs, FailAnswer(l)
        PROVE  ResponsesInv'
    BY <2>6 DEF FailAnswer, FinalResponse
  <2>7. ASSUME NEW l \in Legs, AnswerInvite(l)
        PROVE  ResponsesInv'
    BY <2>7 DEF AnswerInvite
  <2>8. ASSUME NEW l \in Legs, AnswerWhileStopping(l)
        PROVE  ResponsesInv'
    BY <2>8 DEF AnswerWhileStopping
  <2>9. ASSUME NEW l \in Legs, AbortSettled(l)
        PROVE  ResponsesInv'
    BY <2>9 DEF AbortSettled, FinalResponse
  <2>10. ASSUME NEW l \in Legs, NEW c \in Owners, CreateOutbound(l, c)
        PROVE  ResponsesInv'
    BY <2>10 DEF CreateOutbound
  <2>11. ASSUME NEW l \in Legs, NEW c \in Owners, CancelOutbound(l, c)
        PROVE  ResponsesInv'
    BY <2>11 DEF CancelOutbound
  <2>12. ASSUME NEW l \in Legs, OutboundRequestSent(l)
        PROVE  ResponsesInv'
    BY <2>12 DEF OutboundRequestSent
  <2>13. ASSUME NEW l \in Legs, FailOutbound(l)
        PROVE  ResponsesInv'
    BY <2>13 DEF FailOutbound
  <2>14. ASSUME NEW l \in Legs, NEW b \in Bases, AnswerOutbound(l, b)
        PROVE  ResponsesInv'
    BY <2>14, ReservedIdIsFree DEF AnswerOutbound
  <2>15. ASSUME NEW l \in Legs, AnswerUnwanted(l)
        PROVE  ResponsesInv'
    BY <2>15 DEF AnswerUnwanted
  <2>16. ASSUME NEW l \in Legs, HangUpSettled(l)
        PROVE  ResponsesInv'
    BY <2>16 DEF HangUpSettled
  <2>17. ASSUME NEW l \in Legs, RemoteHangUp(l)
        PROVE  ResponsesInv'
    BY <2>17 DEF RemoteHangUp
  <2>18. ASSUME NEW l \in Legs, DropSettled(l)
        PROVE  ResponsesInv'
    BY <2>18 DEF DropSettled
  <2>19. ASSUME NEW r \in Requests, NEW id \in CallIds, RequestBye(r, id)
        PROVE  ResponsesInv'
    BY <2>19 DEF RequestBye
  <2>20. ASSUME NEW b \in byes, ByeConfirmed(b)
        PROVE  ResponsesInv'
    BY <2>20 DEF ByeConfirmed
  <2>21. ASSUME NEW b \in byes, ByeFailed(b)
        PROVE  ResponsesInv'
    BY <2>21 DEF ByeFailed
  <2>22. ASSUME NEW c \in Conns, Connect(c)
        PROVE  ResponsesInv'
    BY <2>22 DEF Connect
  <2>23. ASSUME NEW c \in Conns, Disconnect(c)
        PROVE  ResponsesInv'
    BY <2>23 DEF Disconnect
  <2>24. ASSUME Drain
        PROVE  ResponsesInv'
    BY <2>24 DEF Drain
  <2>25. ASSUME Stop
        PROVE  ResponsesInv'
    BY <2>25 DEF Stop, Shutdown, PendingInbound
  <2>26. ASSUME Exit
        PROVE  ResponsesInv'
    BY <2>26 DEF Exit
  <2>27. CASE UNCHANGED vars
    BY <2>27 DEF vars
  <2>28. QED
    BY <2>1, <2>2, <2>3, <2>4, <2>5, <2>6, <2>7, <2>8, <2>9, <2>10, <2>11, <2>12, <2>13, <2>14, <2>15, <2>16, <2>17, <2>18, <2>19, <2>20, <2>21, <2>22, <2>23, <2>24, <2>25, <2>26, <2>27 DEF Next, InboundStep, OutboundStep, SettleOutbound, ByeStep, ConnStep, LifecycleStep, QuietStop, DeadlineStop, CleanExit, TimeoutExit, Terminated
<1>3. QED
  BY <1>1, <1>2, TypeCorrect, PTL DEF Spec

(* Every INVITE whose handler has ended got exactly one final response. *)
THEOREM OneResponsePerInvite == Spec => []OneFinalResponse
  BY ResponsesInvariant, PTL DEF ResponsesInv

-----------------------------------------------------------------------------
(* Cancelled attempts, and the attempts and calls of an owner that left. *)
OwnerInv ==
    /\ OutboundCallHasOwner
    /\ CancelTakesEffect
    /\ \A l \in cancelRequested : pc[l] \in {"Dialing", "HangingUp", "Over"}
    /\ \A l \in Legs : pc[l] = "Dialing" => l \in outbound
    /\ \A l \in Legs : pc[l] \in {"Deciding", "Answering", "Cancelled"} => l \notin outbound
    /\ \A l \in outbound : pc[l] # "Idle"
    /\ \A l \in Legs : pc[l] = "Dialing" => Connected(owner[l]) \/ l \in cancelRequested

(* An outbound attempt is dialled for an owner that is still there, or it *)
(* is cancelled; and what is cancelled is never activated.                *)
LEMMA OwnerInvariant == Spec => []OwnerInv
<1>1. Init => OwnerInv
  BY ConstantsAssumption DEF Init, OwnerInv, OutboundCallHasOwner, CancelTakesEffect, LegsIn
<1>2. TypeOK /\ RegistryInv /\ OwnerInv /\ [Next]_vars => OwnerInv'
  <2> SUFFICES ASSUME TypeOK, RegistryInv, OwnerInv, [Next]_vars PROVE OwnerInv'
    OBVIOUS
  <2> USE ConstantsAssumption DEF TypeOK, PCs, Owners, OwnerInv, OutboundCallHasOwner, CancelTakesEffect,
          LegsIn, Connected, registryVars, pendingVars
  <2>1. ASSUME NEW l \in Legs, RefuseInvite(l)
        PROVE  OwnerInv'
    BY <2>1 DEF RefuseInvite
  <2>2. ASSUME NEW l \in Legs, NEW b \in Bases, NEW c \in Owners, AdmitInvite(l, b, c)
        PROVE  OwnerInv'
    BY <2>2, ReservedIdIsFree DEF AdmitInvite, isDraining, RegistryInv, CallIdNamesOneLeg, HandledLegHasId, InSetup
  <2>3. ASSUME NEW l \in Legs, RejectInvite(l)
        PROVE  OwnerInv'
    BY <2>3 DEF RejectInvite
  <2>4. ASSUME NEW l \in Legs, AcceptInvite(l)
        PROVE  OwnerInv'
    <3>1. CASE pc' = [pc EXCEPT ![l] = "Answering"]
      BY <3>1, <2>4 DEF AcceptInvite
    <3>2. CASE pc' = [pc EXCEPT ![l] = "Cancelled"]
      BY <3>2, <2>4 DEF AcceptInvite
    <3>3. QED
      BY <3>1, <3>2, <2>4 DEF AcceptInvite
  <2>5. ASSUME NEW l \in Legs, FailDecision(l)
        PROVE  OwnerInv'
    BY <2>5 DEF FailDecision, Removed
  <2>6. ASSUME NEW l \in Legs, FailAnswer(l)
        PROVE  OwnerInv'
    BY <2>6 DEF FailAnswer, Removed
  <2>7. ASSUME NEW l \in Legs, AnswerInvite(l)
        PROVE  OwnerInv'
    BY <2>7 DEF AnswerInvite, Activated, RegistryInv, CallIdNamesOneLeg, HandledLegHasId, InSetup
  <2>8. ASSUME NEW l \in Legs, AnswerWhileStopping(l)
        PROVE  OwnerInv'
    BY <2>8 DEF AnswerWhileStopping, Removed
  <2>9. ASSUME NEW l \in Legs, AbortSettled(l)
        PROVE  OwnerInv'
    BY <2>9 DEF AbortSettled
  <2>10. ASSUME NEW l \in Legs, NEW c \in Owners, CreateOutbound(l, c)
        PROVE  OwnerInv'
    BY <2>10 DEF CreateOutbound
  <2>11. ASSUME NEW l \in Legs, NEW c \in Owners, CancelOutbound(l, c)
        PROVE  OwnerInv'
    BY <2>11 DEF CancelOutbound, Cancel, PendingOutbound
  <2>12. ASSUME NEW l \in Legs, OutboundRequestSent(l)
        PROVE  OwnerInv'
    BY <2>12 DEF OutboundRequestSent, DeferredCancel
  <2>13. ASSUME NEW l \in Legs, FailOutbound(l)
        PROVE  OwnerInv'
    BY <2>13 DEF FailOutbound
  <2>14. ASSUME NEW l \in Legs, NEW b \in Bases, AnswerOutbound(l, b)
        PROVE  OwnerInv'
    BY <2>14, ReservedIdIsFree DEF AnswerOutbound, Activated, MustHangUp
  <2>15. ASSUME NEW l \in Legs, AnswerUnwanted(l)
        PROVE  OwnerInv'
    BY <2>15 DEF AnswerUnwanted, MustHangUp
  <2>16. ASSUME NEW l \in Legs, HangUpSettled(l)
        PROVE  OwnerInv'
    BY <2>16 DEF HangUpSettled
  <2>17. ASSUME NEW l \in Legs, RemoteHangUp(l)
        PROVE  OwnerInv'
    BY <2>17 DEF RemoteHangUp, Removed
  <2>18. ASSUME NEW l \in Legs, DropSettled(l)
        PROVE  OwnerInv'
    BY <2>18 DEF DropSettled
  <2>19. ASSUME NEW r \in Requests, NEW id \in CallIds, RequestBye(r, id)
        PROVE  OwnerInv'
    BY <2>19 DEF RequestBye, Found
  <2>20. ASSUME NEW b \in byes, ByeConfirmed(b)
        PROVE  OwnerInv'
    BY <2>20 DEF ByeConfirmed, Removed
  <2>21. ASSUME NEW b \in byes, ByeFailed(b)
        PROVE  OwnerInv'
    BY <2>21 DEF ByeFailed
  <2>22. ASSUME NEW c \in Conns, Connect(c)
        PROVE  OwnerInv'
    <3>1. \A d \in Owners : Connected(d) => Connected(d)'
      BY <2>22 DEF Connect
    <3>2. UNCHANGED <<pc, outbound, owner, calls, cancelRequested, requestSent, cancelSent>>
      BY <2>22 DEF Connect
    <3>3. LegsIn(calls)' = LegsIn(calls)
      BY <3>2
    <3>4. OutboundCallHasOwner'
      <4>1. TAKE l \in (LegsIn(calls) \intersect outbound)'
      <4>2. owner[l] \in Owners /\ Connected(owner[l]) /\ owner'[l] = owner[l]
        BY <4>1, <3>2, <3>3
      <4>3. QED
        BY <4>2, <3>1
    <3>5. CancelTakesEffect'
      BY <3>2
    <3>6. \A l \in Legs : pc'[l] = "Dialing" => Connected(owner[l])' \/ l \in cancelRequested'
      BY <3>1, <3>2
    <3>7. QED
      BY <3>2, <3>4, <3>5, <3>6
  <2>23. ASSUME NEW c \in Conns, Disconnect(c)
        PROVE  OwnerInv'
    BY <2>23 DEF Disconnect, TerminateCallsForControlConnection, Cancel, LegsIn, OwnedCalls, OwnedPending, PendingOutbound
  <2>24. ASSUME Drain
        PROVE  OwnerInv'
    BY <2>24 DEF Drain
  <2>25. ASSUME Stop
        PROVE  OwnerInv'
    BY <2>25 DEF Stop, Shutdown, Cancel, LegsIn, PendingInbound, PendingOutbound
  <2>26. ASSUME Exit
        PROVE  OwnerInv'
    BY <2>26 DEF Exit
  <2>27. CASE UNCHANGED vars
    BY <2>27 DEF vars
  <2>28. QED
    BY <2>1, <2>2, <2>3, <2>4, <2>5, <2>6, <2>7, <2>8, <2>9, <2>10, <2>11, <2>12, <2>13, <2>14, <2>15, <2>16, <2>17, <2>18, <2>19, <2>20, <2>21, <2>22, <2>23, <2>24, <2>25, <2>26, <2>27 DEF Next, InboundStep, OutboundStep, SettleOutbound, ByeStep, ConnStep, LifecycleStep, QuietStop, DeadlineStop, CleanExit, TimeoutExit, Terminated
<1>3. QED
  BY <1>1, <1>2, TypeCorrect, RegistryInvariant, PTL DEF Spec

(* An owner that leaves takes its outbound calls with it, also those that   *)
(* are answered at the very moment it leaves.                               *)
THEOREM OutboundCallsHaveOwners == Spec => []OutboundCallHasOwner
  BY OwnerInvariant, PTL DEF OwnerInv

(* A cancelled attempt never becomes a call and its CANCEL is never lost. *)
THEOREM CancelAlwaysTakesEffect == Spec => []CancelTakesEffect
  BY OwnerInvariant, PTL DEF OwnerInv

-----------------------------------------------------------------------------
(* A leg is in one place at a time: in the registry, being dropped, or given*)
(* up; and only a leg that was bound can be in any of them.                 *)
TerminalInv ==
    /\ TerminalEventExactlyOnce
    /\ \A l \in Legs : pc[l] \notin {"Bound", "Over"} => terminal[l] = 0
    /\ \A l \in dropping : pc[l] = "Bound" /\ l \notin LegsIn(calls) \union undestroyed
    /\ \A l \in undestroyed : pc[l] \in {"Bound", "Over"} /\ l \notin LegsIn(calls)
    /\ \A b \in byes : pc[b[2]] = "Bound"

(* Removing an id takes out exactly the leg registered under it. *)
LEMMA RemovedLeavesTheOthers ==
    ASSUME TypeOK, RegistryInv, NEW id \in CallIds, calls' = Removed(id)
    PROVE  LegsIn(calls)' = LegsIn(calls) \ {calls[id]}
  BY ConstantsAssumption DEF TypeOK, RegistryInv, CallIdNamesOneLeg, Removed, LegsIn

(* Activating an id that nobody holds adds its leg and removes no other. *)
LEMMA ActivatedAddsOne ==
    ASSUME TypeOK, NEW id \in CallIds, NEW l \in Legs, calls[id] = NoLeg, calls' = Activated(id, l)
    PROVE  LegsIn(calls)' = LegsIn(calls) \union {l}
  BY ConstantsAssumption DEF TypeOK, Activated, LegsIn

(* registry.remove followed by the event for what was removed. *)
LEMMA RemoveAndNotify ==
    ASSUME TypeOK, RegistryInv, TerminalInv, NEW id \in CallIds,
           calls' = Removed(id), terminal' = NotifyRemoved(id),
           UNCHANGED <<pc, dropping, undestroyed>>
    PROVE  /\ TerminalEventExactlyOnce'
           /\ \A l \in Legs : pc[l] \notin {"Bound", "Over"} => terminal'[l] = 0
           /\ LegsIn(calls)' \subseteq LegsIn(calls)
<1>1. LegsIn(calls)' = LegsIn(calls) \ {calls[id]}
  BY RemovedLeavesTheOthers
<1>2. CASE calls[id] = NoLeg
  BY <1>1, <1>2 DEF NotifyRemoved, TerminalInv, TerminalEventExactlyOnce, LegsIn
<1>3. CASE calls[id] # NoLeg
  <2>1. calls[id] \in LegsIn(calls) /\ calls[id] \in Legs /\ pc[calls[id]] = "Bound"
    BY <1>3, ConstantsAssumption DEF TypeOK, RegistryInv, CallIdNamesOneLeg, LegsIn
  <2>2. terminal[calls[id]] = 0
    BY <2>1 DEF TerminalInv, TerminalEventExactlyOnce
  <2>3. terminal' = [terminal EXCEPT ![calls[id]] = 1]
    BY <1>3, <2>2 DEF NotifyRemoved
  <2>4. QED
    BY <1>1, <2>1, <2>3 DEF TypeOK, TerminalInv, TerminalEventExactlyOnce
<1>4. QED
  BY <1>2, <1>3

(* TerminalEventExactlyOnce strengthened with where in its handler a leg *)
(* may be while its terminal event is outstanding.                       *)
LEMMA TerminalInvariant == Spec => []TerminalInv
<1>1. Init => TerminalInv
  BY ConstantsAssumption DEF Init, TerminalInv, TerminalEventExactlyOnce, LegsIn
<1>2. TypeOK /\ RegistryInv /\ TerminalInv /\ [Next]_vars => TerminalInv'
  <2> SUFFICES ASSUME TypeOK, RegistryInv, TerminalInv, [Next]_vars PROVE TerminalInv'
    OBVIOUS
  <2> USE ConstantsAssumption DEF TypeOK, PCs, TerminalInv, TerminalEventExactlyOnce, registryVars, pendingVars
  <2>1. ASSUME NEW l \in Legs, RefuseInvite(l)
        PROVE  TerminalInv'
    <3>1. LegsIn(calls)' = LegsIn(calls)
      BY <2>1 DEF RefuseInvite, LegsIn
    <3>2. QED
      BY <3>1, <2>1 DEF RefuseInvite
  <2>2. ASSUME NEW l \in Legs, NEW b \in Bases, NEW c \in Owners, AdmitInvite(l, b, c)
        PROVE  TerminalInv'
    <3>1. LegsIn(calls)' = LegsIn(calls)
      BY <2>2 DEF AdmitInvite, LegsIn
    <3>2. QED
      BY <3>1, <2>2 DEF AdmitInvite
  <2>3. ASSUME NEW l \in Legs, RejectInvite(l)
        PROVE  TerminalInv'
    <3>1. LegsIn(calls)' = LegsIn(calls)
      BY <2>3 DEF RejectInvite, LegsIn
    <3>2. QED
      BY <3>1, <2>3 DEF RejectInvite
  <2>4. ASSUME NEW l \in Legs, AcceptInvite(l)
        PROVE  TerminalInv'
    <3>1. LegsIn(calls)' = LegsIn(calls)
      BY <2>4 DEF AcceptInvite, LegsIn
    <3>2. CASE pc' = [pc EXCEPT ![l] = "Answering"]
      BY <3>1, <3>2, <2>4 DEF AcceptInvite
    <3>3. CASE pc' = [pc EXCEPT ![l] = "Cancelled"]
      BY <3>1, <3>3, <2>4 DEF AcceptInvite
    <3>4. QED
      BY <3>2, <3>3, <2>4 DEF AcceptInvite
  <2>5. ASSUME NEW l \in Legs, FailDecision(l)
        PROVE  TerminalInv'
    <3>1. callId[l] \in CallIds /\ calls[callId[l]] = NoLeg
      BY <2>5 DEF FailDecision, RegistryInv, CallIdNamesOneLeg, HandledLegHasId, InSetup
    <3>2. LegsIn(calls)' = LegsIn(calls)
      BY <3>1, <2>5 DEF FailDecision, Removed, LegsIn
    <3>3. QED
      BY <3>1, <3>2, <2>5 DEF FailDecision
  <2>6. ASSUME NEW l \in Legs, FailAnswer(l)
        PROVE  TerminalInv'
    <3>1. callId[l] \in CallIds /\ calls[callId[l]] = NoLeg
      BY <2>6 DEF FailAnswer, RegistryInv, CallIdNamesOneLeg, HandledLegHasId, InSetup
    <3>2. LegsIn(calls)' = LegsIn(calls)
      BY <3>1, <2>6 DEF FailAnswer, Removed, LegsIn
    <3>3. terminal[l] = 0
      BY <2>6 DEF FailAnswer
    <3>4. terminal' = [terminal EXCEPT ![l] = 1]
      BY <3>3, <2>6 DEF FailAnswer
    <3>5. QED
      BY <3>1, <3>2, <3>4, <2>6 DEF FailAnswer
  <2>7. ASSUME NEW l \in Legs, AnswerInvite(l)
        PROVE  TerminalInv'
    <3>1. callId[l] \in CallIds /\ calls[callId[l]] = NoLeg
      BY <2>7 DEF AnswerInvite, RegistryInv, CallIdNamesOneLeg, HandledLegHasId, InSetup
    <3>2. LegsIn(calls)' = LegsIn(calls) \union {l}
      BY <3>1, <2>7, ActivatedAddsOne DEF AnswerInvite
    <3>3. QED
      BY <3>2, <2>7 DEF AnswerInvite
  <2>8. ASSUME NEW l \in Legs, AnswerWhileStopping(l)
        PROVE  TerminalInv'
    <3>1. callId[l] \in CallIds /\ calls[callId[l]] = NoLeg
      BY <2>8 DEF AnswerWhileStopping, RegistryInv, CallIdNamesOneLeg, HandledLegHasId, InSetup
    <3>2. LegsIn(calls)' = LegsIn(calls)
      BY <3>1, <2>8 DEF AnswerWhileStopping, Removed, LegsIn
    <3>3. QED
      BY <3>1, <3>2, <2>8 DEF AnswerWhileStopping
  <2>9. ASSUME NEW l \in Legs, AbortSettled(l)
        PROVE  TerminalInv'
    <3>1. LegsIn(calls)' = LegsIn(calls) /\ l \notin LegsIn(calls)
      BY <2>9 DEF AbortSettled, LegsIn, RegistryInv, CallIdNamesOneLeg
    <3>2. terminal' = [terminal EXCEPT ![l] = 1]
      <4>1. terminal[l] = 0
        BY <2>9 DEF AbortSettled
      <4>2. QED
        BY <4>1, <2>9 DEF AbortSettled
    <3>3. CASE DestroyConfirmed(l)
      BY <3>1, <3>2, <3>3, <2>9 DEF AbortSettled, DestroyConfirmed
    <3>4. CASE DestroyFailed(l)
      BY <3>1, <3>2, <3>4, <2>9 DEF AbortSettled, DestroyFailed
    <3>5. QED
      BY <3>3, <3>4, <2>9 DEF AbortSettled
  <2>10. ASSUME NEW l \in Legs, NEW c \in Owners, CreateOutbound(l, c)
        PROVE  TerminalInv'
    <3>1. LegsIn(calls)' = LegsIn(calls)
      BY <2>10 DEF CreateOutbound, LegsIn
    <3>2. QED
      BY <3>1, <2>10 DEF CreateOutbound
  <2>11. ASSUME NEW l \in Legs, NEW c \in Owners, CancelOutbound(l, c)
        PROVE  TerminalInv'
    <3>1. LegsIn(calls)' = LegsIn(calls)
      BY <2>11 DEF CancelOutbound, LegsIn
    <3>2. QED
      BY <3>1, <2>11 DEF CancelOutbound
  <2>12. ASSUME NEW l \in Legs, OutboundRequestSent(l)
        PROVE  TerminalInv'
    <3>1. LegsIn(calls)' = LegsIn(calls)
      BY <2>12 DEF OutboundRequestSent, LegsIn
    <3>2. QED
      BY <3>1, <2>12 DEF OutboundRequestSent
  <2>13. ASSUME NEW l \in Legs, FailOutbound(l)
        PROVE  TerminalInv'
    <3>1. LegsIn(calls)' = LegsIn(calls)
      BY <2>13 DEF FailOutbound, LegsIn
    <3>2. QED
      BY <3>1, <2>13 DEF FailOutbound
  <2>14. ASSUME NEW l \in Legs, NEW b \in Bases, AnswerOutbound(l, b)
        PROVE  TerminalInv'
    <3>1. LegsIn(calls)' = LegsIn(calls) \union {l}
      BY <2>14, ReservedIdIsFree, ActivatedAddsOne DEF AnswerOutbound
    <3>2. QED
      BY <3>1, <2>14 DEF AnswerOutbound
  <2>15. ASSUME NEW l \in Legs, AnswerUnwanted(l)
        PROVE  TerminalInv'
    <3>1. LegsIn(calls)' = LegsIn(calls)
      BY <2>15 DEF AnswerUnwanted, LegsIn
    <3>2. QED
      BY <3>1, <2>15 DEF AnswerUnwanted
  <2>16. ASSUME NEW l \in Legs, HangUpSettled(l)
        PROVE  TerminalInv'
    <3>1. LegsIn(calls)' = LegsIn(calls) /\ l \notin LegsIn(calls)
      BY <2>16 DEF HangUpSettled, LegsIn, RegistryInv, CallIdNamesOneLeg
    <3>2. UNCHANGED terminal
      <4>1. terminal[l] = 0
        BY <2>16 DEF HangUpSettled
      <4>2. QED
        BY <4>1, <2>16 DEF HangUpSettled
    <3>3. CASE DestroyConfirmed(l)
      BY <3>1, <3>2, <3>3, <2>16 DEF HangUpSettled, DestroyConfirmed
    <3>4. CASE DestroyFailed(l)
      BY <3>1, <3>2, <3>4, <2>16 DEF HangUpSettled, DestroyFailed
    <3>5. QED
      BY <3>3, <3>4, <2>16 DEF HangUpSettled
  <2>17. ASSUME NEW l \in Legs, RemoteHangUp(l)
        PROVE  TerminalInv'
    <3>1. callId[l] \in CallIds
      BY <2>17 DEF RemoteHangUp, RegistryInv, HandledLegHasId
    <3>2. QED
      BY <3>1, <2>17, RemoveAndNotify DEF RemoteHangUp
  <2>18. ASSUME NEW l \in Legs, DropSettled(l)
        PROVE  TerminalInv'
    <3>1. LegsIn(calls)' = LegsIn(calls)
      BY <2>18 DEF DropSettled, LegsIn
    <3>2. QED
      BY <3>1, <2>18 DEF DropSettled, DestroyConfirmed, DestroyFailed
  <2>19. ASSUME NEW r \in Requests, NEW id \in CallIds, RequestBye(r, id)
        PROVE  TerminalInv'
    <3>1. LegsIn(calls)' = LegsIn(calls)
      BY <2>19 DEF RequestBye, LegsIn
    <3>2. pc[calls[id]] = "Bound"
      BY <2>19 DEF RequestBye, Found, RegistryInv, CallIdNamesOneLeg
    <3>3. QED
      BY <3>1, <3>2, <2>19 DEF RequestBye
  <2>20. ASSUME NEW b \in byes, ByeConfirmed(b)
        PROVE  TerminalInv'
    <3>1. b[2] \in Legs /\ callId[b[2]] \in CallIds
      BY <2>20 DEF RegistryInv, HandledLegHasId
    <3>2. QED
      BY <3>1, <2>20, RemoveAndNotify DEF ByeConfirmed
  <2>21. ASSUME NEW b \in byes, ByeFailed(b)
        PROVE  TerminalInv'
    <3>1. LegsIn(calls)' = LegsIn(calls)
      BY <2>21 DEF ByeFailed, LegsIn
    <3>2. QED
      BY <3>1, <2>21 DEF ByeFailed
  <2>22. ASSUME NEW c \in Conns, Connect(c)
        PROVE  TerminalInv'
    <3>1. LegsIn(calls)' = LegsIn(calls)
      BY <2>22 DEF Connect, LegsIn
    <3>2. QED
      BY <3>1, <2>22 DEF Connect
  <2>23. ASSUME NEW c \in Conns, Disconnect(c)
        PROVE  TerminalInv'
    <3>1. LegsIn(calls)' = LegsIn(calls) \ OwnedCalls(c)
      BY <2>23 DEF Disconnect, TerminateCallsForControlConnection, LegsIn, OwnedCalls
    <3>2. OwnedCalls(c) \subseteq LegsIn(calls) /\ \A l \in LegsIn(calls) : l \in Legs /\ pc[l] = "Bound"
      BY DEF OwnedCalls, LegsIn, RegistryInv, CallIdNamesOneLeg
    <3>3. QED
      BY <3>1, <3>2, <2>23 DEF Disconnect, TerminateCallsForControlConnection
  <2>24. ASSUME Drain
        PROVE  TerminalInv'
    <3>1. LegsIn(calls)' = LegsIn(calls)
      BY <2>24 DEF Drain, LegsIn
    <3>2. QED
      BY <3>1, <2>24 DEF Drain
  <2>25. ASSUME Stop
        PROVE  TerminalInv'
    <3>1. LegsIn(calls)' = LegsIn(calls)
      BY <2>25 DEF Stop, LegsIn
    <3>2. \A l \in LegsIn(calls) : pc[l] = "Bound"
      BY DEF LegsIn, RegistryInv, CallIdNamesOneLeg
    <3>3. QED
      BY <3>1, <3>2, <2>25 DEF Stop, Shutdown
  <2>26. ASSUME Exit
        PROVE  TerminalInv'
    <3>1. LegsIn(calls)' = LegsIn(calls)
      BY <2>26 DEF Exit, LegsIn
    <3>2. QED
      BY <3>1, <2>26 DEF Exit
  <2>27. CASE UNCHANGED vars
    <3>1. LegsIn(calls)' = LegsIn(calls)
      BY <2>27 DEF vars, LegsIn
    <3>2. QED
      BY <3>1, <2>27 DEF vars
  <2>28. QED
    BY <2>1, <2>2, <2>3, <2>4, <2>5, <2>6, <2>7, <2>8, <2>9, <2>10, <2>11, <2>12, <2>13, <2>14, <2>15, <2>16, <2>17, <2>18, <2>19, <2>20, <2>21, <2>22, <2>23, <2>24, <2>25, <2>26, <2>27 DEF Next, InboundStep, OutboundStep, SettleOutbound, ByeStep, ConnStep, LifecycleStep, QuietStop, DeadlineStop, CleanExit, TimeoutExit, Terminated
<1>3. QED
  BY <1>1, <1>2, TypeCorrect, RegistryInvariant, PTL DEF Spec

(* Whatever ends a call, and however many ends race, its owner is told once.*)
THEOREM OneTerminalEventPerCall == Spec => []TerminalEventExactlyOnce
  BY TerminalInvariant, PTL DEF TerminalInv

-----------------------------------------------------------------------------
(* After `stop` no handler that resumes from its await activates a call. *)
THEOREM StopIsFinal == Spec => NoActivationAfterStop
<1>1. TypeOK /\ [Next]_vars => [isStopping => LegsIn(calls') \subseteq LegsIn(calls)]_vars
  <2> SUFFICES ASSUME TypeOK, [Next]_vars, isStopping
               PROVE  LegsIn(calls') \subseteq LegsIn(calls)
    OBVIOUS
  <2> USE ConstantsAssumption DEF TypeOK, LegsIn, registryVars, pendingVars
  <2>1. ASSUME NEW l \in Legs, RefuseInvite(l)
        PROVE  LegsIn(calls') \subseteq LegsIn(calls)
    BY <2>1 DEF RefuseInvite
  <2>2. ASSUME NEW l \in Legs, NEW b \in Bases, NEW c \in Owners, AdmitInvite(l, b, c)
        PROVE  LegsIn(calls') \subseteq LegsIn(calls)
    BY <2>2, ReservedIdIsFree DEF AdmitInvite, isDraining, isStopping
  <2>3. ASSUME NEW l \in Legs, RejectInvite(l)
        PROVE  LegsIn(calls') \subseteq LegsIn(calls)
    BY <2>3 DEF RejectInvite
  <2>4. ASSUME NEW l \in Legs, AcceptInvite(l)
        PROVE  LegsIn(calls') \subseteq LegsIn(calls)
    BY <2>4 DEF AcceptInvite
  <2>5. ASSUME NEW l \in Legs, FailDecision(l)
        PROVE  LegsIn(calls') \subseteq LegsIn(calls)
    BY <2>5 DEF FailDecision, Removed
  <2>6. ASSUME NEW l \in Legs, FailAnswer(l)
        PROVE  LegsIn(calls') \subseteq LegsIn(calls)
    BY <2>6 DEF FailAnswer, Removed
  <2>7. ASSUME NEW l \in Legs, AnswerInvite(l)
        PROVE  LegsIn(calls') \subseteq LegsIn(calls)
    BY <2>7 DEF AnswerInvite, AssertRunning
  <2>8. ASSUME NEW l \in Legs, AnswerWhileStopping(l)
        PROVE  LegsIn(calls') \subseteq LegsIn(calls)
    BY <2>8 DEF AnswerWhileStopping, Removed
  <2>9. ASSUME NEW l \in Legs, AbortSettled(l)
        PROVE  LegsIn(calls') \subseteq LegsIn(calls)
    BY <2>9 DEF AbortSettled
  <2>10. ASSUME NEW l \in Legs, NEW c \in Owners, CreateOutbound(l, c)
        PROVE  LegsIn(calls') \subseteq LegsIn(calls)
    BY <2>10 DEF CreateOutbound
  <2>11. ASSUME NEW l \in Legs, NEW c \in Owners, CancelOutbound(l, c)
        PROVE  LegsIn(calls') \subseteq LegsIn(calls)
    BY <2>11 DEF CancelOutbound
  <2>12. ASSUME NEW l \in Legs, OutboundRequestSent(l)
        PROVE  LegsIn(calls') \subseteq LegsIn(calls)
    BY <2>12 DEF OutboundRequestSent
  <2>13. ASSUME NEW l \in Legs, FailOutbound(l)
        PROVE  LegsIn(calls') \subseteq LegsIn(calls)
    BY <2>13 DEF FailOutbound
  <2>14. ASSUME NEW l \in Legs, NEW b \in Bases, AnswerOutbound(l, b)
        PROVE  LegsIn(calls') \subseteq LegsIn(calls)
    BY <2>14, ReservedIdIsFree DEF AnswerOutbound, MustHangUp
  <2>15. ASSUME NEW l \in Legs, AnswerUnwanted(l)
        PROVE  LegsIn(calls') \subseteq LegsIn(calls)
    BY <2>15 DEF AnswerUnwanted
  <2>16. ASSUME NEW l \in Legs, HangUpSettled(l)
        PROVE  LegsIn(calls') \subseteq LegsIn(calls)
    BY <2>16 DEF HangUpSettled
  <2>17. ASSUME NEW l \in Legs, RemoteHangUp(l)
        PROVE  LegsIn(calls') \subseteq LegsIn(calls)
    BY <2>17 DEF RemoteHangUp, Removed
  <2>18. ASSUME NEW l \in Legs, DropSettled(l)
        PROVE  LegsIn(calls') \subseteq LegsIn(calls)
    BY <2>18 DEF DropSettled
  <2>19. ASSUME NEW r \in Requests, NEW id \in CallIds, RequestBye(r, id)
        PROVE  LegsIn(calls') \subseteq LegsIn(calls)
    BY <2>19 DEF RequestBye
  <2>20. ASSUME NEW b \in byes, ByeConfirmed(b)
        PROVE  LegsIn(calls') \subseteq LegsIn(calls)
    BY <2>20 DEF ByeConfirmed, Removed
  <2>21. ASSUME NEW b \in byes, ByeFailed(b)
        PROVE  LegsIn(calls') \subseteq LegsIn(calls)
    BY <2>21 DEF ByeFailed
  <2>22. ASSUME NEW c \in Conns, Connect(c)
        PROVE  LegsIn(calls') \subseteq LegsIn(calls)
    BY <2>22 DEF Connect
  <2>23. ASSUME NEW c \in Conns, Disconnect(c)
        PROVE  LegsIn(calls') \subseteq LegsIn(calls)
    BY <2>23 DEF Disconnect, TerminateCallsForControlConnection
  <2>24. ASSUME Drain
        PROVE  LegsIn(calls') \subseteq LegsIn(calls)
    BY <2>24 DEF Drain
  <2>25. ASSUME Stop
        PROVE  LegsIn(calls') \subseteq LegsIn(calls)
    BY <2>25 DEF Stop
  <2>26. ASSUME Exit
        PROVE  LegsIn(calls') \subseteq LegsIn(calls)
    BY <2>26 DEF Exit
  <2>27. CASE UNCHANGED vars
    BY <2>27 DEF vars
  <2>28. QED
    BY <2>1, <2>2, <2>3, <2>4, <2>5, <2>6, <2>7, <2>8, <2>9, <2>10, <2>11, <2>12, <2>13, <2>14, <2>15, <2>16, <2>17, <2>18, <2>19, <2>20, <2>21, <2>22, <2>23, <2>24, <2>25, <2>26, <2>27 DEF Next, InboundStep, OutboundStep, SettleOutbound, ByeStep, ConnStep, LifecycleStep, QuietStop, DeadlineStop, CleanExit, TimeoutExit, Terminated
<1>2. QED
  BY <1>1, TypeCorrect, PTL DEF Spec, NoActivationAfterStop

-----------------------------------------------------------------------------
(* The gateway implements CallPromise.  The mapping reads a call's stage off*)
(* its handler and the registry; what a step does to the registry is stated *)
(* first, what it does to the stages follows.                               *)
LEMMA ReleaseIsAPromisedStep ==
    ASSUME NEW ended \in SUBSET Legs, NEW cancelled \in SUBSET Legs, Promise!Release(ended, cancelled)
    PROVE  Promise!Next
  BY DEF Promise!Next

(* The gateway implements CallPromise: no handler, hang-up, owner       *)
(* teardown, drain or shutdown takes a call through a stage the promise *)
(* does not allow, and a cancelled attempt never becomes a call.        *)
THEOREM GatewayKeepsPromise == Spec => KeepsPromise
<1>1. Init => Promise!Init
  BY DEF Init, Promise!Init, PromisedStage, isStopping
<1>2. TypeOK /\ RegistryInv /\ OwnerInv /\ TerminalInv /\ [Next]_vars
         => [Promise!Next]_(Promise!vars)
  <2> SUFFICES ASSUME TypeOK, RegistryInv, OwnerInv, TerminalInv, [Next]_vars
               PROVE  [Promise!Next]_(Promise!vars)
    OBVIOUS
  <2> USE ConstantsAssumption DEF TypeOK, PCs, Owners, PromisedStage, isStopping, isDraining,
          registryVars, pendingVars,
          Promise!vars, Promise!Admit, Promise!Abandon, Promise!Activate, Promise!Drain, Promise!Stop
  <2>1. ASSUME NEW l \in Legs, RefuseInvite(l)
        PROVE  [Promise!Next]_(Promise!vars)
    <3>1. LegsIn(calls)' = LegsIn(calls)
      BY <2>1 DEF RefuseInvite, LegsIn
    <3>2. Promise!Abandon(l)
      BY <3>1, <2>1 DEF RefuseInvite, LegsIn
    <3>3. QED
      BY <3>2 DEF Promise!Next
  <2>2. ASSUME NEW l \in Legs, NEW b \in Bases, NEW c \in Owners, AdmitInvite(l, b, c)
        PROVE  [Promise!Next]_(Promise!vars)
    <3>1. LegsIn(calls)' = LegsIn(calls)
      BY <2>2 DEF AdmitInvite, LegsIn
    <3>2. Promise!Admit(l)
      BY <3>1, <2>2 DEF AdmitInvite, LegsIn
    <3>3. QED
      BY <3>2 DEF Promise!Next
  <2>3. ASSUME NEW l \in Legs, RejectInvite(l)
        PROVE  [Promise!Next]_(Promise!vars)
    <3>1. LegsIn(calls)' = LegsIn(calls)
      BY <2>3 DEF RejectInvite, LegsIn
    <3>2. Promise!Abandon(l)
      BY <3>1, <2>3 DEF RejectInvite, LegsIn
    <3>3. QED
      BY <3>2 DEF Promise!Next
  <2>4. ASSUME NEW l \in Legs, AcceptInvite(l)
        PROVE  [Promise!Next]_(Promise!vars)
    <3>1. LegsIn(calls)' = LegsIn(calls)
      BY <2>4 DEF AcceptInvite, LegsIn
    <3>2. UNCHANGED Promise!vars
      <4>1. CASE pc' = [pc EXCEPT ![l] = "Answering"]
        BY <3>1, <4>1, <2>4 DEF AcceptInvite
      <4>2. CASE pc' = [pc EXCEPT ![l] = "Cancelled"]
        BY <3>1, <4>2, <2>4 DEF AcceptInvite
      <4>3. QED
        BY <4>1, <4>2, <2>4 DEF AcceptInvite
    <3>3. QED
      BY <3>2
  <2>5. ASSUME NEW l \in Legs, FailDecision(l)
        PROVE  [Promise!Next]_(Promise!vars)
    <3>1. callId[l] \in CallIds /\ calls[callId[l]] = NoLeg
      BY <2>5 DEF FailDecision, RegistryInv, CallIdNamesOneLeg, HandledLegHasId, InSetup
    <3>2. LegsIn(calls)' = LegsIn(calls)
      BY <3>1, <2>5 DEF FailDecision, Removed, LegsIn
    <3>3. Promise!Abandon(l)
      BY <3>2, <2>5 DEF FailDecision
    <3>4. QED
      BY <3>3 DEF Promise!Next
  <2>6. ASSUME NEW l \in Legs, FailAnswer(l)
        PROVE  [Promise!Next]_(Promise!vars)
    <3>1. callId[l] \in CallIds /\ calls[callId[l]] = NoLeg
      BY <2>6 DEF FailAnswer, RegistryInv, CallIdNamesOneLeg, HandledLegHasId, InSetup
    <3>2. LegsIn(calls)' = LegsIn(calls)
      BY <3>1, <2>6 DEF FailAnswer, Removed, LegsIn
    <3>3. Promise!Abandon(l)
      BY <3>2, <2>6 DEF FailAnswer
    <3>4. QED
      BY <3>3 DEF Promise!Next
  <2>7. ASSUME NEW l \in Legs, AnswerInvite(l)
        PROVE  [Promise!Next]_(Promise!vars)
    <3>1. callId[l] \in CallIds /\ calls[callId[l]] = NoLeg
      BY <2>7 DEF AnswerInvite, RegistryInv, CallIdNamesOneLeg, HandledLegHasId, InSetup
    <3>2. LegsIn(calls)' = LegsIn(calls) \union {l}
      BY <3>1, <2>7, ActivatedAddsOne DEF AnswerInvite
    <3>3. Promise!Activate(l)
      BY <3>2, <2>7 DEF AnswerInvite, AssertRunning, OwnerInv
    <3>4. QED
      BY <3>3 DEF Promise!Next
  <2>8. ASSUME NEW l \in Legs, AnswerWhileStopping(l)
        PROVE  [Promise!Next]_(Promise!vars)
    <3>1. callId[l] \in CallIds /\ calls[callId[l]] = NoLeg
      BY <2>8 DEF AnswerWhileStopping, RegistryInv, CallIdNamesOneLeg, HandledLegHasId, InSetup
    <3>2. LegsIn(calls)' = LegsIn(calls)
      BY <3>1, <2>8 DEF AnswerWhileStopping, Removed, LegsIn
    <3>3. Promise!Abandon(l)
      BY <3>2, <2>8 DEF AnswerWhileStopping
    <3>4. QED
      BY <3>3 DEF Promise!Next
  <2>9. ASSUME NEW l \in Legs, AbortSettled(l)
        PROVE  [Promise!Next]_(Promise!vars)
    <3>1. LegsIn(calls)' = LegsIn(calls)
      BY <2>9 DEF AbortSettled, LegsIn
    <3>2. UNCHANGED Promise!vars
      BY <3>1, <2>9 DEF AbortSettled, LegsIn
    <3>3. QED
      BY <3>2
  <2>10. ASSUME NEW l \in Legs, NEW c \in Owners, CreateOutbound(l, c)
        PROVE  [Promise!Next]_(Promise!vars)
    <3>1. LegsIn(calls)' = LegsIn(calls)
      BY <2>10 DEF CreateOutbound, LegsIn
    <3>2. Promise!Admit(l)
      BY <3>1, <2>10 DEF CreateOutbound, LegsIn
    <3>3. QED
      BY <3>2 DEF Promise!Next
  <2>11. ASSUME NEW l \in Legs, NEW c \in Owners, CancelOutbound(l, c)
        PROVE  [Promise!Next]_(Promise!vars)
    <3>1. LegsIn(calls)' = LegsIn(calls)
      BY <2>11 DEF CancelOutbound, LegsIn
    <3>2. Promise!Release({}, {l})
      BY <3>1, <2>11 DEF CancelOutbound, LegsIn, Cancel, PendingOutbound, Promise!Release
    <3>3. QED
      BY <3>2, ReleaseIsAPromisedStep
  <2>12. ASSUME NEW l \in Legs, OutboundRequestSent(l)
        PROVE  [Promise!Next]_(Promise!vars)
    <3>1. LegsIn(calls)' = LegsIn(calls)
      BY <2>12 DEF OutboundRequestSent, LegsIn
    <3>2. UNCHANGED Promise!vars
      BY <3>1, <2>12 DEF OutboundRequestSent, LegsIn
    <3>3. QED
      BY <3>2
  <2>13. ASSUME NEW l \in Legs, FailOutbound(l)
        PROVE  [Promise!Next]_(Promise!vars)
    <3>1. LegsIn(calls)' = LegsIn(calls)
      BY <2>13 DEF FailOutbound, LegsIn
    <3>2. Promise!Abandon(l)
      BY <3>1, <2>13 DEF FailOutbound, LegsIn
    <3>3. QED
      BY <3>2 DEF Promise!Next
  <2>14. ASSUME NEW l \in Legs, NEW b \in Bases, AnswerOutbound(l, b)
        PROVE  [Promise!Next]_(Promise!vars)
    <3>1. LegsIn(calls)' = LegsIn(calls) \union {l}
      BY <2>14, ReservedIdIsFree, ActivatedAddsOne DEF AnswerOutbound
    <3>2. Promise!Activate(l)
      BY <3>1, <2>14 DEF AnswerOutbound, MustHangUp
    <3>3. QED
      BY <3>2 DEF Promise!Next
  <2>15. ASSUME NEW l \in Legs, AnswerUnwanted(l)
        PROVE  [Promise!Next]_(Promise!vars)
    <3>1. LegsIn(calls)' = LegsIn(calls)
      BY <2>15 DEF AnswerUnwanted, LegsIn
    <3>2. Promise!Abandon(l)
      BY <3>1, <2>15 DEF AnswerUnwanted, LegsIn
    <3>3. QED
      BY <3>2 DEF Promise!Next
  <2>16. ASSUME NEW l \in Legs, HangUpSettled(l)
        PROVE  [Promise!Next]_(Promise!vars)
    <3>1. LegsIn(calls)' = LegsIn(calls)
      BY <2>16 DEF HangUpSettled, LegsIn
    <3>2. UNCHANGED Promise!vars
      BY <3>1, <2>16 DEF HangUpSettled, LegsIn
    <3>3. QED
      BY <3>2
  <2>17. ASSUME NEW l \in Legs, RemoteHangUp(l)
        PROVE  [Promise!Next]_(Promise!vars)
    <3>1. l \in Legs /\ callId[l] \in CallIds
      BY <2>17 DEF RemoteHangUp, RegistryInv, HandledLegHasId, TerminalInv
    <3>2. LegsIn(calls)' = LegsIn(calls) \ {calls[callId[l]]}
      BY <3>1, <2>17, RemovedLeavesTheOthers DEF RemoteHangUp
    <3>3. Promise!Release(LegsIn(calls) \intersect {calls[callId[l]]}, {})
      <4>1. \A m \in LegsIn(calls) : m \in Legs /\ pc[m] = "Bound"
        BY DEF LegsIn, RegistryInv, CallIdNamesOneLeg
      <4>2. QED
        BY <3>1, <3>2, <4>1, <2>17 DEF RemoteHangUp, Promise!Release
    <3>4. LegsIn(calls) \intersect {calls[callId[l]]} \in SUBSET Legs /\ {} \in SUBSET Legs
      BY DEF LegsIn
    <3>5. Promise!Next
      BY ONLY <3>3, <3>4, ReleaseIsAPromisedStep
    <3>6. QED
      BY <3>5
  <2>18. ASSUME NEW l \in Legs, DropSettled(l)
        PROVE  [Promise!Next]_(Promise!vars)
    <3>1. LegsIn(calls)' = LegsIn(calls)
      BY <2>18 DEF DropSettled, LegsIn
    <3>2. UNCHANGED Promise!vars
      BY <3>1, <2>18 DEF DropSettled, LegsIn
    <3>3. QED
      BY <3>2
  <2>19. ASSUME NEW r \in Requests, NEW id \in CallIds, RequestBye(r, id)
        PROVE  [Promise!Next]_(Promise!vars)
    <3>1. LegsIn(calls)' = LegsIn(calls)
      BY <2>19 DEF RequestBye, LegsIn
    <3>2. UNCHANGED Promise!vars
      BY <3>1, <2>19 DEF RequestBye, LegsIn
    <3>3. QED
      BY <3>2
  <2>20. ASSUME NEW b \in byes, ByeConfirmed(b)
        PROVE  [Promise!Next]_(Promise!vars)
    <3>1. b[2] \in Legs /\ callId[b[2]] \in CallIds
      BY <2>20 DEF ByeConfirmed, RegistryInv, HandledLegHasId, TerminalInv
    <3>2. LegsIn(calls)' = LegsIn(calls) \ {calls[callId[b[2]]]}
      BY <3>1, <2>20, RemovedLeavesTheOthers DEF ByeConfirmed
    <3>3. Promise!Release(LegsIn(calls) \intersect {calls[callId[b[2]]]}, {})
      <4>1. \A m \in LegsIn(calls) : m \in Legs /\ pc[m] = "Bound"
        BY DEF LegsIn, RegistryInv, CallIdNamesOneLeg
      <4>2. QED
        BY <3>1, <3>2, <4>1, <2>20 DEF ByeConfirmed, Promise!Release
    <3>4. LegsIn(calls) \intersect {calls[callId[b[2]]]} \in SUBSET Legs /\ {} \in SUBSET Legs
      BY DEF LegsIn
    <3>5. Promise!Next
      BY ONLY <3>3, <3>4, ReleaseIsAPromisedStep
    <3>6. QED
      BY <3>5
  <2>21. ASSUME NEW b \in byes, ByeFailed(b)
        PROVE  [Promise!Next]_(Promise!vars)
    <3>1. LegsIn(calls)' = LegsIn(calls)
      BY <2>21 DEF ByeFailed, LegsIn
    <3>2. UNCHANGED Promise!vars
      BY <3>1, <2>21 DEF ByeFailed, LegsIn
    <3>3. QED
      BY <3>2
  <2>22. ASSUME NEW c \in Conns, Connect(c)
        PROVE  [Promise!Next]_(Promise!vars)
    <3>1. LegsIn(calls)' = LegsIn(calls)
      BY <2>22 DEF Connect, LegsIn
    <3>2. UNCHANGED Promise!vars
      BY <3>1, <2>22 DEF Connect, LegsIn
    <3>3. QED
      BY <3>2
  <2>23. ASSUME NEW c \in Conns, Disconnect(c)
        PROVE  [Promise!Next]_(Promise!vars)
    <3>1. LegsIn(calls)' = LegsIn(calls) \ OwnedCalls(c)
      BY <2>23 DEF Disconnect, TerminateCallsForControlConnection, LegsIn, OwnedCalls
    <3>2. \A m \in LegsIn(calls) : m \in Legs /\ pc[m] = "Bound"
      BY DEF LegsIn, RegistryInv, CallIdNamesOneLeg
    <3>3. OwnedCalls(c) \subseteq LegsIn(calls) /\ OwnedPending(c) \subseteq PendingOutbound
      BY DEF OwnedCalls, OwnedPending
    <3>4. OwnedCalls(c) \in SUBSET Legs /\ OwnedPending(c) \in SUBSET Legs
      BY <3>2, <3>3 DEF PendingOutbound
    <3>5. PICK ended \in SUBSET Legs, cancelled \in SUBSET Legs :
             ended = OwnedCalls(c) /\ cancelled = OwnedPending(c)
      BY <3>4
    <3>6. Promise!Release(ended, cancelled)
      BY <3>1, <3>2, <3>3, <3>5, <2>23
         DEF Disconnect, TerminateCallsForControlConnection, Cancel, PendingOutbound, Promise!Release
    <3>7. Promise!Next
      BY ONLY <3>6, ReleaseIsAPromisedStep
    <3>8. QED
      BY <3>7
  <2>24. ASSUME Drain
        PROVE  [Promise!Next]_(Promise!vars)
    <3>1. LegsIn(calls)' = LegsIn(calls)
      BY <2>24 DEF Drain, LegsIn
    <3>2. Promise!Drain
      BY <3>1, <2>24 DEF Drain, LegsIn
    <3>3. QED
      BY <3>2 DEF Promise!Next
  <2>25. ASSUME phase = "Draining", Stop
        PROVE  [Promise!Next]_(Promise!vars)
    <3>1. LegsIn(calls)' = LegsIn(calls)
      BY <2>25 DEF Stop, LegsIn
    <3>2. Promise!Stop(PendingOutbound)
      BY <3>1, <2>25 DEF Stop, Shutdown, Cancel, PendingOutbound
    <3>3. QED
      BY <3>2 DEF Promise!Next, PendingOutbound
  <2>26. ASSUME Exit
        PROVE  [Promise!Next]_(Promise!vars)
    <3>1. LegsIn(calls)' = LegsIn(calls)
      BY <2>26 DEF Exit, LegsIn
    <3>2. UNCHANGED Promise!vars
      BY <3>1, <2>26 DEF Exit, LegsIn
    <3>3. QED
      BY <3>2
  <2>27. CASE UNCHANGED vars
    <3>1. LegsIn(calls)' = LegsIn(calls)
      BY <2>27 DEF vars, LegsIn
    <3>2. UNCHANGED Promise!vars
      BY <3>1, <2>27 DEF vars, LegsIn
    <3>3. QED
      BY <3>2
  <2>28. QED
    BY <2>1, <2>2, <2>3, <2>4, <2>5, <2>6, <2>7, <2>8, <2>9, <2>10, <2>11, <2>12, <2>13, <2>14, <2>15, <2>16, <2>17, <2>18, <2>19, <2>20, <2>21, <2>22, <2>23, <2>24, <2>25, <2>26, <2>27 DEF Next, InboundStep, OutboundStep, SettleOutbound, ByeStep, ConnStep, LifecycleStep, QuietStop, DeadlineStop, CleanExit, TimeoutExit, Terminated
<1>3. QED
  BY <1>1, <1>2, TypeCorrect, RegistryInvariant, OwnerInvariant, TerminalInvariant, PTL
     DEF Spec, KeepsPromise, Promise!Spec

-----------------------------------------------------------------------------
(* Without reuse of SIP Call-IDs an id belongs to one leg for ever, so the  *)
(* removals by id that follow an await always hit the leg they are for.     *)
UniqueIdInv ==
    /\ \A l, m \in Legs : callId[l] = callId[m] /\ callId[l] \in CallIds => l = m
    /\ \A l \in Legs : pc[l] \in {"Idle", "Dialing"} => callId[l] = NoId

DialogInv ==
    /\ NoForgottenDialog
    /\ \A l \in Legs : pc[l] \in {"Idle", "Deciding", "Answering", "Cancelled", "Dialing"}
          => dialog[l] # "Up"
    /\ \A l \in Legs : pc[l] = "Over" /\ dialog[l] = "Up" => l \in undestroyed

(* Without reuse, an id that was drawn for one leg is not drawn again. *)
LEMMA UniqueIdInvariant ==
    ASSUME ~CallIdReuse PROVE Spec => []UniqueIdInv
<1>1. Init => UniqueIdInv
  BY ConstantsAssumption DEF Init, UniqueIdInv
<1>2. TypeOK /\ UniqueIdInv /\ [Next]_vars => UniqueIdInv'
  <2> SUFFICES ASSUME TypeOK, UniqueIdInv, [Next]_vars PROVE UniqueIdInv'
    OBVIOUS
  <2> USE ConstantsAssumption DEF TypeOK, PCs, UniqueIdInv
  <2>1. ASSUME NEW l \in Legs, RefuseInvite(l)
        PROVE  UniqueIdInv'
    BY <2>1 DEF RefuseInvite
  <2>2. ASSUME NEW l \in Legs, NEW b \in Bases, NEW c \in Owners, AdmitInvite(l, b, c)
        PROVE  UniqueIdInv'
    <3>1. PICK id \in CallIds : ReserveCallId(b, id) /\ callId' = [callId EXCEPT ![l] = id]
      BY <2>2 DEF AdmitInvite
    <3>2. \A m \in Legs : callId[m] # id
      BY <3>1 DEF ReserveCallId
    <3>3. QED
      BY <3>1, <3>2, <2>2 DEF AdmitInvite
  <2>3. ASSUME NEW l \in Legs, RejectInvite(l)
        PROVE  UniqueIdInv'
    BY <2>3 DEF RejectInvite
  <2>4. ASSUME NEW l \in Legs, AcceptInvite(l)
        PROVE  UniqueIdInv'
    <3>1. CASE pc' = [pc EXCEPT ![l] = "Answering"]
      BY <3>1, <2>4 DEF AcceptInvite
    <3>2. CASE pc' = [pc EXCEPT ![l] = "Cancelled"]
      BY <3>2, <2>4 DEF AcceptInvite
    <3>3. QED
      BY <3>1, <3>2, <2>4 DEF AcceptInvite
  <2>5. ASSUME NEW l \in Legs, FailDecision(l)
        PROVE  UniqueIdInv'
    BY <2>5 DEF FailDecision
  <2>6. ASSUME NEW l \in Legs, FailAnswer(l)
        PROVE  UniqueIdInv'
    BY <2>6 DEF FailAnswer
  <2>7. ASSUME NEW l \in Legs, AnswerInvite(l)
        PROVE  UniqueIdInv'
    BY <2>7 DEF AnswerInvite
  <2>8. ASSUME NEW l \in Legs, AnswerWhileStopping(l)
        PROVE  UniqueIdInv'
    BY <2>8 DEF AnswerWhileStopping
  <2>9. ASSUME NEW l \in Legs, AbortSettled(l)
        PROVE  UniqueIdInv'
    BY <2>9 DEF AbortSettled
  <2>10. ASSUME NEW l \in Legs, NEW c \in Owners, CreateOutbound(l, c)
        PROVE  UniqueIdInv'
    BY <2>10 DEF CreateOutbound
  <2>11. ASSUME NEW l \in Legs, NEW c \in Owners, CancelOutbound(l, c)
        PROVE  UniqueIdInv'
    BY <2>11 DEF CancelOutbound
  <2>12. ASSUME NEW l \in Legs, OutboundRequestSent(l)
        PROVE  UniqueIdInv'
    BY <2>12 DEF OutboundRequestSent
  <2>13. ASSUME NEW l \in Legs, FailOutbound(l)
        PROVE  UniqueIdInv'
    BY <2>13 DEF FailOutbound
  <2>14. ASSUME NEW l \in Legs, NEW b \in Bases, AnswerOutbound(l, b)
        PROVE  UniqueIdInv'
    <3>1. PICK id \in CallIds : ReserveCallId(b, id) /\ callId' = [callId EXCEPT ![l] = id]
      BY <2>14 DEF AnswerOutbound
    <3>2. \A m \in Legs : callId[m] # id
      BY <3>1 DEF ReserveCallId
    <3>3. QED
      BY <3>1, <3>2, <2>14 DEF AnswerOutbound
  <2>15. ASSUME NEW l \in Legs, AnswerUnwanted(l)
        PROVE  UniqueIdInv'
    BY <2>15 DEF AnswerUnwanted
  <2>16. ASSUME NEW l \in Legs, HangUpSettled(l)
        PROVE  UniqueIdInv'
    BY <2>16 DEF HangUpSettled
  <2>17. ASSUME NEW l \in Legs, RemoteHangUp(l)
        PROVE  UniqueIdInv'
    BY <2>17 DEF RemoteHangUp
  <2>18. ASSUME NEW l \in Legs, DropSettled(l)
        PROVE  UniqueIdInv'
    BY <2>18 DEF DropSettled
  <2>19. ASSUME NEW r \in Requests, NEW id \in CallIds, RequestBye(r, id)
        PROVE  UniqueIdInv'
    BY <2>19 DEF RequestBye
  <2>20. ASSUME NEW b \in byes, ByeConfirmed(b)
        PROVE  UniqueIdInv'
    BY <2>20 DEF ByeConfirmed
  <2>21. ASSUME NEW b \in byes, ByeFailed(b)
        PROVE  UniqueIdInv'
    BY <2>21 DEF ByeFailed
  <2>22. ASSUME NEW c \in Conns, Connect(c)
        PROVE  UniqueIdInv'
    BY <2>22 DEF Connect
  <2>23. ASSUME NEW c \in Conns, Disconnect(c)
        PROVE  UniqueIdInv'
    BY <2>23 DEF Disconnect
  <2>24. ASSUME Drain
        PROVE  UniqueIdInv'
    BY <2>24 DEF Drain
  <2>25. ASSUME Stop
        PROVE  UniqueIdInv'
    BY <2>25 DEF Stop
  <2>26. ASSUME Exit
        PROVE  UniqueIdInv'
    BY <2>26 DEF Exit
  <2>27. CASE UNCHANGED vars
    BY <2>27 DEF vars
  <2>28. QED
    BY <2>1, <2>2, <2>3, <2>4, <2>5, <2>6, <2>7, <2>8, <2>9, <2>10, <2>11, <2>12, <2>13, <2>14, <2>15, <2>16, <2>17, <2>18, <2>19, <2>20, <2>21, <2>22, <2>23, <2>24, <2>25, <2>26, <2>27 DEF Next, InboundStep, OutboundStep, SettleOutbound, ByeStep, ConnStep, LifecycleStep, QuietStop, DeadlineStop, CleanExit, TimeoutExit, Terminated
<1>3. QED
  BY <1>1, <1>2, TypeCorrect, PTL DEF Spec

(* Without reuse, a dialog that is up is registered or being ended, in *)
(* every intermediate state of a handler, a teardown or shutdown.      *)
LEMMA DialogInvariant ==
    ASSUME ~CallIdReuse PROVE Spec => []DialogInv
<1>1. Init => DialogInv
  BY DEF Init, DialogInv, NoForgottenDialog
<1>2. TypeOK /\ RegistryInv /\ TerminalInv /\ UniqueIdInv /\ DialogInv /\ [Next]_vars => DialogInv'
  <2> SUFFICES ASSUME TypeOK, RegistryInv, TerminalInv, UniqueIdInv, DialogInv, [Next]_vars
               PROVE  DialogInv'
    OBVIOUS
  <2> USE ConstantsAssumption DEF TypeOK, PCs, DialogInv, NoForgottenDialog, registryVars, pendingVars
  <2>1. ASSUME NEW l \in Legs, RefuseInvite(l)
        PROVE  DialogInv'
    <3>1. LegsIn(calls)' = LegsIn(calls)
      BY <2>1 DEF RefuseInvite, LegsIn
    <3>2. QED
      BY <3>1, <2>1 DEF RefuseInvite
  <2>2. ASSUME NEW l \in Legs, NEW b \in Bases, NEW c \in Owners, AdmitInvite(l, b, c)
        PROVE  DialogInv'
    <3>1. LegsIn(calls)' = LegsIn(calls)
      BY <2>2 DEF AdmitInvite, LegsIn
    <3>2. QED
      BY <3>1, <2>2 DEF AdmitInvite
  <2>3. ASSUME NEW l \in Legs, RejectInvite(l)
        PROVE  DialogInv'
    <3>1. LegsIn(calls)' = LegsIn(calls)
      BY <2>3 DEF RejectInvite, LegsIn
    <3>2. QED
      BY <3>1, <2>3 DEF RejectInvite
  <2>4. ASSUME NEW l \in Legs, AcceptInvite(l)
        PROVE  DialogInv'
    <3>1. LegsIn(calls)' = LegsIn(calls)
      BY <2>4 DEF AcceptInvite, LegsIn
    <3>2. CASE pc' = [pc EXCEPT ![l] = "Answering"]
      BY <3>1, <3>2, <2>4 DEF AcceptInvite
    <3>3. CASE pc' = [pc EXCEPT ![l] = "Cancelled"]
      BY <3>1, <3>3, <2>4 DEF AcceptInvite
    <3>4. QED
      BY <3>2, <3>3, <2>4 DEF AcceptInvite
  <2>5. ASSUME NEW l \in Legs, FailDecision(l)
        PROVE  DialogInv'
    <3>1. callId[l] \in CallIds /\ calls[callId[l]] = NoLeg
      BY <2>5 DEF FailDecision, RegistryInv, CallIdNamesOneLeg, HandledLegHasId, InSetup
    <3>2. LegsIn(calls)' = LegsIn(calls)
      BY <3>1, <2>5 DEF FailDecision, Removed, LegsIn
    <3>3. QED
      BY <3>2, <2>5 DEF FailDecision
  <2>6. ASSUME NEW l \in Legs, FailAnswer(l)
        PROVE  DialogInv'
    <3>1. callId[l] \in CallIds /\ calls[callId[l]] = NoLeg
      BY <2>6 DEF FailAnswer, RegistryInv, CallIdNamesOneLeg, HandledLegHasId, InSetup
    <3>2. LegsIn(calls)' = LegsIn(calls)
      BY <3>1, <2>6 DEF FailAnswer, Removed, LegsIn
    <3>3. QED
      BY <3>2, <2>6 DEF FailAnswer
  <2>7. ASSUME NEW l \in Legs, AnswerInvite(l)
        PROVE  DialogInv'
    <3>1. callId[l] \in CallIds /\ calls[callId[l]] = NoLeg
      BY <2>7 DEF AnswerInvite, RegistryInv, CallIdNamesOneLeg, HandledLegHasId, InSetup
    <3>2. LegsIn(calls)' = LegsIn(calls) \union {l}
      BY <3>1, <2>7, ActivatedAddsOne DEF AnswerInvite
    <3>3. QED
      BY <3>2, <2>7 DEF AnswerInvite
  <2>8. ASSUME NEW l \in Legs, AnswerWhileStopping(l)
        PROVE  DialogInv'
    <3>1. callId[l] \in CallIds /\ calls[callId[l]] = NoLeg
      BY <2>8 DEF AnswerWhileStopping, RegistryInv, CallIdNamesOneLeg, HandledLegHasId, InSetup
    <3>2. LegsIn(calls)' = LegsIn(calls)
      BY <3>1, <2>8 DEF AnswerWhileStopping, Removed, LegsIn
    <3>3. QED
      BY <3>2, <2>8 DEF AnswerWhileStopping
  <2>9. ASSUME NEW l \in Legs, AbortSettled(l)
        PROVE  DialogInv'
    <3>1. LegsIn(calls)' = LegsIn(calls)
      BY <2>9 DEF AbortSettled, LegsIn
    <3>2. CASE DestroyConfirmed(l)
      BY <3>1, <3>2, <2>9 DEF AbortSettled, DestroyConfirmed, TerminalInv
    <3>3. CASE DestroyFailed(l)
      BY <3>1, <3>3, <2>9 DEF AbortSettled, DestroyFailed
    <3>4. QED
      BY <3>2, <3>3, <2>9 DEF AbortSettled
  <2>10. ASSUME NEW l \in Legs, NEW c \in Owners, CreateOutbound(l, c)
        PROVE  DialogInv'
    <3>1. LegsIn(calls)' = LegsIn(calls)
      BY <2>10 DEF CreateOutbound, LegsIn
    <3>2. QED
      BY <3>1, <2>10 DEF CreateOutbound
  <2>11. ASSUME NEW l \in Legs, NEW c \in Owners, CancelOutbound(l, c)
        PROVE  DialogInv'
    <3>1. LegsIn(calls)' = LegsIn(calls)
      BY <2>11 DEF CancelOutbound, LegsIn
    <3>2. QED
      BY <3>1, <2>11 DEF CancelOutbound
  <2>12. ASSUME NEW l \in Legs, OutboundRequestSent(l)
        PROVE  DialogInv'
    <3>1. LegsIn(calls)' = LegsIn(calls)
      BY <2>12 DEF OutboundRequestSent, LegsIn
    <3>2. QED
      BY <3>1, <2>12 DEF OutboundRequestSent
  <2>13. ASSUME NEW l \in Legs, FailOutbound(l)
        PROVE  DialogInv'
    <3>1. LegsIn(calls)' = LegsIn(calls)
      BY <2>13 DEF FailOutbound, LegsIn
    <3>2. QED
      BY <3>1, <2>13 DEF FailOutbound
  <2>14. ASSUME NEW l \in Legs, NEW b \in Bases, AnswerOutbound(l, b)
        PROVE  DialogInv'
    <3>1. LegsIn(calls)' = LegsIn(calls) \union {l}
      BY <2>14, ReservedIdIsFree, ActivatedAddsOne DEF AnswerOutbound
    <3>2. QED
      BY <3>1, <2>14 DEF AnswerOutbound
  <2>15. ASSUME NEW l \in Legs, AnswerUnwanted(l)
        PROVE  DialogInv'
    <3>1. LegsIn(calls)' = LegsIn(calls)
      BY <2>15 DEF AnswerUnwanted, LegsIn
    <3>2. QED
      BY <3>1, <2>15 DEF AnswerUnwanted
  <2>16. ASSUME NEW l \in Legs, HangUpSettled(l)
        PROVE  DialogInv'
    <3>1. LegsIn(calls)' = LegsIn(calls)
      BY <2>16 DEF HangUpSettled, LegsIn
    <3>2. CASE DestroyConfirmed(l)
      BY <3>1, <3>2, <2>16 DEF HangUpSettled, DestroyConfirmed, TerminalInv
    <3>3. CASE DestroyFailed(l)
      BY <3>1, <3>3, <2>16 DEF HangUpSettled, DestroyFailed
    <3>4. QED
      BY <3>2, <3>3, <2>16 DEF HangUpSettled
  <2>17. ASSUME NEW l \in Legs, RemoteHangUp(l)
        PROVE  DialogInv'
    <3>1. l \in Legs /\ callId[l] \in CallIds
      BY <2>17 DEF RemoteHangUp, RegistryInv, HandledLegHasId, TerminalInv
    <3>2. LegsIn(calls)' = LegsIn(calls) \ {calls[callId[l]]}
      BY <3>1, <2>17, RemovedLeavesTheOthers DEF RemoteHangUp
    <3>3. calls[callId[l]] \in {l, NoLeg}
      BY <3>1 DEF UniqueIdInv, RegistryInv, CallIdNamesOneLeg
    <3>4. QED
      BY <3>1, <3>2, <3>3, <2>17 DEF RemoteHangUp
  <2>18. ASSUME NEW l \in Legs, DropSettled(l)
        PROVE  DialogInv'
    <3>1. LegsIn(calls)' = LegsIn(calls)
      BY <2>18 DEF DropSettled, LegsIn
    <3>2. CASE DestroyConfirmed(l)
      BY <3>1, <3>2, <2>18 DEF DropSettled, DestroyConfirmed, TerminalInv
    <3>3. CASE DestroyFailed(l)
      BY <3>1, <3>3, <2>18 DEF DropSettled, DestroyFailed
    <3>4. QED
      BY <3>2, <3>3, <2>18 DEF DropSettled
  <2>19. ASSUME NEW r \in Requests, NEW id \in CallIds, RequestBye(r, id)
        PROVE  DialogInv'
    <3>1. LegsIn(calls)' = LegsIn(calls)
      BY <2>19 DEF RequestBye, LegsIn
    <3>2. QED
      BY <3>1, <2>19 DEF RequestBye
  <2>20. ASSUME NEW b \in byes, ByeConfirmed(b)
        PROVE  DialogInv'
    <3>1. b[2] \in Legs /\ callId[b[2]] \in CallIds
      BY <2>20 DEF ByeConfirmed, RegistryInv, HandledLegHasId, TerminalInv
    <3>2. LegsIn(calls)' = LegsIn(calls) \ {calls[callId[b[2]]]}
      BY <3>1, <2>20, RemovedLeavesTheOthers DEF ByeConfirmed
    <3>3. calls[callId[b[2]]] \in {b[2], NoLeg}
      BY <3>1 DEF UniqueIdInv, RegistryInv, CallIdNamesOneLeg
    <3>4. QED
      BY <3>1, <3>2, <3>3, <2>20 DEF ByeConfirmed
  <2>21. ASSUME NEW b \in byes, ByeFailed(b)
        PROVE  DialogInv'
    <3>1. LegsIn(calls)' = LegsIn(calls)
      BY <2>21 DEF ByeFailed, LegsIn
    <3>2. QED
      BY <3>1, <2>21 DEF ByeFailed
  <2>22. ASSUME NEW c \in Conns, Connect(c)
        PROVE  DialogInv'
    <3>1. LegsIn(calls)' = LegsIn(calls)
      BY <2>22 DEF Connect, LegsIn
    <3>2. QED
      BY <3>1, <2>22 DEF Connect
  <2>23. ASSUME NEW c \in Conns, Disconnect(c)
        PROVE  DialogInv'
    <3>1. LegsIn(calls)' = LegsIn(calls) \ OwnedCalls(c)
      BY <2>23 DEF Disconnect, TerminateCallsForControlConnection, LegsIn, OwnedCalls
    <3>2. QED
      BY <3>1, <2>23 DEF Disconnect, TerminateCallsForControlConnection
  <2>24. ASSUME Drain
        PROVE  DialogInv'
    <3>1. LegsIn(calls)' = LegsIn(calls)
      BY <2>24 DEF Drain, LegsIn
    <3>2. QED
      BY <3>1, <2>24 DEF Drain
  <2>25. ASSUME Stop
        PROVE  DialogInv'
    <3>1. LegsIn(calls)' = LegsIn(calls)
      BY <2>25 DEF Stop, LegsIn
    <3>2. QED
      BY <3>1, <2>25 DEF Stop
  <2>26. ASSUME Exit
        PROVE  DialogInv'
    <3>1. LegsIn(calls)' = LegsIn(calls)
      BY <2>26 DEF Exit, LegsIn
    <3>2. QED
      BY <3>1, <2>26 DEF Exit
  <2>27. CASE UNCHANGED vars
    <3>1. LegsIn(calls)' = LegsIn(calls)
      BY <2>27 DEF vars, LegsIn
    <3>2. QED
      BY <3>1, <2>27 DEF vars
  <2>28. QED
    BY <2>1, <2>2, <2>3, <2>4, <2>5, <2>6, <2>7, <2>8, <2>9, <2>10, <2>11, <2>12, <2>13, <2>14, <2>15, <2>16, <2>17, <2>18, <2>19, <2>20, <2>21, <2>22, <2>23, <2>24, <2>25, <2>26, <2>27 DEF Next, InboundStep, OutboundStep, SettleOutbound, ByeStep, ConnStep, LifecycleStep, QuietStop, DeadlineStop, CleanExit, TimeoutExit, Terminated
<1>3. QED
  BY <1>1, <1>2, TypeCorrect, RegistryInvariant, TerminalInvariant, UniqueIdInvariant, PTL DEF Spec

(* As long as SIP Call-IDs are unique in time, no dialog is ever forgotten. *)
THEOREM NoDialogIsForgotten ==
    ASSUME ~CallIdReuse PROVE Spec => []NoForgottenDialog
  BY DialogInvariant, PTL DEF DialogInv

(* And then a drain that ends early finds nobody on the line. *)
THEOREM QuietStopIsQuiet ==
    ASSUME ~CallIdReuse PROVE Spec => QuietStopCutsNobodyOff
<1>1. TypeOK /\ DialogInv /\ [Next]_vars
         => [QuietStop => \A l \in Legs : dialog[l] = "Up" => l \in undestroyed]_vars
  BY DEF DialogInv, NoForgottenDialog, QuietStop, NoPendingOperations, NoActiveResources,
         PendingInbound, PendingOutbound
<1>2. QED
  BY <1>1, TypeCorrect, DialogInvariant, PTL DEF Spec, QuietStopCutsNobodyOff

(* And an owner that was told a call is over is not told so while the far   *)
(* end is still on the line: an event is produced for a leg that is Bound or*)
(* Over, and in both places a dialog that is up either owes its event still *)
(* or is one whose destroy failed.                                          *)
THEOREM TerminatedCallsAreDown ==
    ASSUME ~CallIdReuse PROVE Spec => []TerminatedMeansDown
<1>1. TypeOK /\ TerminalInv /\ DialogInv => TerminatedMeansDown
  <2> SUFFICES ASSUME TypeOK, TerminalInv, DialogInv, NEW l \in Legs,
                      terminal[l] > 0, l \notin undestroyed, dialog[l] = "Up"
               PROVE  FALSE
    BY DEF TerminatedMeansDown
  <2>1. terminal[l] # 0 /\ pc[l] \in {"Bound", "Over"}
    BY DEF TypeOK, TerminalInv
  <2>2. pc[l] = "Bound"
    BY <2>1 DEF DialogInv
  <2>3. l \in LegsIn(calls) \union dropping
    BY <2>2 DEF DialogInv, NoForgottenDialog
  <2>4. QED
    BY <2>1, <2>2, <2>3 DEF TerminalInv, TerminalEventExactlyOnce
<1>2. QED
  BY <1>1, TypeCorrect, TerminalInvariant, DialogInvariant, PTL

-----------------------------------------------------------------------------
(* CallSdp.  What its proofs need of a step of the gateway: a leg that has  *)
(* become a call keeps its id and its owner, and never enters the registry  *)
(* a second time.                                                           *)
KeepsBoundLegs ==
    /\ \A l \in Legs : pc[l] = "Bound" =>
          pc'[l] = "Bound" /\ callId'[l] = callId[l] /\ owner'[l] = owner[l]
    /\ \A l \in LegsIn(calls') : l \in LegsIn(calls) \/ pc[l] # "Bound"

LEMMA GatewayKeepsBoundLegs ==
    ASSUME TypeOK, [Next]_vars PROVE KeepsBoundLegs
<1> USE ConstantsAssumption DEF TypeOK, KeepsBoundLegs, LegsIn, registryVars, pendingVars
<1>1. ASSUME NEW l \in Legs, RefuseInvite(l)
      PROVE  KeepsBoundLegs
  BY <1>1 DEF RefuseInvite
<1>2. ASSUME NEW l \in Legs, NEW b \in Bases, NEW c \in Owners, AdmitInvite(l, b, c)
      PROVE  KeepsBoundLegs
  BY <1>2 DEF AdmitInvite
<1>3. ASSUME NEW l \in Legs, RejectInvite(l)
      PROVE  KeepsBoundLegs
  BY <1>3 DEF RejectInvite
<1>4. ASSUME NEW l \in Legs, AcceptInvite(l)
      PROVE  KeepsBoundLegs
  BY <1>4 DEF AcceptInvite
<1>5. ASSUME NEW l \in Legs, FailDecision(l)
      PROVE  KeepsBoundLegs
  BY <1>5 DEF FailDecision, Removed
<1>6. ASSUME NEW l \in Legs, FailAnswer(l)
      PROVE  KeepsBoundLegs
  BY <1>6 DEF FailAnswer, Removed
<1>7. ASSUME NEW l \in Legs, AnswerInvite(l)
      PROVE  KeepsBoundLegs
  BY <1>7 DEF AnswerInvite, Activated
<1>8. ASSUME NEW l \in Legs, AnswerWhileStopping(l)
      PROVE  KeepsBoundLegs
  BY <1>8 DEF AnswerWhileStopping, Removed
<1>9. ASSUME NEW l \in Legs, AbortSettled(l)
      PROVE  KeepsBoundLegs
  BY <1>9 DEF AbortSettled
<1>10. ASSUME NEW l \in Legs, NEW c \in Owners, CreateOutbound(l, c)
      PROVE  KeepsBoundLegs
  BY <1>10 DEF CreateOutbound
<1>11. ASSUME NEW l \in Legs, NEW c \in Owners, CancelOutbound(l, c)
      PROVE  KeepsBoundLegs
  BY <1>11 DEF CancelOutbound
<1>12. ASSUME NEW l \in Legs, OutboundRequestSent(l)
      PROVE  KeepsBoundLegs
  BY <1>12 DEF OutboundRequestSent
<1>13. ASSUME NEW l \in Legs, FailOutbound(l)
      PROVE  KeepsBoundLegs
  BY <1>13 DEF FailOutbound
<1>14. ASSUME NEW l \in Legs, NEW b \in Bases, AnswerOutbound(l, b)
      PROVE  KeepsBoundLegs
  BY <1>14 DEF AnswerOutbound, Activated
<1>15. ASSUME NEW l \in Legs, AnswerUnwanted(l)
      PROVE  KeepsBoundLegs
  BY <1>15 DEF AnswerUnwanted
<1>16. ASSUME NEW l \in Legs, HangUpSettled(l)
      PROVE  KeepsBoundLegs
  BY <1>16 DEF HangUpSettled
<1>17. ASSUME NEW l \in Legs, RemoteHangUp(l)
      PROVE  KeepsBoundLegs
  BY <1>17 DEF RemoteHangUp, Removed
<1>18. ASSUME NEW l \in Legs, DropSettled(l)
      PROVE  KeepsBoundLegs
  BY <1>18 DEF DropSettled
<1>19. ASSUME NEW r \in Requests, NEW id \in CallIds, RequestBye(r, id)
      PROVE  KeepsBoundLegs
  BY <1>19 DEF RequestBye
<1>20. ASSUME NEW b \in byes, ByeConfirmed(b)
      PROVE  KeepsBoundLegs
  BY <1>20 DEF ByeConfirmed, Removed
<1>21. ASSUME NEW b \in byes, ByeFailed(b)
      PROVE  KeepsBoundLegs
  BY <1>21 DEF ByeFailed
<1>22. ASSUME NEW c \in Conns, Connect(c)
      PROVE  KeepsBoundLegs
  BY <1>22 DEF Connect
<1>23. ASSUME NEW c \in Conns, Disconnect(c)
      PROVE  KeepsBoundLegs
  BY <1>23 DEF Disconnect, TerminateCallsForControlConnection
<1>24. ASSUME Drain
      PROVE  KeepsBoundLegs
  BY <1>24 DEF Drain
<1>25. ASSUME Stop
      PROVE  KeepsBoundLegs
  BY <1>25 DEF Stop
<1>26. ASSUME Exit
      PROVE  KeepsBoundLegs
  BY <1>26 DEF Exit
<1>27. CASE UNCHANGED vars
  BY <1>27 DEF vars
<1>28. QED
  BY <1>1, <1>2, <1>3, <1>4, <1>5, <1>6, <1>7, <1>8, <1>9, <1>10, <1>11, <1>12, <1>13, <1>14, <1>15, <1>16, <1>17, <1>18, <1>19, <1>20, <1>21, <1>22, <1>23, <1>24, <1>25, <1>26, <1>27
     DEF Next, InboundStep, OutboundStep, SettleOutbound, ByeStep, ConnStep, LifecycleStep,
         QuietStop, DeadlineStop, CleanExit, TimeoutExit, Terminated

(* Every step of CallSdp is a step of SipGateway or leaves it alone, so what *)
(* is proved of the gateway holds while re-INVITEs are under way.            *)
THEOREM CallSdpImplementsGateway == SdpSpec => Spec
<1>1. SdpInit => Init
  BY DEF SdpInit
<1>2. [SdpNext]_callVars => [Next]_vars
  BY DEF SdpNext, GatewayStep, ReinviteNext, Reinvite, ModifyDone, ModifyFails, AskOwner,
         RefuseModify, RemoteModify, OwnerAccepts, OwnerRefuses, Accepted, Refused, callVars
<1>3. QED
  BY <1>1, <1>2, PTL DEF SdpSpec, Spec

(* The dialog of a re-INVITE under way is that of a call, and the id the   *)
(* handler goes on with is that call's.                                    *)
UnderWay(m) == reinvite[m].pc \in {"sent", "asked"}

ReinviteOfACall ==
    \A m \in Reinvites : UnderWay(m) =>
        /\ reinvite[m].dialog \in Legs
        /\ pc[reinvite[m].dialog] = "Bound"
        /\ reinvite[m].callId = callId[reinvite[m].dialog]

SdpTypes == SdpTypeOK /\ ReinviteOfACall

(* Looking up an id finds a leg that has become a call under that id. *)
LEMMA FoundIsACall ==
    ASSUME TypeOK, RegistryInv, NEW id \in CallIds, Found(id)
    PROVE  calls[id] \in Legs /\ pc[calls[id]] = "Bound" /\ callId[calls[id]] = id
  BY ConstantsAssumption DEF TypeOK, RegistryInv, CallIdNamesOneLeg, Found

(* A re-INVITE that is over is under way no more. *)
LEMMA SettledTypes ==
    ASSUME SdpTypes, NEW m \in Reinvites, reinvite' = [reinvite EXCEPT ![m].pc = "over"],
           UNCHANGED vars,
           recorded' \in [Legs -> Reinvites \union {NoReinvite}],
           agreed' \in [Legs -> Reinvites \union {NoReinvite}]
    PROVE  SdpTypes'
<1> DEFINE Transactions == [pc : {"none", "sent", "asked", "over"}, dialog : Legs \union {NoLeg},
                            callId : CallIds \union {NoId}, call : Legs \union {NoLeg}]
<1>1. SdpTypeOK'
  <2>1. reinvite \in [Reinvites -> Transactions]
    BY DEF SdpTypes, SdpTypeOK
  <2>2. reinvite[m] \in Transactions
    BY <2>1
  <2>3. [reinvite[m] EXCEPT !.pc = "over"] \in Transactions
    BY <2>2
  <2> HIDE DEF Transactions
  <2>4. reinvite' \in [Reinvites -> Transactions]
    BY <2>1, <2>3
  <2>5. QED
    BY <2>4 DEF SdpTypeOK, Transactions
<1>2. \A k \in Reinvites : UnderWay(k)' => UnderWay(k) /\ reinvite'[k] = reinvite[k]
  BY DEF SdpTypes, SdpTypeOK, UnderWay
<1>3. ReinviteOfACall'
  BY <1>2 DEF SdpTypes, ReinviteOfACall, vars
<1>4. QED
  BY <1>1, <1>3 DEF SdpTypes

(* An answer records a re-INVITE, for one leg at most. *)
LEMMA AcceptedTypes ==
    ASSUME SdpTypes, NEW m \in Reinvites, Accepted(m)
    PROVE  SdpTypes'
<1>1. recorded' \in [Legs -> Reinvites \union {NoReinvite}]
  BY DEF SdpTypes, SdpTypeOK, Accepted, UpdatedSdp
<1>2. agreed' \in [Legs -> Reinvites \union {NoReinvite}]
  BY DEF SdpTypes, SdpTypeOK, Accepted
<1>3. QED
  BY <1>1, <1>2, SettledTypes DEF Accepted

LEMMA SdpTypesStep ==
    ASSUME TypeOK, RegistryInv, SdpTypes, [SdpNext]_callVars
    PROVE  SdpTypes'
<1>1. recorded \in [Legs -> Reinvites \union {NoReinvite}]
      /\ agreed \in [Legs -> Reinvites \union {NoReinvite}]
  BY DEF SdpTypes, SdpTypeOK
<1>2. CASE GatewayStep
  <2>1. KeepsBoundLegs
    BY <1>2, GatewayKeepsBoundLegs DEF GatewayStep
  <2>2. SdpTypeOK'
    BY <1>2 DEF GatewayStep, SdpTypes, SdpTypeOK
  <2>3. \A m \in Reinvites : UnderWay(m)' => UnderWay(m) /\ reinvite'[m] = reinvite[m]
    BY <1>2 DEF GatewayStep, SdpTypes, SdpTypeOK, UnderWay
  <2>4. ReinviteOfACall'
    BY <2>1, <2>3 DEF KeepsBoundLegs, SdpTypes, ReinviteOfACall
  <2>5. QED
    BY <2>2, <2>4 DEF SdpTypes
<1>3. ASSUME NEW m \in Reinvites, NEW id \in CallIds, Reinvite(m, id)
      PROVE  SdpTypes'
  <2>1. calls[id] \in Legs /\ pc[calls[id]] = "Bound" /\ callId[calls[id]] = id
    BY <1>3, FoundIsACall DEF Reinvite
  <2>2. SdpTypeOK'
    BY <1>3, <2>1 DEF Reinvite, SdpTypes, SdpTypeOK
  <2>3. ReinviteOfACall'
    BY <1>3, <2>1 DEF Reinvite, SdpTypes, SdpTypeOK, ReinviteOfACall, UnderWay, vars
  <2>4. QED
    BY <2>2, <2>3 DEF SdpTypes
<1>4. ASSUME NEW m \in Reinvites, NEW l \in Legs, AskOwner(m, l)
      PROVE  SdpTypes'
  <2>1. callId[l] \in CallIds
    BY <1>4 DEF AskOwner, RemoteModify, RegistryInv, HandledLegHasId
  <2>2. calls[callId[l]] \in Legs
    BY <1>4, <2>1, FoundIsACall DEF AskOwner
  <2>3. SdpTypeOK'
    BY <1>4, <2>1, <2>2 DEF AskOwner, Asks, RemoteModify, SdpTypes, SdpTypeOK
  <2>4. ReinviteOfACall'
    BY <1>4 DEF AskOwner, Asks, RemoteModify, SdpTypes, SdpTypeOK, ReinviteOfACall, UnderWay, vars
  <2>5. QED
    BY <2>3, <2>4 DEF SdpTypes
<1>5. ASSUME NEW m \in Reinvites, NEW l \in Legs, RefuseModify(m, l)
      PROVE  SdpTypes'
  BY <1>1, <1>5, SettledTypes DEF RefuseModify, RemoteModify
<1>6. ASSUME NEW m \in Reinvites, Accepted(m)
      PROVE  SdpTypes'
  BY <1>6, AcceptedTypes
<1>7. ASSUME NEW m \in Reinvites, Refused(m)
      PROVE  SdpTypes'
  BY <1>1, <1>7, SettledTypes DEF Refused
<1>8. CASE UNCHANGED callVars
  BY <1>8 DEF callVars, sdpVars, vars, SdpTypes, SdpTypeOK, ReinviteOfACall, UnderWay
<1>9. QED
  BY <1>2, <1>3, <1>4, <1>5, <1>6, <1>7, <1>8
     DEF SdpNext, ReinviteNext, ModifyDone, ModifyFails, OwnerAccepts, OwnerRefuses

LEMMA SdpTypesInvariant == SdpSpec => []SdpTypes
<1>1. SdpInit => SdpTypes
  BY DEF SdpInit, SdpTypes, SdpTypeOK, ReinviteOfACall, UnderWay
<1>2. QED
  BY <1>1, SdpTypesStep, CallSdpImplementsGateway, TypeCorrect, RegistryInvariant, PTL DEF SdpSpec

(* A re-INVITE names a leg and an id, and a call is recorded with one. *)
THEOREM SdpTypeCorrect == SdpSpec => []SdpTypeOK
  BY SdpTypesInvariant, PTL DEF SdpTypes

(* Without reuse of SIP Call-IDs, the id of a call finds that call as long *)
(* as it is registered, and nothing afterwards.                            *)
LEMMA IdFindsItsCall ==
    ASSUME TypeOK, RegistryInv, UniqueIdInv, NEW l \in Legs, pc[l] = "Bound"
    PROVE  /\ callId[l] \in CallIds
           /\ Found(callId[l]) => calls[callId[l]] = l
           /\ l \in LegsIn(calls) => Found(callId[l])
<1>1. callId[l] \in CallIds
  BY DEF RegistryInv, HandledLegHasId
<1>2. ASSUME Found(callId[l]) PROVE calls[callId[l]] = l
  BY <1>1, <1>2, FoundIsACall DEF UniqueIdInv
<1>3. ASSUME l \in LegsIn(calls) PROVE Found(callId[l])
  <2>1. PICK id \in CallIds : calls[id] = l /\ l # NoLeg
    BY <1>3 DEF LegsIn
  <2>2. callId[l] = id
    BY <2>1 DEF RegistryInv, CallIdNamesOneLeg
  <2>3. QED
    BY <2>1, <2>2 DEF Found
<1>4. QED
  BY <1>1, <1>2, <1>3

(* RecordedSdpIsAgreed strengthened: it holds of a leg before it is a call, *)
(* so that it holds of the call when it enters the registry.                *)
RecordInv ==
    /\ RecordedSdpIsAgreed
    /\ \A l \in Legs : pc[l] # "Bound" => recorded[l] = agreed[l]

(* An answer is recorded for the call whose dialog it was given on, or for *)
(* none if that call has ended.                                            *)
LEMMA AcceptedIsRecorded ==
    ASSUME TypeOK, RegistryInv, UniqueIdInv, SdpTypes, RecordInv,
           NEW m \in Reinvites, UnderWay(m), Accepted(m)
    PROVE  RecordInv'
<1> DEFINE l == reinvite[m].dialog
<1>1. l \in Legs /\ pc[l] = "Bound" /\ reinvite[m].callId = callId[l]
  BY DEF SdpTypes, ReinviteOfACall
<1>2. /\ Found(callId[l]) => calls[callId[l]] = l
      /\ l \in LegsIn(calls) => Found(callId[l])
  BY <1>1, IdFindsItsCall
<1>3. agreed' = [agreed EXCEPT ![l] = m] /\ recorded' = UpdatedSdp(callId[l], m)
  BY <1>1 DEF Accepted
<1>4. \A k \in Legs \ {l} : agreed'[k] = agreed[k] /\ recorded'[k] = recorded[k]
  BY <1>1, <1>2, <1>3 DEF UpdatedSdp, SdpTypes, SdpTypeOK
<1>5. l \in LegsIn(calls) => agreed'[l] = recorded'[l]
  BY <1>1, <1>2, <1>3 DEF UpdatedSdp, SdpTypes, SdpTypeOK
<1>6. LegsIn(calls)' = LegsIn(calls) /\ pc' = pc /\ LegsIn(calls) \subseteq Legs
  BY DEF Accepted, vars, LegsIn, TypeOK
<1>7. QED
  BY <1>1, <1>4, <1>5, <1>6 DEF RecordInv, RecordedSdpIsAgreed

LEMMA RecordStep ==
    ASSUME TypeOK, TypeOK', RegistryInv, UniqueIdInv, SdpTypes, RecordInv, [SdpNext]_callVars
    PROVE  RecordInv'
<1>1. CASE GatewayStep
  <2>1. KeepsBoundLegs
    BY <1>1, GatewayKeepsBoundLegs DEF GatewayStep
  <2>2. recorded' = recorded /\ agreed' = agreed
    BY <1>1 DEF GatewayStep
  <2>3. LegsIn(calls') \subseteq Legs
    BY DEF TypeOK, LegsIn
  <2>4. \A l \in LegsIn(calls') : recorded[l] = agreed[l]
    BY <2>1, <2>3 DEF KeepsBoundLegs, RecordInv, RecordedSdpIsAgreed
  <2>5. \A l \in Legs : pc'[l] # "Bound" => recorded[l] = agreed[l]
    BY <2>1 DEF KeepsBoundLegs, RecordInv
  <2>6. QED
    BY <2>2, <2>4, <2>5 DEF RecordInv, RecordedSdpIsAgreed, LegsIn
<1>2. ASSUME NEW m \in Reinvites, ModifyDone(m) \/ OwnerAccepts(m)
      PROVE  RecordInv'
  BY <1>2, AcceptedIsRecorded DEF ModifyDone, OwnerAccepts, UnderWay
<1>3. ASSUME UNCHANGED <<vars, recorded, agreed>>
      PROVE  RecordInv'
  BY <1>3 DEF RecordInv, RecordedSdpIsAgreed, LegsIn, vars
<1>4. ASSUME NEW m \in Reinvites, ReinviteNext(m)
      PROVE  ModifyDone(m) \/ OwnerAccepts(m) \/ UNCHANGED <<vars, recorded, agreed>>
  BY <1>4 DEF ReinviteNext, Reinvite, ModifyFails, AskOwner, RefuseModify, RemoteModify,
              OwnerRefuses, Refused
<1>5. CASE UNCHANGED callVars
  BY <1>3, <1>5 DEF callVars, sdpVars
<1>6. QED
  BY <1>1, <1>2, <1>3, <1>4, <1>5 DEF SdpNext

(* The registry never records for a call an SDP that its two ends did not   *)
(* agree on last, however many re-INVITEs of either side overlap and        *)
(* whatever becomes of their calls meanwhile.                               *)
THEOREM RecordedSdp ==
    ASSUME ~CallIdReuse PROVE SdpSpec => []RecordedSdpIsAgreed
<1>1. SdpInit => RecordInv
  BY DEF SdpInit, Init, RecordInv, RecordedSdpIsAgreed, LegsIn
<1>2. SdpSpec => []RecordInv
  BY <1>1, RecordStep, SdpTypesInvariant, CallSdpImplementsGateway, TypeCorrect,
     RegistryInvariant, UniqueIdInvariant, PTL DEF SdpSpec
<1>3. QED
  BY <1>2, PTL DEF RecordInv

LEMMA AskingStep ==
    ASSUME TypeOK, RegistryInv, UniqueIdInv, SdpTypes, ReinviteAsksItsOwner,
           [SdpNext]_callVars
    PROVE  ReinviteAsksItsOwner'
<1>1. CASE GatewayStep
  <2> SUFFICES ASSUME NEW m \in Reinvites, reinvite'[m].pc = "asked"
               PROVE  /\ reinvite'[m].call = reinvite'[m].dialog
                      /\ Connected(owner[reinvite[m].dialog])'
                      /\ reinvite'[m] = reinvite[m]
    BY DEF ReinviteAsksItsOwner, Connected
  <2>1. m \notin Unanswered /\ reinvite'[m] = reinvite[m]
    BY <1>1 DEF GatewayStep, SdpTypes, SdpTypeOK
  <2>2. reinvite[m].call = reinvite[m].dialog
    BY <2>1 DEF ReinviteAsksItsOwner
  <2>3. reinvite[m].dialog \in Legs /\ pc[reinvite[m].dialog] = "Bound"
    BY <2>1 DEF SdpTypes, ReinviteOfACall, UnderWay
  <2>4. \A c \in Conns : owner[reinvite[m].dialog] = c => conn'[c] = "Open"
    BY <2>1, <2>2 DEF Unanswered
  <2>5. owner'[reinvite[m].dialog] = owner[reinvite[m].dialog]
    BY <1>1, <2>3, GatewayKeepsBoundLegs DEF GatewayStep, KeepsBoundLegs
  <2>6. owner[reinvite[m].dialog] \in Conns \union {NoConn}
    BY <2>3 DEF TypeOK, Owners
  <2>7. QED
    BY <2>1, <2>2, <2>4, <2>5, <2>6 DEF Connected
<1>2. ASSUME NEW m \in Reinvites, NEW l \in Legs, AskOwner(m, l)
      PROVE  ReinviteAsksItsOwner'
  <2>1. calls[callId[l]] = l
    BY <1>2, IdFindsItsCall DEF AskOwner, RemoteModify
  <2>2. reinvite' = [reinvite EXCEPT ![m] = [pc |-> "asked", dialog |-> l,
                                             callId |-> callId[l], call |-> l]]
    BY <1>2, <2>1 DEF AskOwner, Asks
  <2>3. Connected(owner[l]) /\ UNCHANGED vars
    BY <1>2, <2>1 DEF AskOwner, RemoteModify
  <2>4. QED
    BY <2>2, <2>3 DEF ReinviteAsksItsOwner, Connected, vars, SdpTypes, SdpTypeOK
<1>3. ASSUME UNCHANGED vars,
             \A k \in Reinvites : reinvite'[k].pc = "asked" => reinvite'[k] = reinvite[k]
      PROVE  ReinviteAsksItsOwner'
  BY <1>3 DEF ReinviteAsksItsOwner, Connected, vars
<1>4. ASSUME NEW m \in Reinvites, ReinviteNext(m), \A l \in Legs : ~AskOwner(m, l)
      PROVE  /\ UNCHANGED vars
             /\ \A k \in Reinvites : reinvite'[k].pc = "asked" => reinvite'[k] = reinvite[k]
  <2>1. ASSUME NEW id \in CallIds, Reinvite(m, id)
        PROVE  \A k \in Reinvites : reinvite'[k].pc = "asked" => reinvite'[k] = reinvite[k]
    BY <2>1 DEF Reinvite, SdpTypes, SdpTypeOK
  <2>2. ASSUME reinvite' = [reinvite EXCEPT ![m].pc = "over"]
        PROVE  \A k \in Reinvites : reinvite'[k].pc = "asked" => reinvite'[k] = reinvite[k]
    BY <2>2 DEF SdpTypes, SdpTypeOK
  <2>3. \/ \E id \in CallIds : Reinvite(m, id)
        \/ reinvite' = [reinvite EXCEPT ![m].pc = "over"]
    BY <1>4 DEF ReinviteNext, ModifyDone, ModifyFails, RefuseModify, OwnerAccepts, OwnerRefuses,
                Accepted, Refused
  <2>4. UNCHANGED vars
    BY <1>4 DEF ReinviteNext, Reinvite, ModifyDone, ModifyFails, RefuseModify, RemoteModify,
                OwnerAccepts, OwnerRefuses, Accepted, Refused
  <2>5. QED
    BY <2>1, <2>2, <2>3, <2>4
<1>5. CASE UNCHANGED callVars
  BY <1>3, <1>5 DEF callVars, sdpVars
<1>6. QED
  BY <1>1, <1>2, <1>3, <1>4, <1>5 DEF SdpNext

(* The far end's re-INVITE waits for the application of its own call, and   *)
(* for none that has gone.                                                  *)
THEOREM ReinvitesAskTheirOwner ==
    ASSUME ~CallIdReuse PROVE SdpSpec => []ReinviteAsksItsOwner
<1>1. SdpInit => ReinviteAsksItsOwner
  BY DEF SdpInit, ReinviteAsksItsOwner
<1>2. QED
  BY <1>1, AskingStep, SdpTypesInvariant, CallSdpImplementsGateway, TypeCorrect,
     RegistryInvariant, UniqueIdInvariant, PTL DEF SdpSpec

(* The two together: a re-INVITE concerns the call on whose dialog it is. *)
THEOREM ReinvitesKeepToTheirCall ==
    ASSUME ~CallIdReuse PROVE SdpSpec => []ReinvitesConcernTheirCall
<1>1. RecordedSdpIsAgreed /\ ReinviteAsksItsOwner => ReinvitesConcernTheirCall
  BY DEF ReinvitesConcernTheirCall
<1>2. QED
  BY <1>1, RecordedSdp, ReinvitesAskTheirOwner, PTL
=============================================================================
