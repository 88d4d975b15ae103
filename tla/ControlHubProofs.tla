--------------------------- MODULE ControlHubProofs ---------------------------
(***************************************************************************)
(* The safety of the control hub for any connections, route lists and      *)
(* requests.  Its three invariants lean on each other: a request that is   *)
(* pending has a timer, is settled by nobody yet and went to a connection  *)
(* that is still registered, and a connection is registered exactly from   *)
(* its upgrade to the `close` event of its socket.                         *)
(***************************************************************************)
EXTENDS ControlHub, TLAPS

(* Connections and their routes. *)
ConnInv ==
    /\ ws \in [Conns -> {"none", "open", "closing", "closed"}]
    /\ connections \in Seq(Conns)
    /\ NoDuplicates(connections)
    /\ Registered = {c \in Conns : ws[c] \in {"open", "closing"}}
    /\ routes \in [Conns -> Seq(Keys)]
    /\ \A c \in Conns \ Registered : routes[c] = <<>>
    /\ OneOwnerPerRoute

(* Requests: timer, `pending` and the settlement move together. *)
RequestInv ==
    /\ pending \subseteq Requests
    /\ timers = pending
    /\ addressee \in [Requests -> Conns \union {NoConn}]
    /\ settlements \in [Requests -> Nat]
    /\ outcome \in [Requests -> {"none", "answered", "refused", "failed"}]
    /\ answeredBy \in [Requests -> Conns \union {NoConn}]
    /\ \A r \in pending : outcome[r] = "none" /\ addressee[r] # NoConn
    /\ \A r \in Requests : addressee[r] = NoConn => outcome[r] = "none"
    /\ SettledOnce

DrainInv ==
    /\ isDraining \in BOOLEAN
    /\ told \subseteq Conns
    /\ sequenceBySession \in [Conns -> [Sessions -> Nat]]
    /\ EveryOwnerIsTold

(* The inductive invariant. *)
IInv == ConnInv /\ RequestInv /\ DrainInv

-----------------------------------------------------------------------------
(* The list of the connections. *)

LEMMA UpgradeRegisters ==
  ASSUME ConnInv, NEW c \in Conns, c \notin Registered,
         connections' = Append(connections, c)
  PROVE  /\ connections' \in Seq(Conns) /\ NoDuplicates(connections')
         /\ Registered' = Registered \union {c}
  <1>1. /\ connections' \in Seq(Conns)
        /\ Len(connections') = Len(connections) + 1
        /\ connections'[Len(connections) + 1] = c
        /\ \A i \in 1..Len(connections) : connections'[i] = connections[i]
    BY DEF ConnInv
  <1>2. /\ DOMAIN connections = 1..Len(connections) /\ Len(connections) \in Nat
        /\ DOMAIN connections' = 1..(Len(connections) + 1)
    BY <1>1 DEF ConnInv
  <1>3. Registered' = Registered \union {c}
    BY <1>1, <1>2 DEF Registered
  <1>4. NoDuplicates(connections')
    BY <1>1, <1>2 DEF ConnInv, NoDuplicates, Registered
  <1> QED
    BY <1>1, <1>3, <1>4

LEMMA WithoutRemoves ==
  ASSUME ConnInv, NEW c \in Registered, connections' = Without(c)
  PROVE  /\ connections' \in Seq(Conns) /\ NoDuplicates(connections')
         /\ Registered' = Registered \ {c}
  <1> DEFINE n  == Len(connections)
             at == Position(c)
  <1>1. n \in Nat /\ DOMAIN connections = 1..n /\ \A i \in 1..n : connections[i] \in Conns
    BY DEF ConnInv
  <1>2. at \in 1..n /\ connections[at] = c
    BY <1>1 DEF Registered, Position
  <1> HIDE DEF n, at
  <1>3. /\ DOMAIN connections' = 1..(n - 1)
        /\ \A i \in 1..(n - 1) : connections'[i] = connections[IF i < at THEN i ELSE i + 1]
        /\ connections' = [i \in 1..(n - 1) |-> connections[IF i < at THEN i ELSE i + 1]]
    BY DEF Without, n, at
  <1>4. connections' \in Seq(Conns)
    <2>1. n - 1 \in Nat
      BY <1>1, <1>2
    <2>2. \A i \in 1..(n - 1) : connections[IF i < at THEN i ELSE i + 1] \in Conns
      BY <1>1, <1>2
    <2> QED
      BY <1>3, <2>1, <2>2
  <1>5. \A i, j \in 1..n : connections[i] = connections[j] => i = j
    BY <1>1 DEF ConnInv, NoDuplicates
  <1>6. NoDuplicates(connections')
    BY <1>1, <1>2, <1>3, <1>5 DEF NoDuplicates
  <1>7. ASSUME NEW d \in Registered', d \notin Registered \ {c}
        PROVE  FALSE
    BY <1>1, <1>2, <1>3, <1>5, <1>7 DEF Registered
  <1>8. ASSUME NEW d \in Registered \ {c}
        PROVE  d \in Registered'
    <2>1. PICK i \in 1..n : connections[i] = d
      BY <1>1 DEF Registered
    <2>2. i # at
      BY <1>2, <2>1, <1>8
    <2>3. PICK j \in 1..(n - 1) : (IF j < at THEN j ELSE j + 1) = i
      <3>1. CASE i < at
        BY <3>1, <1>1, <1>2
      <3>2. CASE i > at
        <4>1. i - 1 \in 1..(n - 1) /\ ~(i - 1 < at) /\ (i - 1) + 1 = i
          BY <3>2, <1>1, <1>2
        <4> QED
          BY <4>1
      <3> QED
        BY <2>2, <3>1, <3>2, <1>1, <1>2
    <2> QED
      BY <1>3, <2>1, <2>3 DEF Registered
  <1> QED
    BY <1>4, <1>6, <1>7, <1>8

-----------------------------------------------------------------------------
(* Requests. *)

(* Requests that are settled out of `pending` are settled for the first time. *)
LEMMA SettleStep ==
  ASSUME RequestInv, NEW ids \in SUBSET pending,
         NEW how \in {"answered", "refused", "failed"}, Settle(ids, how),
         UNCHANGED addressee,
         answeredBy' \in [Requests -> Conns \union {NoConn}],
         \A r \in Requests \ ids : answeredBy'[r] = answeredBy[r],
         how # "failed" => \A r \in ids : answeredBy'[r] = addressee[r],
         \A r \in pending \ ids : isConnected(addressee[r])'
  PROVE  RequestInv'
  <1>1. /\ pending' \subseteq Requests /\ timers' = pending'
        /\ \A r \in pending' : r \in pending /\ r \notin ids
    BY DEF RequestInv, Settle
  <1>2. /\ settlements' = [r \in Requests |-> IF r \in ids THEN settlements[r] + 1
                                                           ELSE settlements[r]]
        /\ outcome' = [r \in Requests |-> IF r \in ids /\ outcome[r] = "none" THEN how
                                                                            ELSE outcome[r]]
    BY DEF Settle, Settled
  <1>3. /\ settlements' \in [Requests -> Nat]
        /\ outcome' \in [Requests -> {"none", "answered", "refused", "failed"}]
    BY <1>2 DEF RequestInv
  <1>4. ASSUME NEW r \in Requests
        PROVE  /\ r \in ids => /\ settlements'[r] = settlements[r] + 1
                               /\ outcome'[r] = how
                               /\ outcome[r] = "none" /\ addressee[r] # NoConn
               /\ r \notin ids => settlements'[r] = settlements[r] /\ outcome'[r] = outcome[r]
    BY <1>2 DEF RequestInv
  <1>5. SettledOnce'
    <2>1. ASSUME NEW r \in Requests
          PROVE  /\ settlements'[r] = IF outcome'[r] = "none" THEN 0 ELSE 1
                 /\ outcome'[r] \in {"answered", "refused"} => answeredBy'[r] = addressee[r]
      <3>1. CASE r \in ids
        BY <3>1, <1>4 DEF RequestInv, SettledOnce
      <3>2. CASE r \notin ids
        BY <3>2, <1>4 DEF RequestInv, SettledOnce
      <3> QED
        BY <3>1, <3>2
    <2> QED
      BY <1>1, <2>1 DEF SettledOnce
  <1> QED
    BY <1>1, <1>3, <1>4, <1>5 DEF RequestInv

(* A request is given its id, and is pending or has failed at once. *)
LEMMA RequestStep ==
  ASSUME IInv, NEW r \in Requests, NEW c, Request(r, c)
  PROVE  IInv'
  <1>1. /\ c \in Registered /\ c \in Conns /\ c # NoConn
        /\ addressee[r] = NoConn /\ addressee' = [addressee EXCEPT ![r] = c]
        /\ UNCHANGED <<ws, connections, routes, sequenceBySession, drainVars>>
    BY HubAssumption DEF Request, isConnected, IInv, ConnInv
  <1>2. /\ Registered' = Registered
        /\ r \notin pending /\ outcome[r] = "none" /\ settlements[r] = 0
        /\ addressee' \in [Requests -> Conns \union {NoConn}]
        /\ addressee'[r] = c
        /\ \A q \in Requests \ {r} : addressee'[q] = addressee[q]
    BY <1>1 DEF Registered, IInv, RequestInv, SettledOnce
  <1>3. ConnInv' /\ DrainInv'
    BY <1>1, <1>2 DEF IInv, ConnInv, DrainInv, OneOwnerPerRoute, EveryOwnerIsTold, drainVars
  <1>4. ASSUME Send(r, c) PROVE RequestInv'
    <2>1. /\ pending' = pending \union {r} /\ timers' = timers \union {r}
          /\ UNCHANGED <<settlements, outcome, answeredBy>>
      BY <1>4 DEF Send, ArmTimer
    <2>2. SettledOnce'
      BY <1>1, <1>2, <2>1 DEF IInv, RequestInv, SettledOnce, isConnected
    <2> QED
      BY <1>1, <1>2, <2>1, <2>2 DEF IInv, RequestInv
  <1>5. ASSUME SendFails(r) PROVE RequestInv'
    <2>1. /\ UNCHANGED <<pending, timers, answeredBy>>
          /\ settlements' = [q \in Requests |-> IF q \in {r} THEN settlements[q] + 1
                                                             ELSE settlements[q]]
          /\ outcome' = [q \in Requests |-> IF q \in {r} /\ outcome[q] = "none"
                                            THEN "failed" ELSE outcome[q]]
      BY <1>5 DEF SendFails, Settled
    <2>2. /\ settlements'[r] = 1 /\ outcome'[r] = "failed"
          /\ \A q \in Requests \ {r} : /\ settlements'[q] = settlements[q]
                                        /\ outcome'[q] = outcome[q]
          /\ settlements' \in [Requests -> Nat]
          /\ outcome' \in [Requests -> {"none", "answered", "refused", "failed"}]
      BY <1>2, <2>1 DEF IInv, RequestInv
    <2>3. SettledOnce'
      BY <1>1, <1>2, <2>1, <2>2 DEF IInv, RequestInv, SettledOnce, isConnected
    <2> QED
      BY <1>1, <1>2, <2>1, <2>2, <2>3 DEF IInv, RequestInv
  <1> QED
    BY <1>3, <1>4, <1>5 DEF IInv, Request

-----------------------------------------------------------------------------
LEMMA InitInv == Init => IInv
  <1> SUFFICES ASSUME Init PROVE IInv
    OBVIOUS
  <1>1. Registered = {} /\ NoDuplicates(connections) /\ connections \in Seq(Conns)
    BY DEF Init, Registered, NoDuplicates
  <1>2. routes \in [Conns -> Seq(Keys)]
    BY DEF Init
  <1>3. ConnInv
    BY <1>1, <1>2 DEF Init, ConnInv, OneOwnerPerRoute
  <1>4. RequestInv
    BY DEF Init, RequestInv, SettledOnce
  <1>5. DrainInv
    BY DEF Init, DrainInv, EveryOwnerIsTold
  <1> QED
    BY <1>3, <1>4, <1>5 DEF IInv

LEMMA StepInv == IInv /\ [Next]_vars => IInv'
  <1> SUFFICES ASSUME IInv, [Next]_vars PROVE IInv'
    OBVIOUS
  <1>1. ASSUME NEW c \in Conns, Upgrade(c)
        PROVE  IInv'
    <2>1. c \notin Registered
      BY <1>1 DEF Upgrade, IInv, ConnInv
    <2>2. /\ connections' \in Seq(Conns) /\ NoDuplicates(connections')
          /\ Registered' = Registered \union {c}
      BY <1>1, <2>1, UpgradeRegisters DEF Upgrade, IInv
    <2>3. ConnInv'
      <3>1. OneOwnerPerRoute'
        <4>1. KeysOf(routes[c]) = {}
          BY <2>1 DEF IInv, ConnInv, KeysOf
        <4> QED
          BY <1>1, <2>2, <4>1 DEF Upgrade, IInv, ConnInv, OneOwnerPerRoute
      <3> QED
        BY <1>1, <2>2, <3>1 DEF Upgrade, IInv, ConnInv
    <2>4. RequestInv'
      BY <1>1, <2>2 DEF Upgrade, IInv, RequestInv, SettledOnce, isConnected, requestVars
    <2>5. DrainInv'
      BY <1>1, <2>2 DEF Upgrade, AcceptsUpgrade, IInv, DrainInv, EveryOwnerIsTold, drainVars
    <2> QED
      BY <2>3, <2>4, <2>5 DEF IInv
  <1>2. ASSUME NEW c \in Conns, RegisterRoutes(c)
        PROVE  IInv'
    <2>1. /\ UNCHANGED <<ws, connections, requestVars, sequenceBySession, drainVars>>
          /\ Registered' = Registered /\ c \in Registered
      BY <1>2 DEF RegisterRoutes, Registered, isConnected
    <2>2. PICK list \in RouteLists : /\ assertRoutesAvailable(c, list)
                                    /\ routes' = [routes EXCEPT ![c] = list]
      BY <1>2 DEF RegisterRoutes
    <2>3. ConnInv'
      <3>1. /\ routes' \in [Conns -> Seq(Keys)]
            /\ \A d \in Conns \ {c} : routes'[d] = routes[d]
            /\ routes'[c] = list
        BY <2>2, HubAssumption DEF IInv, ConnInv
      <3>2. OneOwnerPerRoute'
        BY <2>1, <2>2, <3>1 DEF assertRoutesAvailable, IInv, ConnInv, OneOwnerPerRoute
      <3> QED
        BY <2>1, <3>1, <3>2 DEF IInv, ConnInv
    <2>4. RequestInv'
      BY <2>1 DEF IInv, RequestInv, SettledOnce, isConnected, requestVars
    <2>5. DrainInv'
      BY <2>1 DEF IInv, DrainInv, EveryOwnerIsTold, drainVars
    <2> QED
      BY <2>3, <2>4, <2>5 DEF IInv
  <1>3. ASSUME NEW c \in Conns, StartClose(c)
        PROVE  IInv'
    <2>1. Registered' = Registered
      BY <1>3 DEF StartClose, Registered
    <2>2. ConnInv'
      BY <1>3, <2>1 DEF StartClose, IInv, ConnInv, OneOwnerPerRoute
    <2>3. RequestInv'
      BY <1>3, <2>1 DEF StartClose, IInv, RequestInv, SettledOnce, isConnected, requestVars
    <2>4. DrainInv'
      BY <1>3, <2>1 DEF StartClose, IInv, ConnInv, DrainInv, EveryOwnerIsTold, drainVars
    <2> QED
      BY <2>2, <2>3, <2>4 DEF IInv
  <1>4. ASSUME NEW c \in Conns, RemoveConnection(c)
        PROVE  IInv'
    <2>1. /\ connections' \in Seq(Conns) /\ NoDuplicates(connections')
          /\ Registered' = Registered \ {c} /\ c \in Registered
      BY <1>4, WithoutRemoves DEF RemoveConnection, isConnected, IInv
    <2>2. ConnInv'
      <3>1. /\ routes' \in [Conns -> Seq(Keys)]
            /\ \A d \in Conns \ {c} : routes'[d] = routes[d]
            /\ routes'[c] = <<>>
        BY <1>4 DEF RemoveConnection, IInv, ConnInv
      <3>2. OneOwnerPerRoute'
        BY <2>1, <3>1 DEF IInv, ConnInv, OneOwnerPerRoute
      <3> QED
        BY <1>4, <2>1, <3>1, <3>2 DEF RemoveConnection, IInv, ConnInv
    <2>3. RequestInv'
      <3>1. PendingOn(c) \in SUBSET pending
        BY DEF PendingOn
      <3>2. \A r \in pending \ PendingOn(c) : isConnected(addressee[r])'
        BY <1>4, <2>1 DEF RemoveConnection, PendingOn, isConnected, IInv, RequestInv, SettledOnce
      <3> QED
        BY <1>4, <3>1, <3>2, SettleStep DEF RemoveConnection, IInv, RequestInv
    <2>4. DrainInv'
      BY <1>4, <2>1 DEF RemoveConnection, IInv, ConnInv, DrainInv, EveryOwnerIsTold, drainVars
    <2> QED
      BY <2>2, <2>3, <2>4 DEF IInv
  <1>5. ASSUME NEW c \in Conns, NEW r \in Requests, ReceiveResponse(r, c)
        PROVE  IInv'
    <2>1. PICK how \in {"answered", "refused"} : Settle({r}, how)
      BY <1>5 DEF ReceiveResponse
    <2>2. Registered' = Registered /\ {r} \in SUBSET pending /\ addressee[r] = c
      BY <1>5 DEF ReceiveResponse, IsAnswerTo, Registered
    <2>3. RequestInv'
      <3>1. /\ answeredBy' \in [Requests -> Conns \union {NoConn}]
            /\ answeredBy'[r] = addressee[r]
            /\ \A q \in Requests \ {r} : answeredBy'[q] = answeredBy[q]
        BY <1>5, <2>2 DEF ReceiveResponse, IInv, RequestInv
      <3>2. \A q \in pending \ {r} : isConnected(addressee[q])'
        BY <1>5, <2>2 DEF ReceiveResponse, isConnected, IInv, RequestInv, SettledOnce
      <3> QED
        BY <1>5, <2>1, <2>2, <3>1, <3>2, SettleStep DEF ReceiveResponse, IInv
    <2>4. ConnInv' /\ DrainInv'
      BY <1>5, <2>2
      DEF ReceiveResponse, IInv, ConnInv, DrainInv, OneOwnerPerRoute, EveryOwnerIsTold, drainVars
    <2> QED
      BY <2>3, <2>4 DEF IInv
  <1>6. ASSUME NEW r \in Requests, SendCallbackError(r) \/ RequestTimeout(r)
        PROVE  IInv'
    <2>1. PICK ids \in SUBSET pending : Settle(ids, "failed")
      BY <1>6 DEF SendCallbackError, Rejected, RequestTimeout, IInv, RequestInv
    <2>2. /\ UNCHANGED <<ws, connections, routes, addressee, answeredBy, sequenceBySession,
                         drainVars>>
          /\ Registered' = Registered
      BY <1>6 DEF SendCallbackError, RequestTimeout, Registered
    <2>3. RequestInv'
      BY <2>1, <2>2, SettleStep DEF isConnected, IInv, RequestInv, SettledOnce
    <2>4. ConnInv' /\ DrainInv'
      BY <2>2 DEF IInv, ConnInv, DrainInv, OneOwnerPerRoute, EveryOwnerIsTold, drainVars
    <2> QED
      BY <2>3, <2>4 DEF IInv
  <1>7. ASSUME NEW r \in Requests, RequestInvite(r) \/ RequestReinvite(r)
        PROVE  IInv'
    BY <1>7, RequestStep DEF RequestInvite, RequestReinvite
  <1>8. CASE \E c \in Conns, s \in Sessions : SendEvent(c, s)
    <2>1. PICK c \in Conns, s \in Sessions : SendEvent(c, s)
      BY <1>8
    <2>2. Registered' = Registered
      BY <2>1 DEF SendEvent, Registered
    <2>3. sequenceBySession' \in [Conns -> [Sessions -> Nat]]
      <3>1. sequenceBySession[c] \in [Sessions -> Nat] /\ sequenceBySession[c][s] + 1 \in Nat
        BY DEF IInv, DrainInv
      <3>2. [sequenceBySession[c] EXCEPT ![s] = @ + 1] \in [Sessions -> Nat]
        BY <3>1
      <3>3. sequenceBySession' =
              [sequenceBySession EXCEPT ![c] = [sequenceBySession[c] EXCEPT ![s] = @ + 1]]
        BY <2>1 DEF SendEvent
      <3> QED
        BY <3>2, <3>3 DEF IInv, DrainInv
    <2>4. ConnInv' /\ DrainInv'
      BY <2>1, <2>2, <2>3
      DEF SendEvent, IInv, ConnInv, DrainInv, OneOwnerPerRoute, EveryOwnerIsTold, drainVars
    <2>5. RequestInv'
      BY <2>1, <2>2 DEF SendEvent, IInv, RequestInv, SettledOnce, isConnected, requestVars
    <2> QED
      BY <2>4, <2>5 DEF IInv
  <1>9. CASE Drain
    <2>1. Registered' = Registered
      BY <1>9 DEF Drain, Registered
    <2>2. ConnInv' /\ RequestInv'
      BY <1>9, <2>1
      DEF Drain, IInv, ConnInv, RequestInv, OneOwnerPerRoute, SettledOnce, isConnected, requestVars
    <2>3. DrainInv'
      BY <1>9, <2>1 DEF Drain, IInv, ConnInv, DrainInv, EveryOwnerIsTold
    <2> QED
      BY <2>2, <2>3 DEF IInv
  <1>10. CASE UNCHANGED vars
    <2>1. Registered' = Registered
      BY <1>10 DEF vars, Registered
    <2> QED
      BY <1>10, <2>1 DEF vars, requestVars, drainVars, IInv, ConnInv, RequestInv, DrainInv,
         OneOwnerPerRoute, SettledOnce, EveryOwnerIsTold, isConnected
  <1> QED
    BY <1>1, <1>2, <1>3, <1>4, <1>5, <1>6, <1>7, <1>8, <1>9, <1>10
    DEF Next, ConnNext, RequestNext, Quiet

LEMMA Inductive == Spec => []IInv
  BY InitInv, StepInv, PTL DEF Spec

(* No two connections ever hold a route key together, for any number of      *)
(* connections and any lists they register.                                  *)
THEOREM RoutesHaveOneOwner == Spec => []OneOwnerPerRoute
  <1>1. IInv => OneOwnerPerRoute
    BY DEF IInv, ConnInv
  <1> QED
    BY <1>1, Inductive, PTL

(* Each request is settled at most once, by the connection it went to or by  *)
(* a failure, and waits on no connection that is gone.                       *)
THEOREM RequestsSettleOnce == Spec => []SettledOnce
  <1>1. IInv => SettledOnce
    BY DEF IInv, RequestInv
  <1> QED
    BY <1>1, Inductive, PTL

(* While the gateway drains no open connection is unaware of it.             *)
THEOREM OwnersAreTold == Spec => []EveryOwnerIsTold
  <1>1. IInv => EveryOwnerIsTold
    BY DEF IInv, DrainInv
  <1> QED
    BY <1>1, Inductive, PTL
(* What the hub keeps has its type: its connections are the sockets that are  *)
(* open or closing, each once, and a request has a timer while it is pending. *)
THEOREM HubTypes == Spec => []TypeOK
  <1>1. IInv => TypeOK
    BY DEF IInv, ConnInv, RequestInv, DrainInv, TypeOK
  <1> QED
    BY <1>1, Inductive, PTL
=============================================================================
