-------------------------- MODULE MediaSessionsProofs --------------------------
(***************************************************************************)
(* The safety of media sessions for any sessions, connections and          *)
(* endpoints.  Two invariants: SessionInv relates a session to its socket  *)
(* and its owner; LinkInv relates endpoints, index and bridges, and says   *)
(* what a handler that awaits rtpbridge can still rely on: an endpoint id  *)
(* is in one session only, however the sessions come and go meanwhile.     *)
(* What is superposed on them, recordings and ICE restarts, is shown to    *)
(* implement them, and ResourceInv to keep it to the sessions of the map.  *)
(* So are the references that sessions hold to backends, with CountInv.    *)
(***************************************************************************)
EXTENDS SessionResources, SessionPins, FiniteSetTheorems, TLAPS

Beginning == {"connecting", "allocating", "live"}

SessionInv ==
    /\ isConnected \in [Conns -> BOOLEAN]
    /\ session \in [Sessions -> {"none", "connecting", "allocating", "aborting", "live", "gone"}]
    /\ owner \in [Sessions -> Conns \union {NoConn}]
    /\ client \in [Sessions -> {"none", "open", "closing", "closed"}]
    /\ destroys \in [Sessions -> Nat]
    /\ \A s \in Sessions : session[s] \in {"none", "connecting"} => client[s] = "none"
    /\ \A s \in Sessions : session[s] = "none" => owner[s] = NoConn
    /\ \A s \in Sessions :
          (session[s] \in Beginning /\ owner[s] # NoConn /\ ~isConnected[owner[s]]) => s \in late
    /\ DroppedSessionsAreReleased

(* The session has been in the map. *)
Born(s) == session[s] \in {"live", "gone"}

(* A bridge is two ends that know each other. *)
PairInv ==
    /\ pair \in [Endpoints -> Endpoints \union {NoEndpoint}]
    /\ \A e \in Endpoints : pair[e] # NoEndpoint =>
          e \in used /\ pair[e] \in used /\ pair[pair[e]] = e /\ pair[e] # e

EndpointInv ==
    /\ used \subseteq Endpoints
    /\ endpoints \in [Sessions -> SUBSET Endpoints]
    /\ endpointToSession \in [Endpoints -> Sessions \union {NoSession}]
    /\ \A s \in Sessions : endpoints[s] \subseteq used
    /\ \A e \in Endpoints : endpointToSession[e] # NoSession => e \in used
    /\ \A s, t \in Sessions : s # t => endpoints[s] \cap endpoints[t] = {}
    /\ \A s \in Sessions : ~Born(s) =>
          endpoints[s] = {} /\ \A e \in Endpoints : endpointToSession[e] # s

Linked ==
    /\ \A s \in Live, e \in Endpoints : e \in endpoints[s] <=> endpointToSession[e] = s
    /\ \A s \in Live : \A e \in endpoints[s] : pair[e] # NoEndpoint =>
          \E t \in Live \ {s} : pair[e] \in endpoints[t]

(* What the handlers that await rtpbridge hold. *)
CallInv ==
    /\ DOMAIN call = Calls
    /\ \A k \in Calls : call[k].op # "idle" => call[k].session \in Sessions /\ Born(call[k].session)
    /\ \A k \in Calls : call[k].op = "bridge" =>
          call[k].target \in Sessions /\ call[k].target # call[k].session
    /\ \A k \in Calls : call[k].op = "remove" =>
          /\ call[k].endpoint \in used /\ call[k].far = pair[call[k].endpoint]
          /\ \A t \in Sessions \ {call[k].session} : call[k].endpoint \notin endpoints[t]

LinkInv ==
    /\ session \in [Sessions -> {"none", "connecting", "allocating", "aborting", "live", "gone"}]
    /\ PairInv /\ EndpointInv /\ Linked /\ CallInv

-----------------------------------------------------------------------------
(* Steps on the endpoints and the bridges. *)

(* No endpoint moves, and no session leaves the map. *)
LEMMA SameLinks ==
  ASSUME LinkInv, UNCHANGED <<endpointVars, call>>,
         session' \in [Sessions -> {"none", "connecting", "allocating", "aborting", "live", "gone"}],
         Live \subseteq Live', \A s \in Live' \ Live : ~Born(s),
         \A s \in Sessions : Born(s) => Born(s)'
  PROVE  LinkInv'
  <1>1. PairInv' /\ EndpointInv'
    BY DEF LinkInv, PairInv, EndpointInv, endpointVars
  <1>2. Linked'
    BY DEF LinkInv, Linked, EndpointInv, endpointVars, Live
  <1>3. CallInv'
    BY DEF LinkInv, CallInv, endpointVars
  <1> QED
    BY <1>1, <1>2, <1>3 DEF LinkInv

(* Sessions leave the map, with the far ends of their bridges. *)
LEMMA DropStep ==
  ASSUME LinkInv, NEW S \in SUBSET Live, DropEndpoints(S), UNCHANGED call,
         session' \in [Sessions -> {"none", "connecting", "allocating", "aborting", "live", "gone"}],
         Live' = Live \ S, \A s \in Sessions : Born(s) => Born(s)'
  PROVE  LinkInv'
  <1> DEFINE ends == UNION {endpoints[s] : s \in S}
  <1>1. /\ endpoints' = [s \in Sessions |-> IF s \in Live \ S THEN endpoints[s] \ FarEnds(S)
                                                          ELSE endpoints[s]]
        /\ endpointToSession' = [e \in Endpoints |-> IF e \in FarEnds(S) \union ends
                                                     THEN NoSession ELSE endpointToSession[e]]
        /\ pair' = pair /\ used' = used
    BY DEF DropEndpoints
  <1>2. /\ S \subseteq Sessions
        /\ \A e : e \in ends <=> \E s \in S : e \in endpoints[s]
        /\ \A f : f \in FarEnds(S) <=> \E e \in ends : f = pair[e] /\ f # NoEndpoint
    BY DEF Live, FarEnds
  <1> HIDE DEF ends
  <1>3. /\ \A s \in Sessions : endpoints'[s] \subseteq endpoints[s]
        /\ \A s \in Live \ S : endpoints'[s] = endpoints[s] \ FarEnds(S)
        /\ \A e \in Endpoints : e \in FarEnds(S) \union ends => endpointToSession'[e] = NoSession
        /\ \A e \in Endpoints : e \notin FarEnds(S) \union ends =>
              endpointToSession'[e] = endpointToSession[e]
    BY <1>1 DEF Live
  <1>4. PairInv'
    BY <1>1 DEF LinkInv, PairInv
  <1>5. EndpointInv'
    <2>1. endpoints' \in [Sessions -> SUBSET Endpoints]
      BY <1>1 DEF LinkInv, EndpointInv
    <2>2. endpointToSession' \in [Endpoints -> Sessions \union {NoSession}]
      BY <1>1 DEF LinkInv, EndpointInv
    <2>3. \A s, t \in Sessions : s # t => endpoints'[s] \cap endpoints'[t] = {}
      BY <1>3 DEF LinkInv, EndpointInv
    <2>4. \A s \in Sessions : ~Born(s)' =>
            endpoints'[s] = {} /\ \A e \in Endpoints : endpointToSession'[e] # s
      BY <1>3, MediaAssumption DEF LinkInv, EndpointInv
    <2> QED
      BY <1>1, <1>3, <2>1, <2>2, <2>3, <2>4 DEF LinkInv, EndpointInv
  <1>6. Linked'
    <2>1. ASSUME NEW s \in Live \ S, NEW e \in Endpoints
          PROVE  e \in endpoints'[s] <=> endpointToSession'[e] = s
      <3>1. e \in endpoints[s] => e \notin ends
        BY <1>2 DEF LinkInv, EndpointInv, Live
      <3> QED
        BY <1>3, <3>1, MediaAssumption DEF LinkInv, Linked, Live
    <2>2. ASSUME NEW s \in Live \ S, NEW e \in endpoints'[s], pair[e] # NoEndpoint
          PROVE  \E t \in Live' \ {s} : pair[e] \in endpoints'[t]
      <3>1. e \in endpoints[s] /\ e \in Endpoints /\ e \notin FarEnds(S) /\ e \notin ends
        BY <1>2, <1>3 DEF LinkInv, EndpointInv, Live
      <3>2. pair[pair[e]] = e
        BY <2>2, <3>1 DEF LinkInv, PairInv
      <3>3. PICK t \in Live \ {s} : pair[e] \in endpoints[t]
        BY <2>2, <3>1 DEF LinkInv, Linked
      <3>4. t \notin S
        <4>1. e # NoEndpoint
          BY <3>1, MediaAssumption
        <4> QED
          BY <1>2, <3>1, <3>2, <3>3, <4>1
      <3>5. pair[e] \notin FarEnds(S)
        <4>1. SUFFICES ASSUME pair[e] \in FarEnds(S) PROVE FALSE
          OBVIOUS
        <4>2. PICK x \in ends : pair[e] = pair[x]
          BY <1>2, <4>1
        <4>3. x \in Endpoints
          BY <1>2 DEF LinkInv, EndpointInv
        <4>4. x = e
          BY <2>2, <3>2, <4>2, <4>3 DEF LinkInv, PairInv
        <4> QED
          BY <3>1, <4>4
      <3> QED
        BY <1>3, <3>3, <3>4, <3>5
    <2> QED
      BY <1>1, <2>1, <2>2 DEF Linked
  <1>7. CallInv'
    BY <1>1, <1>3 DEF LinkInv, CallInv
  <1> QED
    BY <1>4, <1>5, <1>6, <1>7 DEF LinkInv

(* A new endpoint joins the session that asked for it, though it may be gone. *)
LEMMA CreateStep ==
  ASSUME LinkInv, NEW k \in Calls, NEW e \in Endpoints, CreateEndpointDone(k, e)
  PROVE  LinkInv'
  <1> DEFINE s == call[k].session
  <1>1. /\ s \in Sessions /\ Born(s) /\ e \notin used
        /\ endpoints' = [endpoints EXCEPT ![s] = @ \union {e}]
        /\ endpointToSession' = [endpointToSession EXCEPT ![e] = s]
        /\ used' = used \union {e} /\ pair' = pair /\ session' = session
        /\ call' = [call EXCEPT ![k] = Idle]
    BY DEF CreateEndpointDone, Finish, sessionVars, LinkInv, CallInv
  <1> HIDE DEF s
  <1>2. /\ endpoints'[s] = endpoints[s] \union {e}
        /\ \A t \in Sessions \ {s} : endpoints'[t] = endpoints[t]
        /\ endpointToSession'[e] = s
        /\ \A f \in Endpoints \ {e} : endpointToSession'[f] = endpointToSession[f]
    BY <1>1 DEF LinkInv, EndpointInv
  <1>3. /\ \A t \in Sessions : e \notin endpoints[t]
        /\ endpointToSession[e] = NoSession /\ pair[e] = NoEndpoint
    BY <1>1 DEF LinkInv, EndpointInv, PairInv
  <1>4. Live' = Live /\ \A t \in Sessions : Born(t)' = Born(t)
    BY <1>1 DEF Live, Born
  <1>5. PairInv'
    BY <1>1 DEF LinkInv, PairInv
  <1>6. EndpointInv'
    <2>1. /\ endpoints' \in [Sessions -> SUBSET Endpoints]
          /\ endpointToSession' \in [Endpoints -> Sessions \union {NoSession}]
      BY <1>1 DEF LinkInv, EndpointInv
    <2>2. \A t, u \in Sessions : t # u => endpoints'[t] \cap endpoints'[u] = {}
      BY <1>2, <1>3 DEF LinkInv, EndpointInv
    <2>3. \A t \in Sessions : ~Born(t)' =>
            endpoints'[t] = {} /\ \A f \in Endpoints : endpointToSession'[f] # t
      BY <1>1, <1>2, <1>4 DEF LinkInv, EndpointInv
    <2> QED
      BY <1>1, <1>2, <2>1, <2>2, <2>3 DEF LinkInv, EndpointInv
  <1>7. Linked'
    <2>1. ASSUME NEW t \in Live, NEW f \in Endpoints
          PROVE  f \in endpoints'[t] <=> endpointToSession'[f] = t
      BY <1>1, <1>2, <1>3 DEF LinkInv, Linked, Live
    <2>2. ASSUME NEW t \in Live, NEW f \in endpoints'[t], pair[f] # NoEndpoint
          PROVE  \E u \in Live \ {t} : pair[f] \in endpoints'[u]
      <3>1. f \in endpoints[t]
        BY <1>2, <1>3, <2>2 DEF Live
      <3>2. PICK u \in Live \ {t} : pair[f] \in endpoints[u]
        BY <2>2, <3>1 DEF LinkInv, Linked
      <3> QED
        BY <1>1, <1>2, <3>2 DEF Live
    <2> QED
      BY <1>1, <1>4, <2>1, <2>2 DEF Linked
  <1>8. CallInv'
    BY <1>1, <1>2, <1>3, <1>4 DEF Idle, LinkInv, CallInv
  <1> QED
    BY <1>1, <1>5, <1>6, <1>7, <1>8 DEF LinkInv

(* Two new endpoints join two sessions of the map, as the ends of a bridge. *)
LEMMA BridgeStep ==
  ASSUME LinkInv, NEW k \in Calls, NEW e \in Endpoints, NEW f \in Endpoints, BridgeDone(k, e, f)
  PROVE  LinkInv'
  <1> DEFINE s == call[k].session
             t == call[k].target
  <1>1. /\ s \in Live /\ t \in Live /\ s \in Sessions /\ t \in Sessions /\ s # t
        /\ e \notin used /\ f \notin used /\ e # f
        /\ endpoints' = [endpoints EXCEPT ![s] = @ \union {e}, ![t] = @ \union {f}]
        /\ endpointToSession' = [endpointToSession EXCEPT ![e] = s, ![f] = t]
        /\ pair' = [pair EXCEPT ![e] = f, ![f] = e]
        /\ used' = used \union {e, f} /\ session' = session
        /\ call' = [call EXCEPT ![k] = Idle]
    BY DEF BridgeDone, StillThere, Finish, sessionVars, LinkInv, CallInv, Live
  <1> HIDE DEF s, t
  <1>2. /\ endpoints'[s] = endpoints[s] \union {e} /\ endpoints'[t] = endpoints[t] \union {f}
        /\ \A u \in Sessions \ {s, t} : endpoints'[u] = endpoints[u]
        /\ endpointToSession'[e] = s /\ endpointToSession'[f] = t
        /\ \A x \in Endpoints \ {e, f} : endpointToSession'[x] = endpointToSession[x]
        /\ pair'[e] = f /\ pair'[f] = e
        /\ \A x \in Endpoints \ {e, f} : pair'[x] = pair[x]
    BY <1>1 DEF LinkInv, EndpointInv, PairInv
  <1>3. /\ \A u \in Sessions : e \notin endpoints[u] /\ f \notin endpoints[u]
        /\ endpointToSession[e] = NoSession /\ endpointToSession[f] = NoSession
        /\ \A x \in Endpoints : pair[x] # e /\ pair[x] # f
    <2>1. \A x \in Endpoints : pair[x] # NoEndpoint => pair[x] \in used
      BY DEF LinkInv, PairInv
    <2> QED
      BY <1>1, <2>1, MediaAssumption DEF LinkInv, EndpointInv
  <1>4. Live' = Live /\ Live \subseteq Sessions /\ \A u \in Sessions : Born(u)' = Born(u)
    BY <1>1 DEF Live, Born
  <1>5. PairInv'
    <2>1. pair' \in [Endpoints -> Endpoints \union {NoEndpoint}]
      BY <1>1 DEF LinkInv, PairInv
    <2>2. ASSUME NEW x \in Endpoints, pair'[x] # NoEndpoint
          PROVE  x \in used' /\ pair'[x] \in used' /\ pair'[pair'[x]] = x /\ pair'[x] # x
      <3>1. CASE x \in {e, f}
        BY <3>1, <1>1, <1>2
      <3>2. CASE x \notin {e, f}
        <4>1. /\ pair'[x] = pair[x] /\ pair[x] \notin {e, f}
              /\ x \in used /\ pair[x] \in used /\ pair[pair[x]] = x /\ pair[x] # x
          BY <2>2, <3>2, <1>2, <1>3 DEF LinkInv, PairInv
        <4>2. pair[x] \in Endpoints \ {e, f}
          BY <4>1 DEF LinkInv, EndpointInv
        <4>3. pair'[pair[x]] = pair[pair[x]]
          BY <4>2, <1>2
        <4>4. used \subseteq used'
          BY <1>1
        <4> QED
          BY <4>1, <4>3, <4>4
      <3> QED
        BY <3>1, <3>2
    <2> QED
      BY <2>1, <2>2 DEF PairInv
  <1>6. EndpointInv'
    <2>1. /\ endpoints' \in [Sessions -> SUBSET Endpoints]
          /\ endpointToSession' \in [Endpoints -> Sessions \union {NoSession}]
      BY <1>1 DEF LinkInv, EndpointInv
    <2>2. \A u, v \in Sessions : u # v => endpoints'[u] \cap endpoints'[v] = {}
      BY <1>1, <1>2, <1>3 DEF LinkInv, EndpointInv
    <2>3. \A u \in Sessions : ~Born(u)' =>
            endpoints'[u] = {} /\ \A x \in Endpoints : endpointToSession'[x] # u
      BY <1>1, <1>2, <1>4 DEF LinkInv, EndpointInv, Live, Born
    <2>4. /\ \A u \in Sessions : endpoints'[u] \subseteq used'
          /\ \A x \in Endpoints : endpointToSession'[x] # NoSession => x \in used'
      BY <1>1, <1>2 DEF LinkInv, EndpointInv
    <2> QED
      BY <1>1, <2>1, <2>2, <2>3, <2>4 DEF LinkInv, EndpointInv
  <1>7. Linked'
    <2>1. ASSUME NEW u \in Live, NEW x \in Endpoints
          PROVE  x \in endpoints'[u] <=> endpointToSession'[x] = u
      <3>1. u \in Sessions /\ (x \in endpoints[u] <=> endpointToSession[x] = u)
        BY <1>4 DEF LinkInv, Linked
      <3>2. x \in endpoints'[u] <=>
              x \in endpoints[u] \/ (u = s /\ x = e) \/ (u = t /\ x = f)
        <4>0. s # t
          BY <1>1
        <4>1. CASE u \in {s, t}
          <5>1. CASE u = s
            BY <5>1, <4>0, <1>2
          <5>2. CASE u = t
            BY <5>2, <4>0, <1>2
          <5> QED
            BY <4>1, <5>1, <5>2
        <4>2. CASE u \notin {s, t}
          BY <4>2, <3>1, <1>2
        <4> QED
          BY <4>1, <4>2
      <3>3. CASE x \in {e, f}
        <4>1. x \notin endpoints[u]
          BY <3>1, <3>3, <1>3
        <4>2. s # t /\ e # f
          BY <1>1
        <4>3. endpointToSession'[e] = s /\ endpointToSession'[f] = t
          BY <1>2
        <4> QED
          BY <3>2, <3>3, <4>1, <4>2, <4>3
      <3>4. CASE x \notin {e, f}
        BY <3>1, <3>2, <3>4, <1>2
      <3> QED
        BY <3>3, <3>4
    <2>2. ASSUME NEW u \in Live, NEW x \in endpoints'[u], pair'[x] # NoEndpoint
          PROVE  \E v \in Live \ {u} : pair'[x] \in endpoints'[v]
      <3>0. /\ u \in Sessions /\ s \in Live /\ t \in Live /\ s # t
            /\ e \in endpoints'[s] /\ f \in endpoints'[t]
            /\ pair'[e] = f /\ pair'[f] = e
            /\ e \notin endpoints[u] /\ f \notin endpoints[u]
            /\ u \notin {s, t} => endpoints'[u] = endpoints[u]
        BY <1>1, <1>2, <1>3, <1>4
      <3>1. CASE x = e
        <4>1. u # t
          BY <2>2, <3>0, <3>1, <1>1, <1>2
        <4> QED
          BY <3>0, <3>1, <4>1
      <3>2. CASE x = f
        <4>1. u # s
          BY <2>2, <3>0, <3>2, <1>1, <1>2
        <4> QED
          BY <3>0, <3>2, <4>1
      <3>3. CASE x \notin {e, f}
        <4>1. x \in endpoints[u] /\ x \in Endpoints /\ pair'[x] = pair[x]
          BY <3>3, <1>1, <1>2, <1>4 DEF LinkInv, EndpointInv
        <4>2. PICK v \in Live \ {u} : pair[x] \in endpoints[v]
          BY <2>2, <4>1 DEF LinkInv, Linked
        <4> QED
          BY <4>1, <4>2, <1>1, <1>2, <1>4
      <3> QED
        BY <3>1, <3>2, <3>3
    <2> QED
      BY <1>4, <2>1, <2>2 DEF Linked
  <1>8. CallInv'
    <2>1. \A j \in Calls \ {k} : call'[j] = call[j]
      BY <1>1 DEF LinkInv, CallInv
    <2>2. call'[k].op = "idle" /\ DOMAIN call' = Calls
      BY <1>1 DEF Idle, LinkInv, CallInv
    <2>3. ASSUME NEW j \in Calls, call'[j].op = "remove"
          PROVE  /\ call'[j].endpoint \in used' /\ call'[j].far = pair'[call'[j].endpoint]
                 /\ \A u \in Sessions \ {call'[j].session} : call'[j].endpoint \notin endpoints'[u]
      <3>1. /\ call'[j] = call[j] /\ call[j].endpoint \in used /\ call[j].far = pair[call[j].endpoint]
            /\ \A u \in Sessions \ {call[j].session} : call[j].endpoint \notin endpoints[u]
        BY <2>1, <2>2, <2>3 DEF LinkInv, CallInv
      <3>2. call[j].endpoint \in Endpoints \ {e, f}
        BY <3>1, <1>1 DEF LinkInv, EndpointInv
      <3>3. pair'[call[j].endpoint] = pair[call[j].endpoint] /\ used \subseteq used'
        BY <3>2, <1>1, <1>2
      <3>4. ASSUME NEW u \in Sessions \ {call[j].session}
            PROVE  call[j].endpoint \notin endpoints'[u]
        <4>1. endpoints'[u] \subseteq endpoints[u] \union {e, f}
          BY <1>2
        <4> QED
          BY <3>1, <3>2, <4>1
      <3> QED
        BY <3>1, <3>3, <3>4
    <2> QED
      BY <2>1, <2>2, <2>3, <1>4 DEF LinkInv, CallInv
  <1> QED
    BY <1>1, <1>5, <1>6, <1>7, <1>8 DEF LinkInv

(* An endpoint is removed, and the far end wherever its session is in the map. *)
LEMMA RemoveStep ==
  ASSUME LinkInv, NEW k \in Calls, RemoveEndpointDone(k)
  PROVE  LinkInv'
  <1> DEFINE s == call[k].session
             near == call[k].endpoint
             far == call[k].far
  <1>1. /\ s \in Sessions /\ near \in used /\ near \in Endpoints /\ far = pair[near]
        /\ \A t \in Sessions \ {s} : near \notin endpoints[t]
    BY DEF RemoveEndpointDone, LinkInv, CallInv, EndpointInv
  <1>2. /\ endpoints' = [t \in Sessions |->
              endpoints[t] \ ((IF t = s THEN {near} ELSE {}) \union (IF t \in Live THEN {far} ELSE {}))]
        /\ endpointToSession' = [e \in Endpoints |->
              IF e \in RemovedEnds(k) THEN NoSession ELSE endpointToSession[e]]
        /\ pair' = pair /\ used' = used /\ session' = session
        /\ call' = [call EXCEPT ![k] = Idle]
    BY DEF RemoveEndpointDone, Finish, sessionVars
  <1>3. \A e : e \in RemovedEnds(k) <=>
          e = near \/ (e = far /\ \E t \in Live : far \in endpoints[t])
    BY DEF RemovedEnds
  <1> HIDE DEF s, near, far
  <1>4. Live' = Live /\ Live \subseteq Sessions /\ \A t \in Sessions : Born(t)' = Born(t)
    BY <1>2 DEF Live, Born
  <1>5. /\ \A t \in Sessions : endpoints'[t] \subseteq endpoints[t]
        /\ \A t \in Live : endpoints'[t] = endpoints[t] \ {near, far}
        /\ \A e \in Endpoints : endpointToSession'[e] \in {endpointToSession[e], NoSession}
    BY <1>1, <1>2, <1>4
  <1>6. PairInv'
    BY <1>2 DEF LinkInv, PairInv
  <1>7. EndpointInv'
    <2>1. /\ endpoints' \in [Sessions -> SUBSET Endpoints]
          /\ endpointToSession' \in [Endpoints -> Sessions \union {NoSession}]
      BY <1>2 DEF LinkInv, EndpointInv
    <2>2. \A t, u \in Sessions : t # u => endpoints'[t] \cap endpoints'[u] = {}
      BY <1>5 DEF LinkInv, EndpointInv
    <2>3. \A t \in Sessions : ~Born(t)' =>
            endpoints'[t] = {} /\ \A e \in Endpoints : endpointToSession'[e] # t
      BY <1>4, <1>5, MediaAssumption DEF LinkInv, EndpointInv
    <2> QED
      BY <1>2, <1>5, <2>1, <2>2, <2>3 DEF LinkInv, EndpointInv
  <1>8. Linked'
    <2>1. ASSUME NEW t \in Live, NEW e \in Endpoints
          PROVE  e \in endpoints'[t] <=> endpointToSession'[e] = t
      <3>1. t # NoSession
        BY <1>4, MediaAssumption
      <3>2. e \in endpoints[t] <=> endpointToSession[e] = t
        BY DEF LinkInv, Linked
      <3>3. CASE e \in RemovedEnds(k)
        BY <3>1, <3>3, <1>2, <1>3, <1>5
      <3>4. CASE e \notin RemovedEnds(k)
        BY <3>2, <3>4, <1>2, <1>3, <1>5
      <3> QED
        BY <3>3, <3>4
    <2>2. ASSUME NEW t \in Live, NEW e \in endpoints'[t], pair[e] # NoEndpoint
          PROVE  \E u \in Live \ {t} : pair[e] \in endpoints'[u]
      <3>1. e \in endpoints[t] /\ e \in Endpoints /\ e # near /\ e # far
        BY <1>4, <1>5 DEF LinkInv, EndpointInv
      <3>2. PICK u \in Live \ {t} : pair[e] \in endpoints[u]
        BY <2>2, <3>1 DEF LinkInv, Linked
      <3>3. pair[e] # near /\ pair[e] # far
        BY <1>1, <2>2, <3>1, <3>2 DEF LinkInv, PairInv
      <3> QED
        BY <3>2, <3>3, <1>5
    <2> QED
      <3>1. \A t \in Live', e \in Endpoints : e \in endpoints'[t] <=> endpointToSession'[e] = t
        BY <1>4, <2>1
      <3>2. ASSUME NEW t \in Live', NEW e \in endpoints'[t], pair'[e] # NoEndpoint
            PROVE  \E u \in Live' \ {t} : pair'[e] \in endpoints'[u]
        <4>1. pair' = pair /\ Live' = Live
          BY <1>2, <1>4
        <4>2. t \in Live /\ pair[e] # NoEndpoint
          BY <3>2, <4>1
        <4>3. \E u \in Live \ {t} : pair[e] \in endpoints'[u]
          BY <2>2, <4>2
        <4> QED
          BY <4>1, <4>3
      <3> QED
        BY <3>1, <3>2 DEF Linked
  <1>9. CallInv'
    <2>1. \A j \in Calls \ {k} : call'[j] = call[j]
      BY <1>2 DEF LinkInv, CallInv
    <2>2. call'[k].op = "idle" /\ DOMAIN call' = Calls
      BY <1>2 DEF Idle, LinkInv, CallInv
    <2> QED
      BY <2>1, <2>2, <1>2, <1>4, <1>5 DEF LinkInv, CallInv
  <1> QED
    BY <1>2, <1>6, <1>7, <1>8, <1>9 DEF LinkInv

-----------------------------------------------------------------------------
(* Both invariants. *)

LEMMA InitInv == Init => SessionInv /\ LinkInv
  <1> SUFFICES ASSUME Init PROVE SessionInv /\ LinkInv
    OBVIOUS
  <1>1. SessionInv
    BY DEF Init, SessionInv, Beginning, DroppedSessionsAreReleased
  <1>2. PairInv /\ EndpointInv /\ Linked /\ CallInv
    BY MediaAssumption
    DEF Init, PairInv, EndpointInv, Linked, CallInv, Idle, Live
  <1> QED
    BY <1>1, <1>2 DEF Init, LinkInv

(* Steps that touch no session, no socket and no owner. *)
LEMMA SessionUnchanged ==
  ASSUME SessionInv, UNCHANGED <<isConnected, sessionVars>>
  PROVE  SessionInv'
  BY DEF SessionInv, sessionVars, DroppedSessionsAreReleased

LEMMA SessionStep ==
  ASSUME SessionInv, LinkInv, NEW s \in Sessions, SessionNext(s)
  PROVE  SessionInv' /\ LinkInv'
  <1>1. CASE CreateSession(s)
    <2>1. PICK c \in {d \in Conns : isConnected[d]} \union {NoConn} :
            owner' = [owner EXCEPT ![s] = c]
      BY <1>1 DEF CreateSession
    <2>2. SessionInv'
      BY <1>1, <2>1, MediaAssumption
      DEF CreateSession, SessionInv, Beginning, DroppedSessionsAreReleased
    <2>3. LinkInv'
      BY <1>1, <2>2, SameLinks DEF CreateSession, SessionInv, Live, Born
    <2> QED
      BY <2>2, <2>3
  <1>2. CASE CreateClient(s)
    <2>1. SessionInv'
      BY <1>2 DEF CreateClient, SessionInv, Beginning, DroppedSessionsAreReleased
    <2>2. LinkInv'
      BY <1>2, <2>1, SameLinks DEF CreateClient, SessionInv, Live, Born
    <2> QED
      BY <2>1, <2>2
  <1>3. CASE RegisterSession(s)
    <2>1. SessionInv'
      BY <1>3 DEF RegisterSession, SessionInv, Beginning, DroppedSessionsAreReleased
    <2>2. LinkInv'
      BY <1>3, <2>1, SameLinks DEF RegisterSession, SessionInv, Live, Born
    <2> QED
      BY <2>1, <2>2
  <1>4. CASE AbortSession(s)
    <2>1. SessionInv'
      BY <1>4 DEF AbortSession, SessionInv, Beginning, DroppedSessionsAreReleased
    <2>2. LinkInv'
      BY <1>4, <2>1, SameLinks DEF AbortSession, SessionInv, Live, Born
    <2> QED
      BY <2>1, <2>2
  <1>5. CASE AbortDone(s)
    <2>1. SessionInv'
      BY <1>5 DEF AbortDone, Closed, SessionInv, Beginning, DroppedSessionsAreReleased
    <2>2. LinkInv'
      BY <1>5, <2>1, SameLinks DEF AbortDone, SessionInv, Live, Born
    <2> QED
      BY <2>1, <2>2
  <1>6. CASE DestroySession(s)
    <2>1. SessionInv'
      BY <1>6 DEF DestroySession, SessionInv, Beginning, DroppedSessionsAreReleased
    <2>2. LinkInv'
      BY <1>6, <2>1, SameLinks DEF DestroySession, SessionInv, Live, Born
    <2> QED
      BY <2>1, <2>2
  <1>7. CASE DestroyDone(s)
    <2>1. SessionInv'
      BY <1>7 DEF DestroyDone, Closed, Gone, SessionInv, Beginning, DroppedSessionsAreReleased
    <2>2. Live' = Live \ ({s} \cap Live) /\ \A t \in Sessions : Born(t) => Born(t)'
      BY <1>7 DEF DestroyDone, Gone, Live, Born, SessionInv
    <2>3. LinkInv'
      BY <1>7, <2>1, <2>2, DropStep DEF DestroyDone, SessionInv
    <2> QED
      BY <2>1, <2>3
  <1>8. CASE TeardownDone(s)
    <2>1. SessionInv'
      BY <1>8 DEF TeardownDone, AfterTeardown, Closed, SessionInv, Beginning,
         DroppedSessionsAreReleased
    <2>2. LinkInv'
      BY <1>8, <2>1, SameLinks DEF TeardownDone, SessionInv, Live, Born
    <2> QED
      BY <2>1, <2>2
  <1>9. CASE SocketClosed(s)
    <2> DEFINE dropped == IF client[s] = "open" THEN {s} \cap Live ELSE {}
    <2>1. /\ session' = Gone(dropped) /\ DropEndpoints(dropped)
          /\ client' = [client EXCEPT ![s] = "closed"]
          /\ UNCHANGED <<isConnected, owner, destroys, teardown, late, call>>
          /\ client[s] \in {"open", "closing"}
          /\ dropped \in SUBSET Live
      BY <1>9 DEF SocketClosed, CanAnswer
    <2> HIDE DEF dropped
    <2>2. dropped \subseteq {s}
      BY DEF dropped
    <2>3. SessionInv'
      BY <2>1, <2>2 DEF Gone, Live, SessionInv, Beginning, DroppedSessionsAreReleased
    <2>4. Live' = Live \ dropped /\ \A t \in Sessions : Born(t) => Born(t)'
      BY <2>1 DEF Gone, Live, Born, SessionInv
    <2>5. LinkInv'
      BY <2>1, <2>3, <2>4, DropStep DEF SessionInv
    <2> QED
      BY <2>3, <2>5
  <1> QED
    BY <1>1, <1>2, <1>3, <1>4, <1>5, <1>6, <1>7, <1>8, <1>9 DEF SessionNext

(* The commands on endpoints: what awaits rtpbridge is taken down as it is now. *)
LEMMA CallStep ==
  ASSUME SessionInv, LinkInv, NEW k \in Calls, CallNext(k)
  PROVE  SessionInv' /\ LinkInv'
  <1>1. UNCHANGED <<isConnected, sessionVars>>
    BY DEF CallNext, CreateEndpoint, Bridge, CreateEndpointDone, RemoveEndpoint, BridgeDone,
       BridgeTooLate, EndpointCallFails, RemoveEndpointFails
  <1>2. SessionInv'
    BY <1>1, SessionUnchanged
  <1>3. ASSUME NEW c, call' = [call EXCEPT ![k] = c], UNCHANGED <<sessionVars, endpointVars>>,
               c.op \in {"idle", "create", "bridge", "unmake", "remove"},
               c.op # "idle" => c.session \in Sessions /\ Born(c.session),
               c.op = "bridge" => c.target \in Sessions /\ c.target # c.session,
               c.op = "remove" => /\ c.endpoint \in used /\ c.far = pair[c.endpoint]
                                  /\ \A t \in Sessions \ {c.session} : c.endpoint \notin endpoints[t]
        PROVE  LinkInv'
    <2>1. PairInv' /\ EndpointInv' /\ Linked' /\ session' = session
      BY <1>3
      DEF LinkInv, PairInv, EndpointInv, Linked, sessionVars, endpointVars, Live, Born
    <2>2. /\ DOMAIN call' = Calls /\ call'[k] = c
          /\ \A j \in Calls \ {k} : call'[j] = call[j]
      BY <1>3 DEF LinkInv, CallInv
    <2>3. CallInv'
      BY <1>3, <2>2 DEF LinkInv, CallInv, sessionVars, endpointVars, Born
    <2> QED
      BY <2>1, <2>3 DEF LinkInv
  <1>4. ASSUME NEW s \in Sessions, CreateEndpoint(k, s) PROVE LinkInv'
    <2> DEFINE c == [op |-> "create", session |-> s]
    <2>1. call' = [call EXCEPT ![k] = c] /\ UNCHANGED <<sessionVars, endpointVars>> /\ Born(s)
      BY <1>4 DEF CreateEndpoint, Start, Live, Born
    <2> QED
      BY <1>3, <2>1
  <1>5. ASSUME NEW s \in Sessions, NEW t \in Sessions, Bridge(k, s, t) PROVE LinkInv'
    <2> DEFINE c == [op |-> "bridge", session |-> s, target |-> t]
    <2>1. /\ call' = [call EXCEPT ![k] = c] /\ UNCHANGED <<sessionVars, endpointVars>>
          /\ Born(s) /\ s # t
      BY <1>5 DEF Bridge, Start, Live, Born
    <2> QED
      BY <1>3, <2>1
  <1>6. ASSUME NEW e \in Endpoints, RemoveEndpoint(k, e) PROVE LinkInv'
    <2> DEFINE s == endpointToSession[e]
               c == [op |-> "remove", session |-> s, endpoint |-> e,
                     far |-> IF e \in endpoints[s] THEN pair[e] ELSE NoEndpoint]
    <2>1. /\ call' = [call EXCEPT ![k] = c] /\ UNCHANGED <<sessionVars, endpointVars>>
          /\ s \in Live /\ s \in Sessions /\ Born(s)
      BY <1>6 DEF RemoveEndpoint, Start, Live, Born
    <2>2. e \in endpoints[s]
      BY <2>1 DEF LinkInv, Linked
    <2>3. /\ e \in used /\ c.far = pair[e]
          /\ \A t \in Sessions \ {s} : e \notin endpoints[t]
      BY <2>1, <2>2 DEF LinkInv, EndpointInv
    <2> QED
      BY <1>3, <2>1, <2>3
  <1>7. ASSUME BridgeTooLate(k) PROVE LinkInv'
    <2> DEFINE c == [op |-> "unmake", session |-> call[k].session]
    <2>1. /\ call' = [call EXCEPT ![k] = c] /\ UNCHANGED <<sessionVars, endpointVars>>
          /\ call[k].session \in Sessions /\ Born(call[k].session)
      BY <1>7 DEF BridgeTooLate, LinkInv, CallInv
    <2> QED
      BY <1>3, <2>1
  <1>8. ASSUME EndpointCallFails(k) \/ RemoveEndpointFails(k) PROVE LinkInv'
    BY <1>3, <1>8 DEF EndpointCallFails, RemoveEndpointFails, Finish, Idle
  <1> QED
    BY <1>2, <1>4, <1>5, <1>6, <1>7, <1>8, CreateStep, BridgeStep DEF CallNext

LEMMA StepInv == SessionInv /\ LinkInv /\ [Next]_vars => SessionInv' /\ LinkInv'
  <1> SUFFICES ASSUME SessionInv, LinkInv, [Next]_vars PROVE SessionInv' /\ LinkInv'
    OBVIOUS
  <1>1. ASSUME NEW c \in Conns, Connect(c) PROVE SessionInv' /\ LinkInv'
    <2>1. SessionInv'
      BY <1>1, MediaAssumption
      DEF Connect, SessionInv, sessionVars, Beginning, DroppedSessionsAreReleased
    <2>2. LinkInv'
      BY <1>1, <2>1, SameLinks DEF Connect, SessionInv, sessionVars, Live, Born
    <2> QED
      BY <2>1, <2>2
  <1>2. ASSUME NEW c \in Conns, Disconnect(c) PROVE SessionInv' /\ LinkInv'
    <2>1. SessionInv'
      BY <1>2, MediaAssumption
      DEF Disconnect, OwnedBy, Gone, Live, SessionInv, Beginning, DroppedSessionsAreReleased
    <2>2. /\ OwnedBy(c) \in SUBSET Live /\ Live' = Live \ OwnedBy(c)
          /\ \A t \in Sessions : Born(t) => Born(t)'
      BY <1>2 DEF Disconnect, OwnedBy, Gone, Live, Born, SessionInv
    <2>3. LinkInv'
      BY <1>2, <2>1, <2>2, DropStep DEF Disconnect, SessionInv
    <2> QED
      BY <2>1, <2>3
  <1>3. ASSUME NEW s \in Sessions, SessionNext(s) PROVE SessionInv' /\ LinkInv'
    BY <1>3, SessionStep
  <1>4. ASSUME NEW k \in Calls, CallNext(k) PROVE SessionInv' /\ LinkInv'
    BY <1>4, CallStep
  <1>5. ASSUME NEW k \in Calls, RemoveEndpointDone(k) PROVE SessionInv' /\ LinkInv'
    BY <1>5, RemoveStep, SessionUnchanged DEF RemoveEndpointDone
  <1>6. CASE Shutdown
    <2>1. SessionInv'
      BY <1>6 DEF Shutdown, SessionInv, Beginning, DroppedSessionsAreReleased
    <2>2. LinkInv'
      BY <1>6, <2>1, SameLinks DEF Shutdown, SessionInv, Live, Born
    <2> QED
      BY <2>1, <2>2
  <1>7. CASE UNCHANGED vars
    <2>1. SessionInv'
      BY <1>7, SessionUnchanged DEF vars
    <2>2. LinkInv'
      BY <1>7, <2>1, SameLinks DEF vars, sessionVars, SessionInv, Live, Born
    <2> QED
      BY <2>1, <2>2
  <1> QED
    BY <1>1, <1>2, <1>3, <1>4, <1>5, <1>6, <1>7 DEF Next, OtherNext, Ended

LEMMA Inductive == Spec => [](SessionInv /\ LinkInv)
  BY InitInv, StepInv, PTL DEF Spec

(* A session that left the map does not keep its rtpbridge socket, or a      *)
(* handler that will close it still waits, for any sessions and deletions.   *)
THEOREM SessionsAreReleased == Spec => []DroppedSessionsAreReleased
  <1>1. SessionInv => DroppedSessionsAreReleased
    BY DEF SessionInv
  <1> QED
    BY <1>1, Inductive, PTL

(* Only a session that was being created when its owner left outlives it. *)
THEOREM OnlyLateSessionsAreOrphans == Spec => []OrphansCameLate
  <1>1. SessionInv => OrphansCameLate
    BY DEF SessionInv, Beginning, OrphansCameLate, Live
  <1> QED
    BY <1>1, Inductive, PTL

(* Bridges have two ends or none and the index finds every endpoint, for any *)
(* sessions and endpoints, and whichever of them go while rtpbridge is asked. *)
THEOREM EndpointsStayLinked == Spec => []EndpointsAreLinked
  <1>1. LinkInv => EndpointsAreLinked
    BY DEF LinkInv, Linked, PairInv, EndpointsAreLinked
  <1> QED
    BY <1>1, Inductive, PTL

(* What the other invariants do not need: a session that was registered has a  *)
(* client, so one is there to close when it is torn down.                      *)
SessionTypes ==
    /\ isStopping \in BOOLEAN
    /\ late \subseteq Sessions
    /\ teardown \subseteq {s \in Sessions : client[s] # "none"}
    /\ \A s \in Sessions :
          session[s] \in {"allocating", "aborting", "live"} => client[s] # "none"
    /\ call \in [Calls -> Commands]

LEMMA SessionTypesStep ==
  ASSUME SessionInv, LinkInv, SessionTypes, [Next]_vars
  PROVE  SessionTypes'
  <1>1. ASSUME NEW s \in Sessions, SessionNext(s) PROVE SessionTypes'
    BY <1>1 DEF SessionNext, CreateSession, CreateClient, RegisterSession, AbortSession, AbortDone,
       DestroySession, DestroyDone, TeardownDone, AfterTeardown, SocketClosed, CanAnswer, Closed,
       Gone, Live, SessionInv, SessionTypes
  <1>2. ASSUME NEW c \in Conns, Connect(c) \/ Disconnect(c) PROVE SessionTypes'
    BY <1>2 DEF Connect, Disconnect, OwnedBy, Gone, Live, sessionVars, SessionInv, SessionTypes
  <1>3. CASE Shutdown \/ UNCHANGED vars
    BY <1>3 DEF Shutdown, vars, sessionVars, SessionTypes
  <1>4. ASSUME UNCHANGED <<isStopping, sessionVars>>, NEW k \in Calls, NEW c \in Commands,
               call' = [call EXCEPT ![k] = c]
        PROVE  SessionTypes'
    BY <1>4 DEF sessionVars, SessionTypes
  <1>5. Idle \in Commands
    BY DEF Commands
  <1>6. ASSUME NEW k \in Calls, CallNext(k) \/ RemoveEndpointDone(k) PROVE SessionTypes'
    <2>1. UNCHANGED <<isStopping, sessionVars>>
      BY <1>6 DEF CallNext, CreateEndpoint, Bridge, CreateEndpointDone, RemoveEndpoint, BridgeDone,
         BridgeTooLate, EndpointCallFails, RemoveEndpointFails, RemoveEndpointDone
    <2>2. ASSUME NEW s \in Sessions, CreateEndpoint(k, s) PROVE SessionTypes'
      <3>1. [op |-> "create", session |-> s] \in Commands
        BY DEF Commands
      <3> QED
        BY <1>4, <2>1, <2>2, <3>1 DEF CreateEndpoint, Start
    <2>3. ASSUME NEW s \in Sessions, NEW t \in Sessions, Bridge(k, s, t) PROVE SessionTypes'
      <3>1. [op |-> "bridge", session |-> s, target |-> t] \in Commands
        BY DEF Commands
      <3> QED
        BY <1>4, <2>1, <2>3, <3>1 DEF Bridge, Start
    <2>4. ASSUME NEW e \in Endpoints, RemoveEndpoint(k, e) PROVE SessionTypes'
      <3> DEFINE s   == endpointToSession[e]
                 far == IF e \in endpoints[s] THEN pair[e] ELSE NoEndpoint
      <3>1. s \in Sessions /\ far \in Endpoints \union {NoEndpoint}
        BY <2>4 DEF RemoveEndpoint, Live, LinkInv, PairInv
      <3>2. call' = [call EXCEPT ![k] = [op |-> "remove", session |-> s, endpoint |-> e,
                                         far |-> far]]
        BY <2>4 DEF RemoveEndpoint, Start
      <3> HIDE DEF s, far
      <3>3. [op |-> "remove", session |-> s, endpoint |-> e, far |-> far] \in Commands
        BY <3>1 DEF Commands
      <3> QED
        BY <1>4, <2>1, <3>2, <3>3
    <2>5. ASSUME BridgeTooLate(k) PROVE SessionTypes'
      <3>1. call[k].session \in Sessions
        BY <2>5 DEF BridgeTooLate, LinkInv, CallInv
      <3>2. [op |-> "unmake", session |-> call[k].session] \in Commands
        BY <3>1 DEF Commands
      <3> QED
        BY <1>4, <2>1, <2>5, <3>2 DEF BridgeTooLate
    <2> QED
      BY <1>4, <1>5, <1>6, <2>1, <2>2, <2>3, <2>4, <2>5
      DEF CallNext, CreateEndpointDone, BridgeDone, EndpointCallFails, RemoveEndpointFails,
          RemoveEndpointDone, Finish
  <1> QED
    BY <1>1, <1>2, <1>3, <1>6 DEF Next, OtherNext, Ended

(* A session, its socket, its endpoints and the commands on them have their    *)
(* types, and whatever is being torn down has a client to close.               *)
THEOREM MediaTypes == Spec => []TypeOK
  <1>1. Init => SessionTypes
    BY DEF Init, Commands, SessionTypes
  <1>2. SessionInv /\ LinkInv /\ SessionTypes => TypeOK
    BY DEF SessionInv, LinkInv, PairInv, EndpointInv, SessionTypes, TypeOK
  <1> QED
    BY <1>1, <1>2, SessionTypesStep, Inductive, PTL DEF Spec

-----------------------------------------------------------------------------
(* Recordings and ICE restarts. *)

RecordingInv ==
    /\ recording \in [Recordings -> [pc : {"none", "starting", "started", "stopping", "over"},
                                     session : Sessions \union {NoSession}]]
    /\ recordings \subseteq Recordings
    /\ \A r \in Recordings : (recording[r].pc = "starting" \/ r \in recordings) =>
          recording[r].session \in Live \/ r \in startedLate

IndexInv ==
    \A e \in Endpoints : endpointToSession[e] \in Live \union {NoSession} \/ e \in indexedLate

Outstanding(q) == restart[q].pc \in {"pending", "offered"}

(* A cached restart is an outstanding one of its endpoint, and an outstanding *)
(* one that is not cached was forgotten or has lost its endpoint.            *)
RestartInv ==
    /\ restart \in [Restarts -> [pc : {"none", "pending", "offered", "failed", "answered"},
                                 endpoint : Endpoints \union {NoEndpoint}]]
    /\ pendingIceRestarts \in [Endpoints -> Restarts \union {NoRestart}]
    /\ \A q \in Restarts : restart[q].pc # "none" => restart[q].endpoint \in used
    /\ \A e \in Endpoints, q \in Restarts : <<e, q>> \in answering =>
          restart[q].endpoint = e /\ restart[q].pc # "none"
    /\ \A e \in Endpoints : IsCached(e) =>
          /\ endpointToSession[e] \in Live
          /\ restart[pendingIceRestarts[e]].endpoint = e
          /\ Outstanding(pendingIceRestarts[e])
    /\ \A q \in Restarts \ forgotten : Outstanding(q) =>
          \/ pendingIceRestarts[restart[q].endpoint] = q
          \/ endpointToSession[restart[q].endpoint] \notin Live

ResourceInv == RecordingInv /\ IndexInv /\ RestartInv

(* How a step of MediaSessions, but for the removal of an endpoint, changes   *)
(* the map and the index.                                                     *)
IndexGrows ==
    /\ Live \subseteq Live' /\ \A s \in Live' \ Live : ~Born(s)
    /\ used \subseteq used'
    /\ \A e \in used : endpointToSession'[e] = endpointToSession[e]

IndexShrinks == Live' \subseteq Live /\ DropEndpoints(Live \ Live')

LEMMA OtherStep ==
  ASSUME SessionInv, LinkInv, OtherNext
  PROVE  IndexGrows \/ IndexShrinks
  <1>1. ASSUME NEW c \in Conns, Connect(c) PROVE IndexGrows
    BY <1>1 DEF Connect, sessionVars, endpointVars, Live, IndexGrows
  <1>2. ASSUME NEW c \in Conns, Disconnect(c) PROVE IndexShrinks
    <2>1. Live' = Live \ OwnedBy(c) /\ OwnedBy(c) \subseteq Live
      BY <1>2 DEF Disconnect, OwnedBy, Gone, Live, SessionInv
    <2>2. Live \ Live' = OwnedBy(c)
      BY <2>1
    <2> QED
      BY <1>2, <2>1, <2>2 DEF Disconnect, IndexShrinks
  <1>3. ASSUME NEW s \in Sessions, SessionNext(s) PROVE IndexGrows \/ IndexShrinks
    <2>1. CASE \/ CreateSession(s) \/ CreateClient(s) \/ RegisterSession(s) \/ AbortSession(s)
               \/ AbortDone(s) \/ DestroySession(s) \/ TeardownDone(s)
      BY <1>3, <2>1
      DEF CreateSession, CreateClient, RegisterSession, AbortSession, AbortDone, DestroySession,
          TeardownDone, endpointVars, Live, Born, IndexGrows, SessionInv
    <2>2. CASE DestroyDone(s)
      <3>1. Live' \subseteq Live /\ Live \ Live' = {s} \cap Live
        BY <2>2 DEF DestroyDone, Gone, Live, SessionInv
      <3> QED
        BY <2>2, <3>1 DEF DestroyDone, IndexShrinks
    <2>3. CASE SocketClosed(s)
      <3> DEFINE dropped == IF client[s] = "open" THEN {s} \cap Live ELSE {}
      <3>1. session' = Gone(dropped) /\ DropEndpoints(dropped) /\ dropped \subseteq Live
        BY <2>3 DEF SocketClosed
      <3> HIDE DEF dropped
      <3>2. Live' \subseteq Live /\ Live \ Live' = dropped
        BY <3>1 DEF Gone, Live, SessionInv
      <3> QED
        BY <3>1, <3>2 DEF IndexShrinks
    <2> QED
      BY <1>3, <2>1, <2>2, <2>3 DEF SessionNext
  <1>4. ASSUME NEW k \in Calls, CallNext(k) PROVE IndexGrows
    <2>1. Live' = Live
      BY <1>4 DEF CallNext, CreateEndpoint, Bridge, CreateEndpointDone, RemoveEndpoint, BridgeDone,
         BridgeTooLate, EndpointCallFails, RemoveEndpointFails, sessionVars, Live
    <2>2. ASSUME NEW e \in Endpoints, CreateEndpointDone(k, e) PROVE IndexGrows
      BY <2>1, <2>2 DEF CreateEndpointDone, IndexGrows, LinkInv, EndpointInv
    <2>3. ASSUME NEW e \in Endpoints, NEW f \in Endpoints, BridgeDone(k, e, f) PROVE IndexGrows
      BY <2>1, <2>3 DEF BridgeDone, IndexGrows, LinkInv, EndpointInv
    <2>4. ASSUME UNCHANGED endpointVars PROVE IndexGrows
      BY <2>1, <2>4 DEF endpointVars, IndexGrows
    <2> QED
      BY <1>4, <2>2, <2>3, <2>4 DEF CallNext, CreateEndpoint, Bridge, RemoveEndpoint,
         BridgeTooLate, EndpointCallFails, RemoveEndpointFails
  <1>5. CASE Shutdown
    BY <1>5 DEF Shutdown, endpointVars, Live, IndexGrows
  <1> QED
    BY <1>1, <1>2, <1>3, <1>4, <1>5 DEF OtherNext

(* What the map and the index lose goes with what Forget forgets. *)
LEMMA DroppedIsForgotten ==
  ASSUME LinkInv, IndexShrinks
  PROVE  /\ used' = used
         /\ \A e \in Endpoints : e \in EndpointsOf(Live \ Live') =>
               endpointToSession'[e] = NoSession
         /\ \A e \in Endpoints : e \notin EndpointsOf(Live \ Live') =>
               /\ endpointToSession'[e] = endpointToSession[e]
               /\ endpointToSession[e] \notin Live \ Live'
  <1>1. /\ used' = used
        /\ endpointToSession' = [e \in Endpoints |-> IF e \in EndpointsOf(Live \ Live')
                                                     THEN NoSession ELSE endpointToSession[e]]
    BY DEF IndexShrinks, DropEndpoints, EndpointsOf
  <1>2. ASSUME NEW e \in Endpoints, endpointToSession[e] \in Live \ Live'
        PROVE  e \in EndpointsOf(Live \ Live')
    <2>1. e \in endpoints[endpointToSession[e]]
      BY <1>2 DEF LinkInv, Linked
    <2> QED
      BY <1>2, <2>1 DEF EndpointsOf
  <1> QED
    BY <1>1, <1>2

(* A session enters the map with nothing, or sessions leave it. *)
LEMMA OtherKeeps ==
  ASSUME SessionInv, LinkInv, ResourceInv, OtherNext, Forget(Live \ Live', {})
  PROVE  ResourceInv'
  <1> DEFINE S == Live \ Live'
  <1>1. /\ recordings' = recordings \ RecordingsOf(S)
        /\ startedLate' = startedLate \union
              {r \in Recordings : recording[r].pc = "starting" /\ recording[r].session \in S}
        /\ pendingIceRestarts' = [e \in Endpoints |->
              IF e \in EndpointsOf(S) THEN NoRestart ELSE pendingIceRestarts[e]]
        /\ indexedLate' = indexedLate \union
              {e \in used' \ used : endpointToSession'[e] \notin Live}
        /\ UNCHANGED <<recording, restart, answering, forgotten>>
    BY DEF Forget
  <1>2. RecordingInv'
    BY <1>1 DEF ResourceInv, RecordingInv, RecordingsOf
  <1>3. /\ endpointToSession' \in [Endpoints -> Sessions \union {NoSession}]
        /\ \A e \in Endpoints : endpointToSession'[e] # NoSession => e \in used'
        /\ used \subseteq Endpoints
    <2>1. LinkInv'
      BY StepInv DEF Next
    <2> QED
      BY <2>1 DEF LinkInv, EndpointInv
  <1>4. CASE IndexGrows
    <2>1. S = {} /\ EndpointsOf(S) = {}
      BY <1>4 DEF IndexGrows, EndpointsOf, FarEnds
    <2>2. /\ pendingIceRestarts' = [e \in Endpoints |-> pendingIceRestarts[e]]
          /\ pendingIceRestarts' = pendingIceRestarts
      BY <1>1, <2>1 DEF ResourceInv, RestartInv
    <2>3. ASSUME NEW e \in Endpoints, endpointToSession'[e] # NoSession,
                 endpointToSession'[e] \notin Live'
          PROVE  e \in indexedLate'
      <3>1. CASE e \in used
        BY <1>1, <1>4, <2>3, <3>1 DEF IndexGrows, ResourceInv, IndexInv
      <3>2. CASE e \notin used
        BY <1>1, <1>3, <1>4, <2>3, <3>2 DEF IndexGrows
      <3> QED
        BY <3>1, <3>2
    <2>4. IndexInv'
      BY <2>3 DEF IndexInv
    <2>5. ASSUME NEW e \in used
          PROVE  endpointToSession'[e] \in Live' <=> endpointToSession[e] \in Live
      <3>1. e \in Endpoints /\ endpointToSession'[e] = endpointToSession[e]
        BY <1>3, <1>4 DEF IndexGrows
      <3>2. endpointToSession[e] \notin Live' \ Live
        BY <1>4, <3>1 DEF IndexGrows, LinkInv, EndpointInv, Live
      <3> QED
        BY <1>4, <3>1, <3>2 DEF IndexGrows
    <2>6. \A e \in Endpoints : endpointToSession[e] \in Live => e \in used
      BY MediaAssumption DEF LinkInv, EndpointInv, Live
    <2>7. used \subseteq used'
      BY <1>4 DEF IndexGrows
    <2>8. \A e \in Endpoints : IsCached(e)' =>
            /\ endpointToSession'[e] \in Live'
            /\ restart'[pendingIceRestarts'[e]].endpoint = e
            /\ Outstanding(pendingIceRestarts[e])'
      BY <1>1, <2>2, <2>5, <2>6 DEF ResourceInv, RestartInv, IsCached, Outstanding
    <2>9. ASSUME NEW q \in Restarts \ forgotten, Outstanding(q)
          PROVE  \/ pendingIceRestarts[restart[q].endpoint] = q
                 \/ endpointToSession'[restart[q].endpoint] \notin Live'
      <3>1. restart[q].endpoint \in used
        BY <2>9 DEF ResourceInv, RestartInv, Outstanding
      <3> QED
        BY <2>5, <2>9, <3>1 DEF ResourceInv, RestartInv
    <2>10. RestartInv'
      <3>1. restart' = restart /\ answering' = answering /\ forgotten' = forgotten
        BY <1>1
      <3>2. \A q \in Restarts : restart[q].pc # "none" => restart[q].endpoint \in used'
        BY <2>7 DEF ResourceInv, RestartInv
      <3> QED
        BY <2>2, <2>8, <2>9, <3>1, <3>2 DEF ResourceInv, RestartInv, IsCached, Outstanding
    <2> QED
      BY <1>2, <2>4, <2>10 DEF ResourceInv
  <1>5. CASE IndexShrinks
    <2>1. /\ used' = used /\ Live' \subseteq Live
          /\ \A e \in Endpoints : e \in EndpointsOf(S) => endpointToSession'[e] = NoSession
          /\ \A e \in Endpoints : e \notin EndpointsOf(S) =>
                /\ endpointToSession'[e] = endpointToSession[e]
                /\ endpointToSession[e] \notin Live \ Live'
      BY <1>5, DroppedIsForgotten DEF IndexShrinks
    <2>2. NoSession \notin Live /\ NoSession \notin Live'
      BY MediaAssumption DEF Live
    <2>3. IndexInv'
      BY <1>1, <2>1 DEF ResourceInv, IndexInv
    <2>4. \A e \in Endpoints :
            /\ e \in EndpointsOf(S) => pendingIceRestarts'[e] = NoRestart
            /\ e \notin EndpointsOf(S) => pendingIceRestarts'[e] = pendingIceRestarts[e]
      BY <1>1
    <2>5. pendingIceRestarts' \in [Endpoints -> Restarts \union {NoRestart}]
      BY <1>1 DEF ResourceInv, RestartInv
    <2>6. \A e \in Endpoints : IsCached(e)' =>
            /\ endpointToSession'[e] \in Live'
            /\ restart'[pendingIceRestarts'[e]].endpoint = e
            /\ Outstanding(pendingIceRestarts[e])'
      BY <1>1, <2>1, <2>4 DEF ResourceInv, RestartInv, IsCached, Outstanding
    <2>7. ASSUME NEW q \in Restarts \ forgotten, Outstanding(q)
          PROVE  \/ pendingIceRestarts'[restart[q].endpoint] = q
                 \/ endpointToSession'[restart[q].endpoint] \notin Live'
      <3>1. restart[q].endpoint \in Endpoints
        BY <1>3, <2>7 DEF ResourceInv, RestartInv, Outstanding
      <3>2. \/ pendingIceRestarts[restart[q].endpoint] = q
            \/ endpointToSession[restart[q].endpoint] \notin Live
        BY <2>7 DEF ResourceInv, RestartInv
      <3> QED
        BY <2>1, <2>2, <2>4, <3>1, <3>2
    <2>8. RestartInv'
      <3>1. restart' = restart /\ answering' = answering /\ forgotten' = forgotten
        BY <1>1
      <3> QED
        BY <2>1, <2>5, <2>6, <2>7, <3>1 DEF ResourceInv, RestartInv, IsCached, Outstanding
    <2> QED
      BY <1>2, <2>3, <2>8 DEF ResourceInv
  <1> QED
    BY <1>4, <1>5, OtherStep

(* What is left in the cache is as it was, and what is lost is out of the index. *)
LEMMA RemoveKeeps ==
  ASSUME SessionInv, LinkInv, ResourceInv, NEW k \in Calls, RemoveEndpointDone(k),
         Forget({}, {call[k].endpoint} \union RemovedEnds(k))
  PROVE  ResourceInv'
  <1> DEFINE E == {call[k].endpoint} \union RemovedEnds(k)
  <1>1. /\ recordings' = recordings \ RecordingsOf({})
        /\ startedLate' = startedLate \union
              {r \in Recordings : recording[r].pc = "starting" /\ recording[r].session \in {}}
        /\ pendingIceRestarts' = [e \in Endpoints |->
              IF e \in E \union EndpointsOf({}) THEN NoRestart ELSE pendingIceRestarts[e]]
        /\ recording' = recording /\ indexedLate \subseteq indexedLate'
        /\ restart' = restart /\ answering' = answering /\ forgotten' = forgotten
    BY DEF Forget
  <1>2. /\ used' = used /\ Live' = Live
        /\ endpointToSession' = [e \in Endpoints |->
              IF e \in RemovedEnds(k) THEN NoSession ELSE endpointToSession[e]]
    BY DEF RemoveEndpointDone, sessionVars, Live
  <1>3. E = RemovedEnds(k) /\ EndpointsOf({}) = {} /\ RecordingsOf({}) = {}
    BY DEF RemovedEnds, EndpointsOf, FarEnds, RecordingsOf
  <1> HIDE DEF E
  <1>4. \A e \in Endpoints :
          IF e \in E THEN pendingIceRestarts'[e] = NoRestart /\ endpointToSession'[e] = NoSession
                     ELSE /\ pendingIceRestarts'[e] = pendingIceRestarts[e]
                          /\ endpointToSession'[e] = endpointToSession[e]
    BY <1>1, <1>2, <1>3
  <1>5. RecordingInv'
    BY <1>1, <1>2, <1>3 DEF ResourceInv, RecordingInv
  <1>6. IndexInv'
    BY <1>1, <1>2, <1>4 DEF ResourceInv, IndexInv
  <1>7. RestartInv'
    <2>1. pendingIceRestarts' \in [Endpoints -> Restarts \union {NoRestart}]
      BY <1>1 DEF ResourceInv, RestartInv
    <2>2. \A e \in Endpoints : IsCached(e)' =>
            /\ endpointToSession'[e] \in Live'
            /\ restart'[pendingIceRestarts'[e]].endpoint = e
            /\ Outstanding(pendingIceRestarts[e])'
      BY <1>1, <1>2, <1>4 DEF ResourceInv, RestartInv, IsCached, Outstanding
    <2>3. ASSUME NEW q \in Restarts \ forgotten, Outstanding(q)
          PROVE  \/ pendingIceRestarts'[restart[q].endpoint] = q
                 \/ endpointToSession'[restart[q].endpoint] \notin Live
      <3>1. restart[q].endpoint \in Endpoints
        BY <2>3 DEF ResourceInv, RestartInv, Outstanding, LinkInv, EndpointInv
      <3>2. \/ pendingIceRestarts[restart[q].endpoint] = q
            \/ endpointToSession[restart[q].endpoint] \notin Live
        BY <2>3 DEF ResourceInv, RestartInv
      <3>3. NoSession \notin Live
        BY MediaAssumption DEF Live
      <3> QED
        BY <1>4, <3>1, <3>2, <3>3
    <2> QED
      BY <1>1, <1>2, <2>1, <2>2, <2>3 DEF ResourceInv, RestartInv, IsCached, Outstanding
  <1> QED
    BY <1>5, <1>6, <1>7 DEF ResourceInv

LEMMA RecordingKeeps ==
  ASSUME ResourceInv, NEW r \in Recordings, RecordingNext(r)
  PROVE  ResourceInv'
  <1>1. UNCHANGED <<vars, indexedLate, startedLate, restartVars>>
    BY DEF RecordingNext, StartRecording, StartRecordingDone, StartRecordingFails, StopRecording,
       StopRecordingDone, StopRecordingFails
  <1>2. Live' = Live /\ Live \subseteq Sessions
    BY <1>1 DEF vars, sessionVars, Live
  <1>3. RecordingInv'
    BY <1>1, <1>2 DEF RecordingNext, StartRecording, StartRecordingDone, StartRecordingFails,
       StopRecording, StopRecordingDone, StopRecordingFails, ResourceInv, RecordingInv
  <1>4. IndexInv'
    BY <1>1, <1>2 DEF vars, endpointVars, ResourceInv, IndexInv
  <1>5. RestartInv'
    BY <1>1, <1>2 DEF vars, endpointVars, restartVars, ResourceInv, RestartInv, IsCached,
       Outstanding
  <1> QED
    BY <1>3, <1>4, <1>5 DEF ResourceInv

(* A restart of an endpoint is settled: nothing of the endpoint stays cached, *)
(* and the restart that was cached, if another one, is forgotten.             *)
LEMMA Settled ==
  ASSUME LinkInv, RestartInv, NEW e \in Endpoints, NEW q,
         q \in Restarts => restart[q].endpoint = e /\ restart[q].pc # "none",
         Live' = Live, used' = used, endpointToSession' = endpointToSession,
         restart' \in [Restarts -> [pc : {"none", "pending", "offered", "failed", "answered"},
                                    endpoint : Endpoints \union {NoEndpoint}]],
         \A p \in Restarts : restart'[p].endpoint = restart[p].endpoint,
         \A p \in Restarts \ {q} : restart'[p].pc = restart[p].pc,
         q \in Restarts => restart'[q].pc \in {"failed", "answered"},
         pendingIceRestarts' = [pendingIceRestarts EXCEPT ![e] = NoRestart],
         answering' \subseteq answering,
         forgotten' = forgotten \union ({pendingIceRestarts[e]} \ {q, NoRestart})
  PROVE  RestartInv'
  <1>1. /\ pendingIceRestarts'[e] = NoRestart
        /\ \A f \in Endpoints \ {e} : pendingIceRestarts'[f] = pendingIceRestarts[f]
        /\ pendingIceRestarts' \in [Endpoints -> Restarts \union {NoRestart}]
    BY DEF RestartInv
  <1>2. \A p \in Restarts : restart'[p].pc # "none" => restart'[p].endpoint \in used'
    BY DEF RestartInv
  <1>3. \A f \in Endpoints, p \in Restarts : <<f, p>> \in answering' =>
          restart'[p].endpoint = f /\ restart'[p].pc # "none"
    BY DEF RestartInv
  <1>4. \A f \in Endpoints : IsCached(f)' =>
          /\ endpointToSession'[f] \in Live'
          /\ restart'[pendingIceRestarts'[f]].endpoint = f
          /\ Outstanding(pendingIceRestarts[f])'
    <2> SUFFICES ASSUME NEW f \in Endpoints, pendingIceRestarts'[f] # NoRestart
                 PROVE  /\ endpointToSession'[f] \in Live'
                        /\ restart'[pendingIceRestarts'[f]].endpoint = f
                        /\ restart'[pendingIceRestarts'[f]].pc \in {"pending", "offered"}
      BY DEF IsCached, Outstanding
    <2>1. /\ f # e /\ pendingIceRestarts'[f] = pendingIceRestarts[f]
          /\ pendingIceRestarts[f] \in Restarts
          /\ endpointToSession[f] \in Live
          /\ restart[pendingIceRestarts[f]].endpoint = f
          /\ restart[pendingIceRestarts[f]].pc \in {"pending", "offered"}
      BY <1>1 DEF RestartInv, IsCached, Outstanding
    <2> QED
      BY <2>1
  <1>5. ASSUME NEW p \in Restarts \ forgotten', restart'[p].pc \in {"pending", "offered"}
        PROVE  \/ pendingIceRestarts'[restart'[p].endpoint] = p
               \/ endpointToSession[restart'[p].endpoint] \notin Live
    <2>1. /\ p # q /\ p # NoRestart /\ p \in Restarts \ forgotten
          /\ p # pendingIceRestarts[e]
      BY <1>5, ResourceAssumption
    <2>2. /\ restart'[p].endpoint = restart[p].endpoint /\ restart[p].endpoint \in Endpoints
          /\ \/ pendingIceRestarts[restart[p].endpoint] = p
             \/ endpointToSession[restart[p].endpoint] \notin Live
      BY <1>5, <2>1 DEF RestartInv, Outstanding, LinkInv, EndpointInv
    <2> QED
      BY <1>1, <2>1, <2>2
  <1> QED
    BY <1>1, <1>2, <1>3, <1>4, <1>5 DEF RestartInv, Outstanding

(* rtpbridge is asked for a restart only with none of the endpoint cached.    *)
LEMMA RestartKeeps ==
  ASSUME LinkInv, ResourceInv, NEW q \in Restarts, RestartNext(q)
  PROVE  ResourceInv'
  <1>1. UNCHANGED <<vars, indexedLate, recordingVars, answering>>
    BY DEF RestartNext, RestartIce, RestartOffered, RestartFails
  <1>2. /\ Live' = Live /\ used' = used /\ endpointToSession' = endpointToSession
        /\ NoSession \notin Live
    BY <1>1, MediaAssumption DEF vars, sessionVars, endpointVars, Live
  <1>3. RecordingInv' /\ IndexInv'
    BY <1>1, <1>2 DEF recordingVars, ResourceInv, RecordingInv, IndexInv
  <1>4. ASSUME NEW e \in Endpoints, RestartIce(q, e) PROVE RestartInv'
    <2>1. /\ restart[q].pc = "none" /\ endpointToSession[e] \in Live
          /\ pendingIceRestarts[e] = NoRestart
          /\ restart' = [restart EXCEPT ![q] = [pc |-> "pending", endpoint |-> e]]
          /\ pendingIceRestarts' = [pendingIceRestarts EXCEPT ![e] = q]
          /\ answering' = answering /\ forgotten' = forgotten
      BY <1>4 DEF RestartIce, IsCached
    <2>2. /\ restart'[q] = [pc |-> "pending", endpoint |-> e]
          /\ \A p \in Restarts \ {q} : restart'[p] = restart[p]
          /\ pendingIceRestarts'[e] = q
          /\ \A f \in Endpoints \ {e} : pendingIceRestarts'[f] = pendingIceRestarts[f]
      BY <2>1 DEF ResourceInv, RestartInv
    <2>3. e \in used
      BY <1>2, <2>1 DEF LinkInv, EndpointInv
    <2>4. /\ restart' \in [Restarts -> [pc : {"none", "pending", "offered", "failed", "answered"},
                                         endpoint : Endpoints \union {NoEndpoint}]]
          /\ pendingIceRestarts' \in [Endpoints -> Restarts \union {NoRestart}]
      BY <2>1 DEF ResourceInv, RestartInv
    <2>5. \A p \in Restarts : restart'[p].pc # "none" => restart'[p].endpoint \in used'
      BY <1>2, <2>2, <2>3 DEF ResourceInv, RestartInv
    <2>6. \A f \in Endpoints, p \in Restarts : <<f, p>> \in answering' =>
            restart'[p].endpoint = f /\ restart'[p].pc # "none"
      BY <2>1, <2>2 DEF ResourceInv, RestartInv
    <2>7. \A f \in Endpoints : IsCached(f)' =>
            /\ endpointToSession'[f] \in Live'
            /\ restart'[pendingIceRestarts'[f]].endpoint = f
            /\ Outstanding(pendingIceRestarts[f])'
      <3> SUFFICES ASSUME NEW f \in Endpoints, pendingIceRestarts'[f] # NoRestart
                   PROVE  /\ endpointToSession'[f] \in Live'
                          /\ restart'[pendingIceRestarts'[f]].endpoint = f
                          /\ restart'[pendingIceRestarts'[f]].pc \in {"pending", "offered"}
        BY DEF IsCached, Outstanding
      <3>1. CASE f = e
        BY <3>1, <1>2, <2>1, <2>2
      <3>2. CASE f # e
        <4>1. /\ pendingIceRestarts'[f] = pendingIceRestarts[f]
              /\ pendingIceRestarts[f] \in Restarts
              /\ endpointToSession[f] \in Live
              /\ restart[pendingIceRestarts[f]].endpoint = f
              /\ restart[pendingIceRestarts[f]].pc \in {"pending", "offered"}
          BY <3>2, <2>2 DEF ResourceInv, RestartInv, IsCached, Outstanding
        <4> QED
          BY <4>1, <1>2, <2>1, <2>2
      <3> QED
        BY <3>1, <3>2
    <2>8. ASSUME NEW p \in Restarts \ forgotten, restart'[p].pc \in {"pending", "offered"}
          PROVE  \/ pendingIceRestarts'[restart'[p].endpoint] = p
                 \/ endpointToSession[restart'[p].endpoint] \notin Live
      <3>1. CASE p = q
        BY <3>1, <2>2
      <3>2. CASE p # q
        <4>1. /\ restart'[p] = restart[p] /\ p # NoRestart
              /\ restart[p].endpoint \in Endpoints
              /\ \/ pendingIceRestarts[restart[p].endpoint] = p
                 \/ endpointToSession[restart[p].endpoint] \notin Live
          BY <3>2, <2>2, <2>8, ResourceAssumption
          DEF ResourceInv, RestartInv, Outstanding, LinkInv, EndpointInv
        <4> QED
          BY <4>1, <2>1, <2>2
      <3> QED
        BY <3>1, <3>2
    <2> QED
      BY <1>2, <2>1, <2>4, <2>5, <2>6, <2>7, <2>8 DEF RestartInv, Outstanding
  <1>5. ASSUME RestartOffered(q) PROVE RestartInv'
    <2>1. /\ restart[q].pc = "pending"
          /\ restart' = [restart EXCEPT ![q].pc = "offered"]
          /\ pendingIceRestarts' = pendingIceRestarts
          /\ answering' = answering /\ forgotten' = forgotten
      BY <1>5 DEF RestartOffered
    <2>2. \A p \in Restarts :
            /\ restart'[p].endpoint = restart[p].endpoint
            /\ restart'[p].pc = IF p = q THEN "offered" ELSE restart[p].pc
      BY <2>1 DEF ResourceInv, RestartInv
    <2>3. restart' \in [Restarts -> [pc : {"none", "pending", "offered", "failed", "answered"},
                                     endpoint : Endpoints \union {NoEndpoint}]]
      BY <2>1 DEF ResourceInv, RestartInv
    <2> QED
      BY <1>2, <2>1, <2>2, <2>3 DEF ResourceInv, RestartInv, IsCached, Outstanding
  <1>6. ASSUME RestartFails(q) PROVE RestartInv'
    <2> DEFINE e == restart[q].endpoint
    <2>1. /\ restart[q].pc = "pending" /\ e \in Endpoints
          /\ restart' = [restart EXCEPT ![q].pc = "failed"]
          /\ pendingIceRestarts' = [pendingIceRestarts EXCEPT ![e] = NoRestart]
          /\ answering' = answering
          /\ forgotten' = forgotten \union ({pendingIceRestarts[e]} \ {q, NoRestart})
      BY <1>6 DEF RestartFails, Uncached, Others, ResourceInv, RestartInv, LinkInv, EndpointInv
    <2>2. /\ \A p \in Restarts :
              /\ restart'[p].endpoint = restart[p].endpoint
              /\ restart'[p].pc = IF p = q THEN "failed" ELSE restart[p].pc
          /\ \A f \in Endpoints :
              pendingIceRestarts'[f] = IF f = e THEN NoRestart ELSE pendingIceRestarts[f]
      BY <2>1 DEF ResourceInv, RestartInv
    <2>3. /\ restart' \in [Restarts -> [pc : {"none", "pending", "offered", "failed", "answered"},
                                         endpoint : Endpoints \union {NoEndpoint}]]
          /\ pendingIceRestarts' \in [Endpoints -> Restarts \union {NoRestart}]
      BY <2>1 DEF ResourceInv, RestartInv
    <2>4. RestartInv /\ answering' \subseteq answering /\ restart[q].pc # "none"
      BY <2>1 DEF ResourceInv
    <2>5. /\ \A p \in Restarts : restart'[p].endpoint = restart[p].endpoint
          /\ \A p \in Restarts \ {q} : restart'[p].pc = restart[p].pc
          /\ restart'[q].pc \in {"failed", "answered"}
          /\ restart[q].endpoint = e
      BY <2>2
    <2> HIDE DEF e
    <2> QED
      BY <1>2, <2>1, <2>3, <2>4, <2>5, Settled
  <1> QED
    BY <1>3, <1>4, <1>5, <1>6 DEF RestartNext, ResourceInv

LEMMA AnswerKeeps ==
  ASSUME LinkInv, ResourceInv, NEW e \in Endpoints, NEW q \in Restarts \union {NoRestart},
         AnswerNext(e, q)
  PROVE  ResourceInv'
  <1>1. UNCHANGED <<vars, indexedLate, recordingVars>>
    BY DEF AnswerNext, AcceptAnswer, AnswerAccepted, AnswerRefused
  <1>2. Live' = Live /\ used' = used /\ endpointToSession' = endpointToSession
    BY <1>1 DEF vars, sessionVars, endpointVars, Live
  <1>3. RecordingInv' /\ IndexInv'
    BY <1>1, <1>2 DEF recordingVars, ResourceInv, RecordingInv, IndexInv
  <1>4. ASSUME AcceptAnswer(e, q) \/ AnswerRefused(e, q) PROVE RestartInv'
    <2>1. /\ UNCHANGED <<restart, pendingIceRestarts, forgotten>>
          /\ \/ answering' \subseteq answering
             \/ /\ answering' = answering \union {<<e, q>>}
                /\ q # NoRestart => restart[q] = [pc |-> "offered", endpoint |-> e]
      BY <1>4 DEF AcceptAnswer, AnswerRefused
    <2>2. \A f \in Endpoints, p \in Restarts : <<f, p>> \in answering' =>
            restart[p].endpoint = f /\ restart[p].pc # "none"
      BY <2>1, ResourceAssumption DEF ResourceInv, RestartInv
    <2> QED
      BY <1>2, <2>1, <2>2 DEF ResourceInv, RestartInv, IsCached, Outstanding
  <1>5. ASSUME AnswerAccepted(e, q) PROVE RestartInv'
    <2>1. /\ <<e, q>> \in answering /\ answering' \subseteq answering
          /\ restart' = IF q = NoRestart THEN restart ELSE [restart EXCEPT ![q].pc = "answered"]
          /\ pendingIceRestarts' = [pendingIceRestarts EXCEPT ![e] = NoRestart]
          /\ forgotten' = forgotten \union ({pendingIceRestarts[e]} \ {q, NoRestart})
      BY <1>5 DEF AnswerAccepted, Uncached, Others
    <2>2. RestartInv /\ (q \in Restarts => restart[q].endpoint = e /\ restart[q].pc # "none")
      BY <2>1 DEF ResourceInv, RestartInv
    <2>3. restart' \in [Restarts -> [pc : {"none", "pending", "offered", "failed", "answered"},
                                     endpoint : Endpoints \union {NoEndpoint}]]
      BY <2>1, <2>2 DEF RestartInv
    <2>4. /\ \A p \in Restarts : restart'[p].endpoint = restart[p].endpoint
          /\ \A p \in Restarts \ {q} : restart'[p].pc = restart[p].pc
          /\ q \in Restarts => restart'[q].pc \in {"failed", "answered"}
      BY <2>1, <2>2, ResourceAssumption DEF RestartInv
    <2> QED
      BY <1>2, <2>1, <2>2, <2>3, <2>4, Settled
  <1> QED
    BY <1>3, <1>4, <1>5 DEF AnswerNext, ResourceInv

(* Every step of this module is one of MediaSessions or leaves it alone. *)
LEMMA StepImplements == ResourcesNext => [Next]_vars
  BY DEF ResourcesNext, Next, RecordingNext, StartRecording, StartRecordingDone,
     StartRecordingFails, StopRecording, StopRecordingDone, StopRecordingFails, RestartNext,
     RestartIce, RestartOffered, RestartFails, AnswerNext, AcceptAnswer, AnswerAccepted,
     AnswerRefused

WholeInv == SessionInv /\ LinkInv /\ ResourceInv

LEMMA WholeInit == ResourcesInit => WholeInv
  <1> SUFFICES ASSUME ResourcesInit PROVE WholeInv
    OBVIOUS
  <1>1. SessionInv /\ LinkInv
    BY InitInv DEF ResourcesInit
  <1>2. ResourceInv
    BY MediaAssumption
    DEF ResourcesInit, Init, ResourceInv, RecordingInv, IndexInv, RestartInv, IsCached, Outstanding
  <1> QED
    BY <1>1, <1>2 DEF WholeInv

LEMMA WholeStep == WholeInv /\ [ResourcesNext]_allVars => WholeInv'
  <1> SUFFICES ASSUME WholeInv, [ResourcesNext]_allVars PROVE WholeInv'
    OBVIOUS
  <1>1. SessionInv' /\ LinkInv'
    BY StepInv, StepImplements DEF WholeInv, allVars
  <1>2. ASSUME UNCHANGED allVars PROVE ResourceInv'
    BY <1>2 DEF WholeInv, allVars, vars, sessionVars, endpointVars, resourceVars, recordingVars,
       restartVars, Live, ResourceInv, RecordingInv, IndexInv, RestartInv, IsCached, Outstanding
  <1>3. ASSUME Ended /\ UNCHANGED resourceVars PROVE ResourceInv'
    BY <1>2, <1>3 DEF Ended, allVars
  <1>4. ResourceInv'
    BY <1>2, <1>3, OtherKeeps, RemoveKeeps, RecordingKeeps, RestartKeeps, AnswerKeeps
    DEF WholeInv, ResourcesNext
  <1> QED
    BY <1>1, <1>4 DEF WholeInv

(* Recordings and ICE restarts are superposed on the sessions: what             *)
(* MediaSessions allows is not widened, so its theorems hold with them.         *)
THEOREM ResourcesImplementSessions == ResourcesSpec => Spec
  <1>1. ResourcesInit => Init
    BY DEF ResourcesInit
  <1>2. [ResourcesNext]_allVars => [Next]_vars
    BY StepImplements DEF allVars
  <1> QED
    BY <1>1, <1>2, PTL DEF ResourcesSpec, Spec

LEMMA WholeInductive == ResourcesSpec => []WholeInv
  BY WholeInit, WholeStep, PTL DEF ResourcesSpec

(* Whatever ends a session ends its recordings, its index entries and its       *)
(* cached ICE restarts, but for what rtpbridge was being asked for.             *)
THEOREM ResourcesFollow == ResourcesSpec => []ResourcesFollowTheirSession
  <1>1. WholeInv => ResourcesFollowTheirSession
    BY DEF WholeInv, ResourceInv, RecordingInv, IndexInv, RestartInv, Outstanding,
       ResourcesFollowTheirSession
  <1> QED
    BY <1>1, WholeInductive, PTL

(* rtpbridge is asked for a restart of an endpoint while none is outstanding,   *)
(* but for those that another's answer or failure took out of the cache.        *)
THEOREM OneRestartAtATime == ResourcesSpec => RestartsAreShared
  <1> DEFINE Shared ==
        \A e \in Endpoints, q \in Restarts :
            (restart[q].pc = "none" /\ restart'[q] = [pc |-> "pending", endpoint |-> e])
                => \A p \in Restarts \ forgotten :
                        restart[p].endpoint = e => restart[p].pc \notin {"pending", "offered"}
  <1>1. WholeInv /\ [ResourcesNext]_allVars => [Shared]_allVars
    <2> SUFFICES ASSUME WholeInv, ResourcesNext, NEW e \in Endpoints, NEW q \in Restarts,
                        restart[q].pc = "none",
                        restart'[q] = [pc |-> "pending", endpoint |-> e],
                        NEW p \in Restarts \ forgotten, restart[p].endpoint = e,
                        restart[p].pc \in {"pending", "offered"}
                 PROVE  FALSE
      OBVIOUS
    <2>1. PICK x \in Restarts, f \in Endpoints : RestartIce(x, f)
      <3>1. restart'[q] # restart[q]
        OBVIOUS
      <3>2. ASSUME NEW g \in Endpoints, NEW x \in Restarts \union {NoRestart}, AnswerNext(g, x)
            PROVE  FALSE
        <4>1. \/ restart' = restart
              \/ x \in Restarts /\ restart' = [restart EXCEPT ![x].pc = "answered"]
          BY <3>2 DEF AnswerNext, AcceptAnswer, AnswerAccepted, AnswerRefused
        <4> QED
          BY <3>1, <4>1 DEF WholeInv, ResourceInv, RestartInv
      <3>3. ASSUME NEW r \in Recordings, RecordingNext(r) PROVE restart' = restart
        BY <3>3 DEF restartVars, RecordingNext, StartRecording, StartRecordingDone,
           StartRecordingFails, StopRecording, StopRecordingDone, StopRecordingFails
      <3>4. ASSUME NEW S, NEW E, Forget(S, E) PROVE restart' = restart
        BY <3>4 DEF Forget
      <3>5. PICK x \in Restarts : RestartNext(x)
        BY <3>1, <3>2, <3>3, <3>4 DEF ResourcesNext, resourceVars, restartVars
      <3>6. ~RestartOffered(x) /\ ~RestartFails(x)
        BY DEF RestartOffered, RestartFails, WholeInv, ResourceInv, RestartInv
      <3> QED
        BY <3>5, <3>6 DEF RestartNext
    <2>2. /\ restart[x].pc = "none" /\ endpointToSession[f] \in Live
          /\ pendingIceRestarts[f] = NoRestart
          /\ restart' = [restart EXCEPT ![x] = [pc |-> "pending", endpoint |-> f]]
      BY <2>1 DEF RestartIce, IsCached
    <2>3. x = q /\ f = e
      BY <2>2 DEF WholeInv, ResourceInv, RestartInv
    <2> QED
      BY <2>2, <2>3, ResourceAssumption DEF WholeInv, ResourceInv, RestartInv, Outstanding
  <1> QED
    BY <1>1, WholeInductive, PTL DEF ResourcesSpec, RestartsAreShared
(* What RecordingInv and RestartInv do not say. *)
HistoryTypes ==
    /\ answering \subseteq Endpoints \X (Restarts \union {NoRestart})
    /\ startedLate \subseteq Recordings
    /\ indexedLate \subseteq Endpoints
    /\ forgotten \subseteq Restarts

LEMMA HistoryStep ==
  ASSUME WholeInv, HistoryTypes, [ResourcesNext]_allVars
  PROVE  HistoryTypes'
  <1>1. LinkInv' /\ RestartInv
    BY WholeStep DEF WholeInv, ResourceInv
  <1>2. used' \subseteq Endpoints
    BY <1>1 DEF LinkInv, EndpointInv
  <1>3. ASSUME NEW S, NEW E, Forget(S, E) PROVE HistoryTypes'
    BY <1>2, <1>3 DEF Forget, HistoryTypes
  <1>4. ASSUME NEW r \in Recordings, RecordingNext(r) PROVE HistoryTypes'
    BY <1>4 DEF RecordingNext, StartRecording, StartRecordingDone, StartRecordingFails,
       StopRecording, StopRecordingDone, StopRecordingFails, restartVars, HistoryTypes
  <1>5. ASSUME NEW q \in Restarts, RestartNext(q) PROVE HistoryTypes'
    <2>1. \A e \in Endpoints : Others(e, q) \subseteq Restarts
      BY <1>1 DEF Others, RestartInv
    <2>2. restart[q].pc = "pending" => restart[q].endpoint \in Endpoints
      BY <1>1 DEF RestartInv, WholeInv, LinkInv, EndpointInv
    <2> QED
      BY <1>5, <2>1, <2>2 DEF RestartNext, RestartIce, RestartOffered, RestartFails, recordingVars,
         HistoryTypes
  <1>6. ASSUME NEW e \in Endpoints, NEW q \in Restarts \union {NoRestart}, AnswerNext(e, q)
        PROVE  HistoryTypes'
    <2>1. Others(e, q) \subseteq Restarts
      BY <1>1 DEF Others, RestartInv
    <2> QED
      BY <1>6, <2>1 DEF AnswerNext, AcceptAnswer, AnswerAccepted, AnswerRefused, recordingVars,
         HistoryTypes
  <1>7. CASE UNCHANGED resourceVars
    BY <1>7 DEF resourceVars, recordingVars, restartVars, HistoryTypes
  <1> QED
    BY <1>3, <1>4, <1>5, <1>6, <1>7 DEF ResourcesNext, allVars

(* The recordings, ICE restarts and answers of a session have their types. *)
THEOREM ResourceTypes == ResourcesSpec => []ResourcesTypeOK
  <1>1. ResourcesInit => HistoryTypes
    BY DEF ResourcesInit, HistoryTypes
  <1>2. WholeInv /\ HistoryTypes => ResourcesTypeOK
    BY DEF WholeInv, ResourceInv, RecordingInv, RestartInv, HistoryTypes, ResourcesTypeOK
  <1> QED
    BY <1>1, <1>2, HistoryStep, WholeInductive, PTL DEF ResourcesSpec
-----------------------------------------------------------------------------
(* SessionPins. *)

HasReference(s) == session[s] \in {"allocating", "aborting", "live"}

Holders(id) == {s \in Sessions : HasReference(s) /\ callOf[s] = id}

(* SessionsHoldOneReference in terms of MediaSessions. *)
CountInv ==
    \A id \in CallIds :
        /\ refs[id] = Cardinality(Holders(id))
        /\ \A s \in Holders(id) : callToBackend[id] = backend[s]

PinsInv == PinsTypeOK /\ CountInv

LEMMA DropsAreSteps == DropsSessions => [Next]_vars
<1>1. ASSUME NEW s \in Sessions, DestroyDone(s) \/ SocketClosed(s) PROVE Next
  BY <1>1 DEF Next, OtherNext, SessionNext
<1>2. ASSUME NEW c \in Conns, Disconnect(c) PROVE Next
  BY <1>2 DEF Next, OtherNext
<1>3. QED
  BY <1>1, <1>2 DEF DropsSessions

LEMMA OthersAreSteps == TouchesNoPin => [Next]_vars
<1>1. ASSUME NEW c \in Conns, Connect(c) PROVE Next
  BY <1>1 DEF Next, OtherNext
<1>2. ASSUME NEW s \in Sessions,
             RegisterSession(s) \/ AbortSession(s) \/ DestroySession(s) \/ TeardownDone(s)
      PROVE  Next
  BY <1>2 DEF Next, OtherNext, SessionNext
<1>3. ASSUME NEW k \in Calls, CallNext(k) \/ RemoveEndpointDone(k) PROVE Next
  BY <1>3 DEF Next, OtherNext
<1>4. ASSUME Shutdown \/ Ended PROVE Next
  BY <1>4 DEF Next, OtherNext
<1>5. QED
  BY <1>1, <1>2, <1>3, <1>4 DEF TouchesNoPin

(* A step of the composition is one of the service, or of the pins alone. *)
LEMMA PinsStepImplements == [PinsNext]_sessionPinVars => [Next]_vars
<1> SUFFICES ASSUME [PinsNext]_sessionPinVars PROVE [Next]_vars
  OBVIOUS
<1>1. ASSUME NEW s \in Sessions, StartsDiscovery(s) PROVE Next
  BY <1>1 DEF StartsDiscovery, Next, OtherNext, SessionNext
<1>2. ASSUME NEW s \in Sessions, PicksBackend(s) PROVE UNCHANGED vars
  BY <1>2 DEF PicksBackend
<1>3. ASSUME NEW s \in Sessions, TakesReference(s) \/ GetsNoClient(s) PROVE Next
  BY <1>3 DEF TakesReference, GetsNoClient, Next, OtherNext, SessionNext
<1>4. ASSUME NEW s \in Sessions, GivesBack(s) PROVE Next
  BY <1>4 DEF GivesBack, Next, OtherNext, SessionNext
<1>5. CASE DropsSessions
  BY <1>5, DropsAreSteps
<1>6. CASE TouchesNoPin
  BY <1>6, OthersAreSteps
<1>7. CASE ManagerStep
  BY <1>7 DEF ManagerStep
<1>8. CASE UNCHANGED sessionPinVars
  BY <1>8 DEF sessionPinVars
<1>9. QED
  BY <1>1, <1>2, <1>3, <1>4, <1>5, <1>6, <1>7, <1>8 DEF PinsNext

(* With pins the service still does what MediaSessions says: choosing a backend *)
(* and counting references neither adds a step of a session nor changes one.    *)
THEOREM PinsImplementSessions == PinsSpec => Spec
<1>1. PinsInit => Init
  BY DEF PinsInit
<1>2. QED
  BY <1>1, PinsStepImplements, PTL DEF PinsSpec, Spec

LEMMA HoldersAreFinite ==
    ASSUME NEW id
    PROVE  /\ IsFiniteSet(Holders(id)) /\ IsFiniteSet(Holders(id)')
           /\ Cardinality(Holders(id)) \in Nat
<1>1. Holders(id) \subseteq Sessions /\ Holders(id)' \subseteq Sessions
  BY DEF Holders
<1>2. IsFiniteSet(Holders(id)) /\ IsFiniteSet(Holders(id)')
  BY <1>1, PinsAssumption, FS_Subset
<1>3. QED
  BY <1>2, FS_CardinalityType

(* A call without a holder has no references. *)
LEMMA NoHolderNoReference ==
    ASSUME CountInv, NEW id \in CallIds
    PROVE  /\ refs[id] \in Nat
           /\ refs[id] = 0 <=> Holders(id) = {}
  BY HoldersAreFinite, FS_EmptySet DEF CountInv

(* The pin is there while a session holds a reference. *)
LEMMA HoldersArePinned ==
    ASSUME PinsInv, NEW id \in CallIds
    PROVE  /\ \A s \in Holders(id) : s \in Sessions /\ callToBackend[id] \in Backends
           /\ callToBackend[id] = NoBackend => refs[id] = 0
<1>1. ASSUME NEW s \in Holders(id) PROVE s \in Sessions /\ callToBackend[id] \in Backends
  <2>1. s \in Sessions /\ HasReference(s) /\ callToBackend[id] = backend[s]
    BY <1>1 DEF Holders, PinsInv, CountInv
  <2>2. QED
    BY <2>1 DEF PinsInv, PinsTypeOK, HasReference
<1>2. QED
  BY <1>1, NoHolderNoReference, PinsAssumption DEF PinsInv

(* What a session is to BackendPinning. *)
LEMMA PinStages ==
    ASSUME SessionInv, NEW s \in Sessions
    PROVE  /\ PinStage(s) = "using" <=> HasReference(s)
           /\ PinStage(s) = "picked" => session[s] = "connecting" /\ backend[s] # NoBackend
           /\ PinStage(s) \in {"new", "discovering"} => session[s] \in {"none", "connecting"}
  BY DEF SessionInv, PinStage, HasReference

LEMMA UsersAreHolders ==
    ASSUME SessionInv, NEW id
    PROVE  Pinning!UsersOf(id) = Holders(id)
  BY PinStages DEF Pinning!UsersOf, Holders
(* Nothing is counted otherwise when neither holders nor pins change. *)
LEMMA SameHolders ==
    ASSUME CountInv, UNCHANGED pinVars, \A s \in Sessions : HasReference(s)' <=> HasReference(s)
    PROVE  CountInv'
<1>1. \A id : Holders(id)' = Holders(id)
  BY DEF Holders, pinVars
<1>2. QED
  BY <1>1 DEF CountInv, pinVars

(* pickBackend: a pin that has holders stays, one without is free to be set. *)
LEMMA PickKeeps ==
    ASSUME SessionInv, PinsInv, NEW s \in Sessions, PicksBackend(s)
    PROVE  PinsInv'
<1> USE DEF PinsInv
<1>1. session' = session /\ destroys' = destroys /\ Pinning!PickBackend(s)
  BY DEF PicksBackend, vars, sessionVars
<1>2. PICK id \in CallIds : id = callOf[s]
  BY DEF PinsTypeOK
<1>3. PICK b \in Pinning!Eligible(id) :
        /\ backend' = [backend EXCEPT ![s] = b]
        /\ callToBackend' = [callToBackend EXCEPT ![id] = b]
        /\ refs' = [refs EXCEPT ![id] = IF callToBackend[id] = b THEN @ ELSE 0]
        /\ callOf' = callOf /\ isCallActive' = isCallActive
  BY <1>1, <1>2 DEF Pinning!PickBackend
<1>4. b \in Backends /\ callToBackend[id] \in {b, NoBackend}
  BY <1>3 DEF Pinning!Eligible, Pinning!IsPinned, PinsTypeOK
<1>5. ~HasReference(s)
  BY <1>1, PinStages DEF Pinning!PickBackend, Pinning!Picking, HasReference
<1>6. refs' = refs
  BY <1>3, <1>4, HoldersArePinned DEF PinsTypeOK
<1>7. PinsTypeOK'
  BY <1>1, <1>3, <1>4, <1>6, PinsAssumption DEF PinsTypeOK
<1>8. \A i : Holders(i)' = Holders(i)
  BY <1>1, <1>3 DEF Holders, HasReference
<1>9. ASSUME NEW i \in CallIds, NEW t \in Holders(i) PROVE callToBackend'[i] = backend'[t]
  <2>1. t # s /\ t \in Sessions /\ callToBackend[i] = backend[t] /\ callToBackend[i] \in Backends
    BY <1>5, <1>9, HoldersArePinned DEF CountInv, Holders
  <2>2. QED
    BY <2>1, <1>3, <1>4, PinsAssumption DEF PinsTypeOK
<1>10. QED
  BY <1>6, <1>7, <1>8, <1>9 DEF CountInv

(* registerCall: one holder more, on the backend of the others. *)
LEMMA TakeKeeps ==
    ASSUME SessionInv, PinsInv, NEW s \in Sessions, TakesReference(s)
    PROVE  PinsInv'
<1> USE DEF PinsInv
<1>1. /\ session[s] = "connecting" /\ session'[s] = "allocating"
      /\ session' = [session EXCEPT ![s] = "allocating"]
      /\ destroys' = destroys /\ backend' = backend /\ Pinning!RegisterCall(s)
  BY DEF TakesReference, CreateClient, SessionInv
<1>2. PICK id \in CallIds : id = callOf[s]
  BY DEF PinsTypeOK
<1>3. /\ backend[s] \in Backends
      /\ callToBackend[id] \in {backend[s], NoBackend}
      /\ refs' = [refs EXCEPT ![id] = IF callToBackend[id] # NoBackend THEN @ + 1 ELSE 1]
      /\ callToBackend' = [callToBackend EXCEPT ![id] = backend[s]]
      /\ callOf' = callOf /\ isCallActive' = isCallActive
  <2>1. PinStage(s) = "picked" /\ Pinning!MayRegister(s)
    BY <1>1 DEF Pinning!RegisterCall
  <2>2. QED
    BY <2>1, <1>1, <1>2, PinStages
    DEF Pinning!RegisterCall, Pinning!MayRegister, Pinning!IsPinned, PinsTypeOK
<1>4. refs[id] \in Nat /\ refs' = [refs EXCEPT ![id] = refs[id] + 1]
  <2>1. refs[id] \in Nat /\ (callToBackend[id] = NoBackend => refs[id] = 0)
    BY HoldersArePinned DEF PinsTypeOK
  <2>2. (IF callToBackend[id] # NoBackend THEN refs[id] + 1 ELSE 1) = refs[id] + 1
    BY <2>1
  <2>3. QED
    BY <1>3, <2>1, <2>2 DEF PinsTypeOK
<1>5. \A t \in Sessions : HasReference(t)' <=> HasReference(t) \/ t = s
  BY <1>1 DEF HasReference, SessionInv
<1>6. PinsTypeOK'
  <2>1. refs' \in [CallIds -> Nat] /\ callToBackend' \in [CallIds -> Backends \union {NoBackend}]
    BY <1>3, <1>4 DEF PinsTypeOK
  <2>2. \A t \in Sessions : destroys'[t] > 0 => session'[t] \in {"live", "gone"}
    BY <1>1 DEF PinsTypeOK, SessionInv
  <2>3. \A t \in Sessions : HasReference(t)' => backend'[t] # NoBackend
    BY <1>1, <1>3, <1>5, PinsAssumption DEF PinsTypeOK, HasReference
  <2>4. QED
    BY <1>1, <1>3, <2>1, <2>2, <2>3 DEF PinsTypeOK, HasReference
<1>7. s \notin Holders(id) /\ Holders(id)' = Holders(id) \union {s}
  BY <1>1, <1>2, <1>3, <1>5 DEF Holders, HasReference
<1>8. \A i \in CallIds \ {id} : Holders(i)' = Holders(i)
  BY <1>2, <1>3, <1>5 DEF Holders
<1>9. Cardinality(Holders(id)') = Cardinality(Holders(id)) + 1
  BY <1>7, HoldersAreFinite, FS_AddElement
<1>10. \A i \in CallIds : refs'[i] = Cardinality(Holders(i)')
  BY <1>4, <1>8, <1>9 DEF PinsTypeOK, CountInv
<1>11. ASSUME NEW i \in CallIds, NEW t \in Holders(i)' PROVE callToBackend'[i] = backend'[t]
  <2>1. CASE t = s
    <3>1. i = id
      BY <1>2, <1>3, <1>11, <2>1 DEF Holders
    <3>2. QED
      BY <1>1, <1>3, <2>1, <3>1 DEF PinsTypeOK
  <2>2. CASE t # s
    <3>1. t \in Holders(i)
      BY <1>7, <1>8, <1>11, <2>2
    <3>2. callToBackend[i] = backend[t] /\ callToBackend[i] \in Backends
      BY <3>1, HoldersArePinned DEF CountInv
    <3>3. QED
      BY <1>1, <1>3, <3>2, PinsAssumption DEF PinsTypeOK
  <2>3. QED
    BY <2>1, <2>2
<1>12. QED
  BY <1>6, <1>10, <1>11 DEF CountInv

(* unregisterCall after a failed creation: one holder less. *)
LEMMA GiveKeeps ==
    ASSUME SessionInv, PinsInv, NEW s \in Sessions, GivesBack(s)
    PROVE  PinsInv'
<1> USE DEF PinsInv
<1>1. /\ session[s] = "aborting" /\ session' = [session EXCEPT ![s] = "gone"]
      /\ destroys' = destroys /\ backend' = backend /\ Pinning!UnregisterCall(s)
  BY DEF GivesBack, AbortDone
<1>2. PICK id \in CallIds : id = callOf[s]
  BY DEF PinsTypeOK
<1>3. s \in Holders(id)
  BY <1>1, <1>2 DEF Holders, HasReference
<1>4. callToBackend[id] = backend[s] /\ refs[id] \in Nat /\ refs[id] # 0
  BY <1>3, NoHolderNoReference DEF CountInv
<1>5. /\ refs' = [refs EXCEPT ![id] = refs[id] - 1]
      /\ \/ callToBackend' = callToBackend
         \/ refs[id] = 1 /\ callToBackend' = [callToBackend EXCEPT ![id] = NoBackend]
      /\ callOf' = callOf /\ isCallActive' = isCallActive
  <2>1. /\ refs' = [refs EXCEPT ![id] = IF @ > 1 THEN @ - 1 ELSE 0]
        /\ callToBackend' = [callToBackend EXCEPT ![id] =
                                IF Pinning!PinGoes(id) THEN NoBackend ELSE @]
        /\ callOf' = callOf /\ isCallActive' = isCallActive
    BY <1>1, <1>2, <1>4 DEF Pinning!UnregisterCall
  <2>2. (IF refs[id] > 1 THEN refs[id] - 1 ELSE 0) = refs[id] - 1
    BY <1>4
  <2>3. Pinning!PinGoes(id) => refs[id] = 1
    BY <1>4 DEF Pinning!PinGoes
  <2>4. QED
    BY <2>1, <2>2, <2>3 DEF PinsTypeOK
<1>6. \A t \in Sessions : HasReference(t)' <=> HasReference(t) /\ t # s
  BY <1>1 DEF HasReference, SessionInv
<1>7. PinsTypeOK'
  <2>1. refs' \in [CallIds -> Nat] /\ callToBackend' \in [CallIds -> Backends \union {NoBackend}]
    BY <1>4, <1>5 DEF PinsTypeOK
  <2>2. \A t \in Sessions : destroys'[t] > 0 => session'[t] \in {"live", "gone"}
    BY <1>1 DEF PinsTypeOK, SessionInv
  <2>3. QED
    BY <1>1, <1>5, <1>6, <2>1, <2>2 DEF PinsTypeOK, HasReference
<1>8. Holders(id)' = Holders(id) \ {s} /\ \A i \in CallIds \ {id} : Holders(i)' = Holders(i)
  BY <1>2, <1>5, <1>6 DEF Holders
<1>9. Cardinality(Holders(id)') = Cardinality(Holders(id)) - 1
  BY <1>3, <1>8, HoldersAreFinite, FS_RemoveElement
<1>10. \A i \in CallIds : refs'[i] = Cardinality(Holders(i)')
  BY <1>5, <1>8, <1>9 DEF PinsTypeOK, CountInv
<1>11. ASSUME NEW i \in CallIds, NEW t \in Holders(i)' PROVE callToBackend'[i] = backend'[t]
  <2>1. t \in Holders(i)
    BY <1>8, <1>11
  <2>2. refs[id] = 1 => i # id
    BY <1>4, <1>5, <1>10, <1>11, HoldersAreFinite, FS_EmptySet DEF PinsTypeOK
  <2>3. QED
    BY <1>1, <1>5, <2>1, <2>2 DEF CountInv, PinsTypeOK
<1>12. QED
  BY <1>7, <1>10, <1>11 DEF CountInv

(* Part of a finite set is taken out of it. *)
LEMMA PartOfFinite ==
    ASSUME NEW S, IsFiniteSet(S), NEW T \in SUBSET S
    PROVE  /\ Cardinality(S) \in Nat /\ Cardinality(T) \in Nat /\ Cardinality(S \ T) \in Nat
           /\ Cardinality(S \ T) = Cardinality(S) - Cardinality(T)
<1>1. /\ IsFiniteSet(T) /\ IsFiniteSet(S \ T) /\ S \cap T = T
      /\ Cardinality(S \ T) = Cardinality(S) - Cardinality(S \cap T)
  BY FS_Subset, FS_Difference
<1>2. QED
  BY <1>1, FS_CardinalityType
(* The sessions dropped in a step were in the map, and nothing else changes hands. *)
LEMMA DropsOnlyLive ==
    ASSUME SessionInv, PinsTypeOK, DropsSessions
    PROVE  \A s \in Sessions :
              /\ s \in Dropped => HasReference(s)
              /\ HasReference(s)' <=> HasReference(s) /\ s \notin Dropped
              /\ destroys'[s] > 0 => session'[s] \in {"live", "gone"}
<1>1. ASSUME NEW t \in Sessions, DestroyDone(t)
      PROVE  \A s \in Sessions :
                /\ HasReference(s)' <=> HasReference(s) /\ s \notin Dropped
                /\ destroys'[s] > 0 => session'[s] \in {"live", "gone"}
  <2>1. /\ destroys[t] > 0 /\ session[t] \in {"live", "gone"}
        /\ destroys' = [destroys EXCEPT ![t] = @ - 1] /\ session' = Gone({t})
    BY <1>1 DEF DestroyDone, PinsTypeOK
  <2>2. \A s \in Sessions : session'[s] = IF s = t THEN "gone" ELSE session[s]
    BY <2>1 DEF Gone
  <2>3. \A s \in Sessions : s \in Dropped <=> s = t /\ session[t] = "live"
    BY <2>2 DEF Dropped, Live
  <2>4. \A s \in Sessions : HasReference(s)' <=> HasReference(s) /\ s \notin Dropped
    BY <2>1, <2>2, <2>3 DEF HasReference
  <2>5. \A s \in Sessions : destroys'[s] > 0 => session'[s] \in {"live", "gone"}
    BY <2>1, <2>2 DEF PinsTypeOK, SessionInv
  <2>6. QED
    BY <2>4, <2>5
<1>2. ASSUME NEW S \in SUBSET Live, session' = Gone(S), destroys' = destroys
      PROVE  \A s \in Sessions :
                /\ HasReference(s)' <=> HasReference(s) /\ s \notin Dropped
                /\ destroys'[s] > 0 => session'[s] \in {"live", "gone"}
  <2>1. \A s \in Sessions : session'[s] = IF s \in S THEN "gone" ELSE session[s]
    BY <1>2 DEF Gone
  <2>2. \A s \in Sessions : s \in Dropped <=> s \in S
    BY <1>2, <2>1 DEF Dropped, Live
  <2>3. QED
    BY <1>2, <2>1, <2>2 DEF HasReference, PinsTypeOK, Live
<1>3. ASSUME NEW t \in Sessions, SocketClosed(t)
      PROVE  \E S \in SUBSET Live : session' = Gone(S) /\ destroys' = destroys
  BY <1>3 DEF SocketClosed, Live
<1>4. ASSUME NEW c \in Conns, Disconnect(c)
      PROVE  \E S \in SUBSET Live : session' = Gone(S) /\ destroys' = destroys
  BY <1>4 DEF Disconnect, OwnedBy
<1>5. \A s \in Dropped : HasReference(s)
  BY DEF Dropped, Live, HasReference
<1>6. QED
  BY <1>1, <1>2, <1>3, <1>4, <1>5 DEF DropsSessions

(* dropSession: the references of the dropped sessions go, and of no others. *)
LEMMA DropKeeps ==
    ASSUME SessionInv, PinsInv, DropsSessions
    PROVE  PinsInv'
<1> USE DEF PinsInv
<1> DEFINE given(id) == GivenBack(Dropped, id)
           n(id) == Cardinality(given(id))
<1>1. /\ callOf' = callOf /\ backend' = backend /\ isCallActive' = isCallActive
      /\ refs' = [id \in CallIds |-> IF n(id) < refs[id] THEN refs[id] - n(id) ELSE 0]
      /\ callToBackend' = [id \in CallIds |->
            IF n(id) > 0 /\ n(id) >= refs[id] /\ ~isCallActive[id]
            THEN NoBackend ELSE callToBackend[id]]
  BY DEF DropsSessions, Unregister
<1>2. \A id \in CallIds : given(id) = Holders(id) \cap Dropped
  <2>1. Dropped \subseteq Sessions
    BY DEF Dropped, Live
  <2>2. QED
    BY <2>1, DropsOnlyLive DEF GivenBack, Holders, CountInv
<1>3. \A id : Holders(id)' = Holders(id) \ Dropped
  BY <1>1, DropsOnlyLive DEF Holders
<1>4. ASSUME NEW id \in CallIds
      PROVE  /\ n(id) \in Nat /\ Cardinality(Holders(id)') \in Nat
             /\ refs[id] \in Nat /\ refs[id] = Cardinality(Holders(id))
             /\ Cardinality(Holders(id)') = refs[id] - n(id)
             /\ Cardinality(Holders(id)') = 0 => Holders(id)' = {}
  <2>1. given(id) \in SUBSET Holders(id) /\ Holders(id)' = Holders(id) \ given(id)
    BY <1>2, <1>3
  <2>2. IsFiniteSet(Holders(id)) /\ IsFiniteSet(Holders(id)')
    BY HoldersAreFinite
  <2>3. /\ n(id) \in Nat /\ Cardinality(Holders(id) \ given(id)) \in Nat
        /\ Cardinality(Holders(id) \ given(id)) = Cardinality(Holders(id)) - n(id)
    BY <2>1, <2>2, PartOfFinite
  <2>4. refs[id] \in Nat /\ refs[id] = Cardinality(Holders(id))
    BY DEF PinsTypeOK, CountInv
  <2>5. QED
    BY <2>1, <2>2, <2>3, <2>4, FS_EmptySet
<1> HIDE DEF n, given
<1>5. \A id \in CallIds : refs'[id] = refs[id] - n(id)
  BY <1>1, <1>4
<1>6. \A id \in CallIds : refs'[id] = Cardinality(Holders(id)') /\ refs'[id] \in Nat
  BY <1>4, <1>5
<1>7. ASSUME NEW id \in CallIds, NEW s \in Holders(id)' PROVE callToBackend'[id] = backend'[s]
  <2>1. s \in Holders(id) /\ callToBackend[id] = backend[s]
    BY <1>3, <1>7 DEF CountInv
  <2>2. refs'[id] # 0
    BY <1>4, <1>6, <1>7
  <2>3. ~(n(id) >= refs[id])
    BY <1>4, <1>5, <1>6, <2>2
  <2>4. QED
    BY <1>1, <2>1, <2>3
<1>8. PinsTypeOK'
  <2>1. /\ refs' \in [CallIds -> Nat]
        /\ callToBackend' \in [CallIds -> Backends \union {NoBackend}]
    BY <1>1, <1>6 DEF PinsTypeOK
  <2>2. QED
    BY <1>1, <2>1, DropsOnlyLive DEF PinsTypeOK, HasReference
<1>9. QED
  BY <1>6, <1>7, <1>8 DEF CountInv

(* The steps of a session that leave references and pins alone. *)
LEMMA OthersKeep ==
    ASSUME SessionInv, PinsInv, TouchesNoPin
    PROVE  PinsInv'
<1> USE DEF PinsInv
<1>1. UNCHANGED pinVars
  BY DEF TouchesNoPin
<1>2. ASSUME session' = session, destroys' = destroys PROVE PinsInv'
  <2>1. PinsTypeOK'
    BY <1>1, <1>2 DEF PinsTypeOK, pinVars
  <2>2. QED
    BY <1>1, <1>2, <2>1, SameHolders DEF HasReference
<1>3. ASSUME NEW s \in Sessions, RegisterSession(s) \/ AbortSession(s) PROVE PinsInv'
  <2>1. /\ session[s] = "allocating" /\ destroys' = destroys
        /\ \E now \in {"live", "aborting"} : session' = [session EXCEPT ![s] = now]
    BY <1>3 DEF RegisterSession, AbortSession
  <2>2. \A t \in Sessions : /\ HasReference(t)' <=> HasReference(t)
                            /\ destroys'[t] > 0 => session'[t] \in {"live", "gone"}
    BY <2>1 DEF HasReference, SessionInv, PinsTypeOK
  <2>3. PinsTypeOK'
    BY <1>1, <2>2 DEF PinsTypeOK, pinVars, HasReference
  <2>4. QED
    BY <1>1, <2>2, <2>3, SameHolders
<1>4. ASSUME NEW s \in Sessions, DestroySession(s) PROVE PinsInv'
  <2>1. session[s] = "live" /\ session' = session /\ destroys' = [destroys EXCEPT ![s] = @ + 1]
    BY <1>4 DEF DestroySession, Live
  <2>2. \A t \in Sessions : destroys'[t] > 0 => session'[t] \in {"live", "gone"}
    BY <2>1 DEF SessionInv, PinsTypeOK
  <2>3. PinsTypeOK'
    BY <1>1, <2>1, <2>2 DEF PinsTypeOK, pinVars
  <2>4. QED
    BY <1>1, <2>1, <2>3, SameHolders DEF HasReference
<1>5. ASSUME Shutdown PROVE PinsInv'
  <2>1. session' = session
    BY <1>5 DEF Shutdown
  <2>2. \A t \in Sessions : destroys'[t] > 0 => session'[t] \in {"live", "gone"}
    BY <1>5, <2>1 DEF Shutdown, ShutdownSessions, Live, SessionInv, PinsTypeOK
  <2>3. PinsTypeOK'
    BY <1>1, <2>1, <2>2 DEF PinsTypeOK, pinVars
  <2>4. QED
    BY <1>1, <2>1, <2>3, SameHolders DEF HasReference
<1>6. ASSUME NEW s \in Sessions, TeardownDone(s) PROVE PinsInv'
  BY <1>2, <1>6 DEF TeardownDone
<1>7. ASSUME NEW c \in Conns, Connect(c) PROVE PinsInv'
  BY <1>2, <1>7 DEF Connect, sessionVars
<1>8. ASSUME NEW k \in Calls, CallNext(k) PROVE PinsInv'
  <2>1. UNCHANGED sessionVars
    BY <1>8 DEF CallNext, CreateEndpoint, CreateEndpointDone, RemoveEndpoint, Bridge, BridgeDone,
       BridgeTooLate, EndpointCallFails, RemoveEndpointFails
  <2>2. QED
    BY <1>2, <2>1 DEF sessionVars
<1>9. ASSUME NEW k \in Calls, RemoveEndpointDone(k) PROVE PinsInv'
  BY <1>2, <1>9 DEF RemoveEndpointDone, sessionVars
<1>10. ASSUME Ended PROVE PinsInv'
  BY <1>2, <1>10 DEF Ended, vars, sessionVars
<1>11. QED
  BY <1>3, <1>4, <1>5, <1>6, <1>7, <1>8, <1>9, <1>10 DEF TouchesNoPin
(* The first steps of a creation, and one that fails before there is a client. *)
LEMMA BeginKeeps ==
    ASSUME SessionInv, PinsInv, NEW s \in Sessions, StartsDiscovery(s) \/ GetsNoClient(s)
    PROVE  PinsInv'
<1> USE DEF PinsInv
<1>1. /\ session[s] \in {"none", "connecting"} /\ destroys' = destroys
      /\ \E now \in {"connecting", "gone"} : session' = [session EXCEPT ![s] = now]
  <2>1. CASE StartsDiscovery(s)
    BY <2>1 DEF StartsDiscovery, CreateSession
  <2>2. CASE GetsNoClient(s)
    <3>1. CreateClient(s) /\ session'[s] = "gone"
      BY <2>2 DEF GetsNoClient
    <3>2. QED
      BY <3>1 DEF CreateClient, SessionInv
  <2>3. QED
    BY <2>1, <2>2
<1>2. UNCHANGED pinVars
  BY DEF StartsDiscovery, GetsNoClient, Pinning!CreateClient, Pinning!PickFails,
     Pinning!RegisterFails, pinVars
<1>3. \A t \in Sessions : /\ HasReference(t)' <=> HasReference(t)
                          /\ destroys'[t] > 0 => session'[t] \in {"live", "gone"}
  BY <1>1 DEF HasReference, SessionInv, PinsTypeOK
<1>4. PinsTypeOK'
  BY <1>2, <1>3 DEF PinsTypeOK, pinVars, HasReference
<1>5. QED
  BY <1>2, <1>3, <1>4, SameHolders

(* The sweep takes a pin that nobody holds. *)
LEMMA ManagerKeeps ==
    ASSUME SessionInv, PinsInv, ManagerStep
    PROVE  PinsInv'
<1> USE DEF PinsInv
<1>1. session' = session /\ destroys' = destroys /\ backend' = backend
  BY DEF ManagerStep, vars, sessionVars
<1>2. ASSUME NEW id \in CallIds, Pinning!SweepStaleEntry(id) PROVE PinsInv'
  <2>1. /\ refs[id] = 0 /\ callOf' = callOf /\ isCallActive' = isCallActive
        /\ refs' = [refs EXCEPT ![id] = 0]
        /\ callToBackend' = [callToBackend EXCEPT ![id] = NoBackend]
    BY <1>2 DEF Pinning!SweepStaleEntry, Pinning!Sweepable
  <2>2. Holders(id) = {} /\ refs' = refs
    BY <2>1, NoHolderNoReference DEF PinsTypeOK
  <2>3. \A i : Holders(i)' = Holders(i)
    BY <1>1, <2>1 DEF Holders, HasReference
  <2>4. PinsTypeOK'
    BY <1>1, <2>1, <2>2 DEF PinsTypeOK
  <2>5. \A i \in CallIds : \A t \in Holders(i) : callToBackend'[i] = backend[t]
    BY <2>1, <2>2 DEF PinsTypeOK, CountInv
  <2>6. QED
    BY <1>1, <2>2, <2>3, <2>4, <2>5 DEF CountInv
<1>3. ASSUME NEW id \in CallIds, Pinning!CallStartsOrEnds(id) PROVE PinsInv'
  <2>1. /\ UNCHANGED <<callOf, callToBackend, refs>>
        /\ isCallActive' = [isCallActive EXCEPT ![id] = ~@]
    BY <1>3 DEF Pinning!CallStartsOrEnds
  <2>2. PinsTypeOK'
    BY <1>1, <2>1 DEF PinsTypeOK
  <2>3. \A i : Holders(i)' = Holders(i)
    BY <1>1, <2>1 DEF Holders, HasReference
  <2>4. QED
    BY <1>1, <2>1, <2>2, <2>3 DEF CountInv
<1>4. QED
  BY <1>2, <1>3 DEF ManagerStep

LEMMA PinsStep == SessionInv /\ PinsInv /\ [PinsNext]_sessionPinVars => PinsInv'
<1> SUFFICES ASSUME SessionInv, PinsInv, [PinsNext]_sessionPinVars PROVE PinsInv'
  OBVIOUS
<1>1. ASSUME NEW s \in Sessions,
             \/ StartsDiscovery(s) \/ PicksBackend(s)
             \/ TakesReference(s) \/ GetsNoClient(s) \/ GivesBack(s)
      PROVE  PinsInv'
  BY <1>1, BeginKeeps, PickKeeps, TakeKeeps, GiveKeeps
<1>2. CASE DropsSessions
  BY <1>2, DropKeeps
<1>3. CASE TouchesNoPin
  BY <1>3, OthersKeep
<1>4. CASE ManagerStep
  BY <1>4, ManagerKeeps
<1>5. CASE UNCHANGED sessionPinVars
  <2>1. session' = session /\ destroys' = destroys /\ UNCHANGED pinVars
    BY <1>5 DEF sessionPinVars, vars, sessionVars
  <2>2. PinsTypeOK'
    BY <2>1 DEF PinsInv, PinsTypeOK, pinVars
  <2>3. QED
    BY <2>1, <2>2, SameHolders DEF PinsInv, HasReference
<1>6. QED
  BY <1>1, <1>2, <1>3, <1>4, <1>5 DEF PinsNext

LEMMA PinsInductive == PinsSpec => [](SessionInv /\ PinsInv)
<1>1. PinsInit => PinsInv
  <2> SUFFICES ASSUME PinsInit PROVE PinsInv
    OBVIOUS
  <2>1. PinsTypeOK
    BY DEF PinsInit, Init, PinsTypeOK
  <2>2. \A id : Holders(id) = {}
    BY DEF PinsInit, Init, Holders, HasReference
  <2>3. CountInv
    BY <2>2, FS_EmptySet DEF PinsInit, CountInv
  <2>4. QED
    BY <2>1, <2>3 DEF PinsInv
<1>2. PinsSpec => []SessionInv
  BY PinsImplementSessions, Inductive, PTL
<1>3. QED
  BY <1>1, <1>2, PinsStep, PTL DEF PinsSpec

(* Calls, pins and references keep their types; a session has chosen its *)
(* backend before it gets a reference.                                   *)
THEOREM PinsTypes == PinsSpec => []PinsTypeOK
<1>1. PinsInv => PinsTypeOK
  BY DEF PinsInv
<1>2. QED
  BY <1>1, PinsInductive, PTL

(* A session holds one reference from the time it has a client until it has  *)
(* ended, whatever combination of deletes, lost sockets, owners that leave   *)
(* and failures ends it, and any number of them in a step.                   *)
THEOREM OneReferenceEach == PinsSpec => []SessionsHoldOneReference
<1>1. ASSUME SessionInv, PinsInv PROVE SessionsHoldOneReference
  <2>1. \A id \in CallIds : Pinning!UsersOf(id) = Holders(id)
    BY <1>1, UsersAreHolders
  (* The same operator of FiniteSets, taken through two instances. *)
  <2>2. \A S : Pinning!Cardinality(S) = Cardinality(S)
    BY DEF Pinning!Cardinality, Cardinality
  <2>3. QED
    BY <1>1, <2>1, <2>2 DEF PinsInv, CountInv, SessionsHoldOneReference, Pinning!RefsCountUsers
<1>2. QED
  BY <1>1, PinsInductive, PTL

(* The sessions of a call that can be bridged are on one backend. *)
THEOREM CallsCanBeBridged == PinsSpec => []SessionsOfACallCanBeBridged
<1>1. PinsInv => SessionsOfACallCanBeBridged
  <2> SUFFICES ASSUME PinsInv, NEW s \in Live, NEW t \in Live, callOf[s] = callOf[t]
               PROVE  backend[s] = backend[t]
    BY DEF SessionsOfACallCanBeBridged
  <2>1. PICK id \in CallIds : id = callOf[s]
    BY DEF PinsInv, PinsTypeOK, Live
  <2>2. {s, t} \subseteq Holders(id)
    BY <2>1 DEF Holders, HasReference, Live
  <2>3. QED
    BY <2>2 DEF PinsInv, CountInv
<1>2. QED
  BY <1>1, PinsInductive, PTL
=============================================================================
