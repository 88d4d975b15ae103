------------------------- MODULE EndpointCatalogProofs -------------------------
(***************************************************************************)
(* Proofs about BackendPinning and EndpointCatalog, for every set of       *)
(* sessions, calls and backends.  The pin counts the sessions that use it  *)
(* and names their backend; that all of them share it follows.  With a     *)
(* catalogue or without, picking is picking as BackendPinning has it, so   *)
(* what is proved of the pins holds here; and a pick follows the file.     *)
(***************************************************************************)
EXTENDS EndpointCatalog, FiniteSetTheorems, TLAPS

-----------------------------------------------------------------------------
(* The pins. *)

(* A session past PickBackend has a backend. *)
Chosen == \A k \in Users : stage[k] \in {"picked", "using"} => backend[k] \in Backends

PinInv == TypeOK /\ Chosen /\ RefsCountUsers

(* The users of a call are finitely many, in a state and in the next. *)
LEMMA UsersAreFinite ==
    ASSUME NEW id
    PROVE  /\ IsFiniteSet(UsersOf(id)) /\ IsFiniteSet(UsersOf(id)')
           /\ Cardinality(UsersOf(id)) \in Nat
<1>1. UsersOf(id) \subseteq Users /\ UsersOf(id)' \subseteq Users
  BY DEF UsersOf
<1>2. IsFiniteSet(UsersOf(id)) /\ IsFiniteSet(UsersOf(id)')
  BY <1>1, PinningAssumption, FS_Subset
<1>3. QED
  BY <1>2, FS_CardinalityType

(* A call without users has no references, one with a user has some. *)
LEMMA NoUsersNoRefs ==
    ASSUME TypeOK, RefsCountUsers, NEW id \in CallIds
    PROVE  refs[id] = 0 <=> UsersOf(id) = {}
  BY UsersAreFinite, FS_EmptySet DEF RefsCountUsers

(* The pin cannot be missing while a session uses it. *)
LEMMA UsersArePinned ==
    ASSUME PinInv, NEW id \in CallIds, ~IsPinned(id)
    PROVE  refs[id] = 0 /\ UsersOf(id) = {}
<1>1. ASSUME NEW k \in UsersOf(id) PROVE FALSE
  <2>1. callToBackend[id] = backend[k]
    BY <1>1 DEF PinInv, RefsCountUsers
  <2>2. backend[k] \in Backends
    BY <1>1 DEF PinInv, Chosen, UsersOf
  <2>3. QED
    BY <2>1, <2>2, PinningAssumption DEF IsPinned
<1>2. QED
  BY <1>1, NoUsersNoRefs DEF PinInv

(* The pin's count and its backend are those of the sessions, inductively. *)
LEMMA PinInvariant == Spec => []PinInv
<1>1. Init => PinInv
  <2> SUFFICES ASSUME Init PROVE PinInv
    OBVIOUS
  <2>1. TypeOK /\ Chosen
    BY DEF Init, TypeOK, Chosen
  <2>2. \A id \in CallIds : UsersOf(id) = {}
    BY DEF Init, UsersOf
  <2>3. RefsCountUsers
    BY <2>2, FS_EmptySet DEF Init, RefsCountUsers
  <2>4. QED
    BY <2>1, <2>3 DEF PinInv
<1>2. PinInv /\ [Next]_vars => PinInv'
  <2> SUFFICES ASSUME PinInv, [Next]_vars PROVE PinInv'
    OBVIOUS
  <2> USE DEF PinInv
  <2>1. ASSUME NEW k \in Users, CreateClient(k) PROVE PinInv'
    <3>1. TypeOK' /\ Chosen'
      BY <2>1 DEF CreateClient, TypeOK, Chosen, IsPinned
    <3>2. \A id : UsersOf(id)' = UsersOf(id)
      BY <2>1 DEF CreateClient, TypeOK, UsersOf
    <3>3. RefsCountUsers'
      BY <2>1, <3>2 DEF CreateClient, RefsCountUsers
    <3>4. QED
      BY <3>1, <3>3
  <2>2. ASSUME NEW k \in Users, PickBackend(k) PROVE PinInv'
    <3> PICK id \in CallIds : id = callOf[k]
      BY <2>2 DEF TypeOK
    <3>1. PICK b \in Eligible(id) :
            /\ backend' = [backend EXCEPT ![k] = b]
            /\ callToBackend' = [callToBackend EXCEPT ![id] = b]
            /\ refs' = [refs EXCEPT ![id] = IF callToBackend[id] = b THEN @ ELSE 0]
      BY <2>2 DEF PickBackend
    <3>2. b \in Backends /\ stage[k] \in {"new", "discovering"}
      BY <2>2, <3>1 DEF PickBackend, Picking, TypeOK, Eligible, IsPinned
    <3>3. stage' = [stage EXCEPT ![k] = "picked"] /\ UNCHANGED <<callOf, isCallActive>>
      BY <2>2 DEF PickBackend
    <3>4. IsPinned(id) => b = callToBackend[id]
      BY <3>1 DEF Eligible
    <3>5. refs' = refs
      BY <3>1, <3>2, <3>4, UsersArePinned DEF TypeOK
    <3>6. TypeOK' /\ Chosen'
      BY <3>1, <3>2, <3>3, <3>4, <3>5, PinningAssumption DEF TypeOK, Chosen, IsPinned
    <3>7. \A i : UsersOf(i)' = UsersOf(i)
      BY <3>2, <3>3 DEF TypeOK, UsersOf
    <3>8. \A i \in CallIds : \A l \in UsersOf(i) : callToBackend'[i] = backend'[l]
      <4> SUFFICES ASSUME NEW i \in CallIds, NEW l \in UsersOf(i)
                   PROVE  callToBackend'[i] = backend'[l]
        OBVIOUS
      <4>1. l # k /\ l \in Users /\ callToBackend[i] = backend[l]
        BY <3>2 DEF UsersOf, RefsCountUsers
      <4>2. IsPinned(i)
        BY <4>1, UsersArePinned
      <4>3. QED
        BY <3>1, <3>2, <3>4, <4>1, <4>2 DEF TypeOK
    <3>9. QED
      BY <3>5, <3>6, <3>7, <3>8 DEF RefsCountUsers
  <2>3. ASSUME NEW k \in Users, PickFails(k) PROVE PinInv'
    <3>1. TypeOK' /\ Chosen'
      BY <2>3 DEF PickFails, TypeOK, Chosen, IsPinned
    <3>2. \A id : UsersOf(id)' = UsersOf(id)
      BY <2>3 DEF PickFails, Picking, TypeOK, UsersOf
    <3>3. RefsCountUsers'
      BY <2>3, <3>2 DEF PickFails, RefsCountUsers
    <3>4. QED
      BY <3>1, <3>3
  <2>4. ASSUME NEW k \in Users, RegisterCall(k) PROVE PinInv'
    <3> PICK id \in CallIds : id = callOf[k]
      BY <2>4 DEF TypeOK
    <3>1. /\ stage[k] = "picked"
          /\ backend[k] \in Backends
          /\ callToBackend[id] \in {backend[k], NoBackend}
      BY <2>4 DEF RegisterCall, TypeOK, Chosen, MayRegister
    <3>2. /\ stage' = [stage EXCEPT ![k] = "using"]
          /\ callToBackend' = [callToBackend EXCEPT ![id] = backend[k]]
          /\ refs' = [refs EXCEPT ![id] = IF IsPinned(id) THEN @ + 1 ELSE 1]
          /\ UNCHANGED <<callOf, backend, isCallActive>>
      BY <2>4 DEF RegisterCall
    <3>3. refs' = [refs EXCEPT ![id] = refs[id] + 1]
      <4>1. ~IsPinned(id) => refs[id] = 0
        BY UsersArePinned
      <4>2. (IF IsPinned(id) THEN refs[id] + 1 ELSE 1) = refs[id] + 1
        BY <4>1 DEF TypeOK
      <4>3. QED
        BY <3>2, <4>2 DEF TypeOK
    <3>4. TypeOK' /\ Chosen'
      BY <3>1, <3>2, <3>3, PinningAssumption DEF TypeOK, Chosen, IsPinned
    <3>5. k \notin UsersOf(id) /\ UsersOf(id)' = UsersOf(id) \union {k}
      BY <3>1, <3>2 DEF UsersOf, TypeOK
    <3>6. \A i \in CallIds \ {id} : UsersOf(i)' = UsersOf(i)
      BY <3>1, <3>2 DEF UsersOf, TypeOK
    <3>7. Cardinality(UsersOf(id)') = Cardinality(UsersOf(id)) + 1
      BY <3>5, UsersAreFinite, FS_AddElement
    <3>8. \A i \in CallIds : refs'[i] = Cardinality(UsersOf(i)')
      BY <3>1, <3>3, <3>6, <3>7 DEF TypeOK, RefsCountUsers
    <3>9. \A i \in CallIds : \A l \in UsersOf(i)' : callToBackend'[i] = backend'[l]
      <4> SUFFICES ASSUME NEW i \in CallIds, NEW l \in UsersOf(i)'
                   PROVE  callToBackend'[i] = backend'[l]
        OBVIOUS
      <4>1. CASE l = k
        BY <4>1, <3>1, <3>2 DEF UsersOf, TypeOK
      <4>2. CASE l # k
        <5>1. l \in UsersOf(i)
          BY <4>2, <3>1, <3>2 DEF UsersOf, TypeOK
        <5>2. callToBackend[i] = backend[l] /\ IsPinned(i)
          BY <5>1, UsersArePinned DEF RefsCountUsers
        <5>3. QED
          BY <5>2, <3>1, <3>2 DEF TypeOK, IsPinned
      <4>3. QED
        BY <4>1, <4>2
    <3>10. QED
      BY <3>4, <3>8, <3>9 DEF RefsCountUsers
  <2>5. ASSUME NEW k \in Users, RegisterFails(k) PROVE PinInv'
    <3>1. TypeOK' /\ Chosen'
      BY <2>5 DEF RegisterFails, TypeOK, Chosen, IsPinned
    <3>2. \A id : UsersOf(id)' = UsersOf(id)
      BY <2>5 DEF RegisterFails, TypeOK, UsersOf
    <3>3. RefsCountUsers'
      BY <2>5, <3>2 DEF RegisterFails, RefsCountUsers
    <3>4. QED
      BY <3>1, <3>3
  <2>6. ASSUME NEW k \in Users, UnregisterCall(k) PROVE PinInv'
    <3> PICK id \in CallIds : id = callOf[k]
      BY <2>6 DEF TypeOK
    <3>1. stage[k] = "using" /\ k \in UsersOf(id)
      BY <2>6 DEF UnregisterCall, TypeOK, UsersOf
    <3>2. callToBackend[id] = backend[k] /\ UsersOf(id) # {} /\ refs[id] # 0
      BY <3>1, NoUsersNoRefs DEF RefsCountUsers
    <3>3. /\ stage' = [stage EXCEPT ![k] = "released"]
          /\ refs' = [refs EXCEPT ![id] = IF @ > 1 THEN @ - 1 ELSE 0]
          /\ callToBackend' = [callToBackend EXCEPT ![id] = IF PinGoes(id) THEN NoBackend ELSE @]
          /\ UNCHANGED <<callOf, backend, isCallActive>>
      BY <2>6, <3>2 DEF UnregisterCall
    <3>4. refs[id] \in Nat /\ refs' = [refs EXCEPT ![id] = refs[id] - 1]
      <4>1. refs[id] \in Nat /\ refs[id] # 0
        BY <3>2 DEF TypeOK
      <4>2. (IF refs[id] > 1 THEN refs[id] - 1 ELSE 0) = refs[id] - 1
        BY <4>1
      <4>3. QED
        BY <3>3, <4>1, <4>2 DEF TypeOK
    <3>5. refs[id] > 1 => ~PinGoes(id)
      BY <3>4 DEF PinGoes
    <3>6. TypeOK' /\ Chosen'
      <4>1. refs' \in [CallIds -> Nat]
        BY <3>1, <3>2, <3>4 DEF TypeOK
      <4>2. \A i \in CallIds : refs'[i] > 0 => IsPinned(i)'
        BY <3>1, <3>2, <3>3, <3>4, <3>5 DEF TypeOK, IsPinned
      <4>3. QED
        BY <4>1, <4>2, <3>1, <3>3 DEF TypeOK, Chosen
    <3>7. UsersOf(id)' = UsersOf(id) \ {k}
      BY <3>1, <3>3 DEF UsersOf, TypeOK
    <3>8. \A i \in CallIds \ {id} : UsersOf(i)' = UsersOf(i)
      BY <3>1, <3>3 DEF UsersOf, TypeOK
    <3>9. Cardinality(UsersOf(id)') = Cardinality(UsersOf(id)) - 1
      BY <3>1, <3>7, UsersAreFinite, FS_RemoveElement
    <3>10. \A i \in CallIds : refs'[i] = Cardinality(UsersOf(i)')
      BY <3>1, <3>4, <3>8, <3>9 DEF TypeOK, RefsCountUsers
    <3>11. \A i \in CallIds : \A l \in UsersOf(i)' : callToBackend'[i] = backend'[l]
      <4> SUFFICES ASSUME NEW i \in CallIds, NEW l \in UsersOf(i)'
                   PROVE  callToBackend'[i] = backend'[l]
        OBVIOUS
      <4>1. l \in UsersOf(i) /\ callToBackend[i] = backend[l]
        BY <3>7, <3>8 DEF RefsCountUsers
      <4>2. CASE i = id
        <5>1. UsersOf(id)' # {} /\ IsFiniteSet(UsersOf(id)')
          BY <4>2, <3>7, UsersAreFinite, FS_RemoveElement
        <5>2. refs'[id] # 0
          BY <5>1, <3>1, <3>10, FS_EmptySet
        <5>3. refs[id] > 1
          BY <5>2, <3>1, <3>2, <3>4 DEF TypeOK
        <5>4. QED
          BY <4>1, <4>2, <5>3, <3>3, <3>5 DEF TypeOK
      <4>3. CASE i # id
        BY <4>1, <4>3, <3>3 DEF TypeOK
      <4>4. QED
        BY <4>2, <4>3
    <3>12. QED
      BY <3>6, <3>10, <3>11 DEF RefsCountUsers
  <2>7. ASSUME NEW id \in CallIds, SweepStaleEntry(id) PROVE PinInv'
    <3>1. refs[id] = 0 /\ UsersOf(id) = {}
      BY <2>7, NoUsersNoRefs DEF SweepStaleEntry, Sweepable
    <3>2. TypeOK' /\ Chosen'
      BY <2>7, <3>1 DEF SweepStaleEntry, TypeOK, Chosen, IsPinned
    <3>3. \A i : UsersOf(i)' = UsersOf(i)
      BY <2>7 DEF SweepStaleEntry, UsersOf
    <3>4. RefsCountUsers'
      BY <2>7, <3>1, <3>3 DEF SweepStaleEntry, RefsCountUsers, TypeOK
    <3>5. QED
      BY <3>2, <3>4
  <2>8. ASSUME NEW id \in CallIds, CallStartsOrEnds(id) PROVE PinInv'
    <3>1. TypeOK' /\ Chosen'
      BY <2>8 DEF CallStartsOrEnds, TypeOK, Chosen, IsPinned
    <3>2. \A i : UsersOf(i)' = UsersOf(i)
      BY <2>8 DEF CallStartsOrEnds, UsersOf
    <3>3. RefsCountUsers'
      BY <2>8, <3>2 DEF CallStartsOrEnds, RefsCountUsers
    <3>4. QED
      BY <3>1, <3>3
  <2>9. CASE UNCHANGED vars
    <3>1. TypeOK' /\ Chosen'
      BY <2>9 DEF vars, TypeOK, Chosen, IsPinned
    <3>2. \A i : UsersOf(i)' = UsersOf(i)
      BY <2>9 DEF vars, UsersOf
    <3>3. RefsCountUsers'
      BY <2>9, <3>2 DEF vars, RefsCountUsers
    <3>4. QED
      BY <3>1, <3>3
  <2>10. QED
    BY <2>1, <2>2, <2>3, <2>4, <2>5, <2>6, <2>7, <2>8, <2>9 DEF Next, UserNext
<1>3. QED
  BY <1>1, <1>2, PTL DEF Spec

(* The references of a pin are its sessions, none lost and none taken twice: *)
(* registerCall and unregisterCall keep their count.                         *)
THEOREM RefsAreUsers == Spec => []RefsCountUsers
  BY PinInvariant, PTL DEF PinInv

(* Two sessions that carry one callId are on one backend, however picking,   *)
(* registering, failing, deleting and sweeping interleave.                   *)
THEOREM CallsStayTogether == Spec => []OneBackendPerCall
<1>1. PinInv => OneBackendPerCall
  BY DEF PinInv, RefsCountUsers, OneBackendPerCall, UsersOf, TypeOK
<1>2. QED
  BY <1>1, PinInvariant, PTL

(* The pin of a call that is up stays where it is: nothing but the end of    *)
(* the call lets unregisterCall or the sweep remove it.                      *)
THEOREM ActiveCallsKeepTheirPin == Spec => PinOfActiveCallStays
<1>1. PinInv /\ [Next]_vars =>
        \A id \in CallIds :
            (IsPinned(id) /\ isCallActive[id]) => callToBackend'[id] = callToBackend[id]
  <2> SUFFICES ASSUME PinInv, [Next]_vars, NEW id \in CallIds, IsPinned(id), isCallActive[id]
               PROVE  callToBackend'[id] = callToBackend[id]
    OBVIOUS
  <2> USE DEF PinInv, TypeOK
  <2>1. ASSUME NEW k \in Users, PickBackend(k)
        PROVE  callToBackend'[id] = callToBackend[id]
    BY <2>1 DEF PickBackend, Eligible
  <2>2. ASSUME NEW k \in Users, RegisterCall(k)
        PROVE  callToBackend'[id] = callToBackend[id]
    BY <2>2 DEF RegisterCall, MayRegister, IsPinned
  <2>3. ASSUME NEW k \in Users, UnregisterCall(k)
        PROVE  callToBackend'[id] = callToBackend[id]
    BY <2>3 DEF UnregisterCall, PinGoes
  <2>4. ASSUME NEW i \in CallIds, SweepStaleEntry(i)
        PROVE  callToBackend'[id] = callToBackend[id]
    BY <2>4 DEF SweepStaleEntry, Sweepable
  <2>5. QED
    BY <2>1, <2>2, <2>3, <2>4 DEF Next, UserNext, CreateClient, PickFails, RegisterFails,
       CallStartsOrEnds, vars
<1>2. QED
  BY <1>1, PinInvariant, PTL DEF Spec, PinOfActiveCallStays

-----------------------------------------------------------------------------
(* The catalogue. *)

(* Every step is a step of BackendPinning or leaves its variables alone. *)
LEMMA StepsArePinningSteps == [CatalogNext]_allVars => [Next]_vars
<1> SUFFICES ASSUME [CatalogNext]_allVars
             PROVE  [Next]_vars
  OBVIOUS
<1>1. ASSUME NEW k \in Users, PickListed(k) \/ NothingListed(k)
      PROVE  Next
  BY <1>1 DEF PickListed, NothingListed, Next, UserNext
<1>2. ASSUME NEW k \in Users, PickDiscovered(k) \/ AfterPick(k)
      PROVE  Next
  BY <1>2 DEF PickDiscovered, AfterPick, Next, UserNext
<1>3. ASSUME NEW id \in CallIds, Pins(id)
      PROVE  Next
  BY <1>3 DEF Pins, Next
<1>4. ASSUME RefreshTimer \/ ReplaceFile \/ Tick \/ UNCHANGED allVars
      PROVE  UNCHANGED vars
  BY <1>4 DEF RefreshTimer, ReplaceFile, Tick, allVars
<1>5. QED
  BY <1>1, <1>2, <1>3, <1>4 DEF CatalogNext

(* The picks of a gateway with a catalogue file, and of one that discovers    *)
(* its backends, implement the pinning of calls to backends.                  *)
THEOREM CatalogImplementsPinning == CatalogSpec => Spec
<1>1. CatalogInit => Init
  BY DEF CatalogInit
<1>2. QED
  BY <1>1, StepsArePinningSteps, PTL DEF CatalogSpec, Spec

(* So the sessions of one call share a backend, whatever becomes of the file. *)
THEOREM CatalogKeepsCallsTogether == CatalogSpec => []OneBackendPerCall
  BY CatalogImplementsPinning, CallsStayTogether, PTL

(* A session enters "picked" by a pick only. *)
LEMMA OnlyPicksPick ==
    ASSUME TypeOK, [CatalogNext]_allVars, NEW k \in Users,
           catalog, stage[k] # "picked", stage'[k] = "picked"
    PROVE  PickListed(k)
<1> USE DEF TypeOK
<1>1. ASSUME NEW l \in Users, PickListed(l)
      PROVE  l = k
  BY <1>1 DEF PickListed, PickBackend
<1>2. ASSUME NEW l \in Users, NothingListed(l)
      PROVE  FALSE
  BY <1>2 DEF NothingListed, PickFails
<1>3. ASSUME NEW l \in Users, PickDiscovered(l) \/ AfterPick(l)
      PROVE  FALSE
  BY <1>3 DEF PickDiscovered, AfterPick, RegisterCall, RegisterFails, UnregisterCall
<1>4. ASSUME NEW id \in CallIds, Pins(id)
      PROVE  FALSE
  BY <1>4 DEF Pins, SweepStaleEntry, CallStartsOrEnds
<1>5. ASSUME RefreshTimer \/ ReplaceFile \/ Tick \/ UNCHANGED allVars
      PROVE  FALSE
  BY <1>5 DEF RefreshTimer, ReplaceFile, Tick, allVars, vars
<1>6. QED
  BY <1>1, <1>2, <1>3, <1>4, <1>5 DEF CatalogNext

(* After a refresh the view is the catalogue in force. *)
LEMMA RefreshedViewIsInForce == Refresh => view' = InForce
  BY DEF Refresh, SameSignature, InForce

(* A session is placed by the catalogue file of that moment or, while that is *)
(* not acceptable, by the last one accepted, and by neither once it expired.  *)
THEOREM PicksAreOfTheFile == CatalogSpec => PicksFollowTheFile
<1>1. ASSUME TypeOK, [CatalogNext]_allVars, NEW k \in Users,
             catalog, stage[k] # "picked", stage'[k] = "picked"
      PROVE  /\ InForce # NoFile
             /\ now < Catalogs[InForce].validUntil
             /\ backend'[k] \in Catalogs[InForce].accepting
  <2>1. PickListed(k)
    BY <1>1, OnlyPicksPick
  <2>2. view' = InForce
    BY <2>1, RefreshedViewIsInForce DEF PickListed
  <2>3. backend'[k] \in Catalogs[view'].accepting /\ Valid(view')
    BY <2>1 DEF PickListed, Listed
  <2>4. QED
    BY <2>2, <2>3 DEF Valid
<1>2. CatalogSpec => []TypeOK
  <2>1. PinInv => TypeOK
    BY DEF PinInv
  <2>2. QED
    BY <2>1, CatalogImplementsPinning, PinInvariant, PTL
<1>3. TypeOK /\ [CatalogNext]_allVars =>
        \A k \in Users :
          (catalog /\ stage[k] # "picked" /\ stage'[k] = "picked") =>
            /\ InForce # NoFile
            /\ now < Catalogs[InForce].validUntil
            /\ backend'[k] \in Catalogs[InForce].accepting
  BY <1>1
<1>4. QED
  BY <1>2, <1>3, PTL DEF CatalogSpec, PicksFollowTheFile
CatalogKeeps ==
    /\ catalog \in BOOLEAN
    /\ file \in Files \union {NoFile}
    /\ view \in Files \union {NoFile}
    /\ error \in BOOLEAN
    /\ now \in 0 .. MaxTime
    /\ view # NoFile => Catalogs[view].parses

(* A refresh puts in force a file that parses, or nothing new. *)
LEMMA RefreshKeeps ==
    ASSUME CatalogKeeps, Refresh, UNCHANGED <<catalog, file, now>>
    PROVE  CatalogKeeps'
  BY CatalogAssumption DEF CatalogKeeps, Refresh, SameSignature, Acceptable

(* The catalogue in force is a file that did parse, whatever the publisher    *)
(* puts at the path, and what the gateway keeps of it has its type.           *)
THEOREM CatalogTypes == CatalogSpec => []CatalogTypeOK
<1>1. CatalogInit => CatalogKeeps
  BY CatalogAssumption DEF CatalogInit, CatalogKeeps, Acceptable
<1>2. CatalogKeeps /\ [CatalogNext]_allVars => CatalogKeeps'
  <2> SUFFICES ASSUME CatalogKeeps, [CatalogNext]_allVars
               PROVE  CatalogKeeps'
    OBVIOUS
  <2>1. ASSUME NEW k \in Users, PickListed(k) \/ NothingListed(k)
        PROVE  CatalogKeeps'
    BY <2>1, RefreshKeeps DEF PickListed, NothingListed
  <2>2. ASSUME NEW k \in Users, PickDiscovered(k) \/ AfterPick(k)
        PROVE  CatalogKeeps'
    BY <2>2 DEF PickDiscovered, AfterPick, catalogVars, CatalogKeeps
  <2>3. ASSUME NEW id \in CallIds, Pins(id)
        PROVE  CatalogKeeps'
    BY <2>3 DEF Pins, catalogVars, CatalogKeeps
  <2>4. CASE RefreshTimer
    BY <2>4, RefreshKeeps DEF RefreshTimer
  <2>5. CASE ReplaceFile
    BY <2>5 DEF ReplaceFile, CatalogKeeps
  <2>6. CASE Tick
    BY <2>6, CatalogAssumption DEF Tick, CatalogKeeps
  <2>7. CASE UNCHANGED allVars
    BY <2>7 DEF allVars, catalogVars, CatalogKeeps
  <2>8. QED
    BY <2>1, <2>2, <2>3, <2>4, <2>5, <2>6, <2>7 DEF CatalogNext
<1>3. TypeOK /\ CatalogKeeps => CatalogTypeOK
  BY DEF CatalogTypeOK, CatalogKeeps
<1>4. CatalogSpec => []TypeOK
  BY CatalogImplementsPinning, PinInvariant, PTL DEF PinInv
<1>5. QED
  BY <1>1, <1>2, <1>3, <1>4, PTL DEF CatalogSpec
=============================================================================
