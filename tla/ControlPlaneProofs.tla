-------------------------- MODULE ControlPlaneProofs --------------------------
(***************************************************************************)
(* Proofs about ControlPlane, for every set of connections, route list,    *)
(* URI, reply, configuration, id of a request and body of a command.       *)
(***************************************************************************)
EXTENDS ControlPlane, WellFoundedInduction, TLAPS

-----------------------------------------------------------------------------
(* SIP URIs. *)

(* A set of numbers has a least one, so Min is that one. *)
LEMMA MinIsLeast ==
    ASSUME NEW S, S \subseteq Nat, S # {}
    PROVE  Min(S) \in S /\ \A n \in S : Min(S) <= n
<1>1. PICK m \in S : \A n \in S : ~ (<<n, m>> \in OpToRel(<, Nat))
  BY WFMin, NatLessThanWellFounded
<1>2. \A n \in S : n \in Nat /\ m \in Nat /\ ~ (n < m)
  BY <1>1, Zenon DEF OpToRel
<1>3. \A n \in S : m <= n
  BY <1>2
<1>4. QED
  BY <1>3, Zenon DEF Min

(* Position is 0 without the token, and that of the first one otherwise. *)
LEMMA PositionIsFirst ==
    ASSUME NEW T, NEW uri \in Seq(T), NEW token
    PROVE  /\ Position(uri, token) \in 0..Len(uri)
           /\ Position(uri, token) = 0 <=> ~Contains(uri, token)
           /\ \A i \in 1..Len(uri) : i < Position(uri, token) => uri[i] # token
<1> DEFINE I == {i \in 1..Len(uri) : uri[i] = token}
<1>1. Position(uri, token) = IF I # {} THEN Min(I) ELSE 0
  BY DEF Position, SelectInSeq
<1>2. Len(uri) \in Nat /\ I \subseteq Nat
  OBVIOUS
<1>3. CASE I = {}
  <2>1. Position(uri, token) = 0 /\ \A i \in 1..Len(uri) : uri[i] # token
    BY <1>1, <1>3
  <2>2. QED
    BY <1>2, <2>1 DEF Contains
<1>4. CASE I # {}
  <2> DEFINE p == Position(uri, token)
  <2>1. p \in I /\ \A i \in I : p <= i
    BY <1>1, <1>2, <1>4, MinIsLeast
  <2>2. Contains(uri, token)
    BY <2>1 DEF Contains
  <2> HIDE DEF p
  <2>3. p \in 1..Len(uri) /\ \A i \in 1..Len(uri) : i < p => uri[i] # token
    BY <1>2, <2>1
  <2>4. QED
    BY <2>2, <2>3 DEF p
<1>5. QED
  BY <1>3, <1>4

(* What is cut off at a token holds that token no more, and nothing that was *)
(* not there before.                                                         *)
LEMMA UpToCuts ==
    ASSUME NEW T, NEW uri \in Seq(T), NEW token
    PROVE  /\ UpTo(uri, token) \in Seq(T)
           /\ ~Contains(UpTo(uri, token), token)
           /\ \A t : Contains(UpTo(uri, token), t) => Contains(uri, t)
<1>1. CASE ~Contains(uri, token)
  BY <1>1, PositionIsFirst DEF UpTo
<1>2. CASE Contains(uri, token)
  <2> DEFINE p == Position(uri, token)
  <2>1. p \in 1..Len(uri) /\ \A i \in 1..Len(uri) : i < p => uri[i] # token
    BY <1>2, PositionIsFirst
  <2> HIDE DEF p
  <2>2. UpTo(uri, token) = SubSeq(uri, 1, p - 1)
    BY <2>1 DEF UpTo, p
  <2>3. /\ SubSeq(uri, 1, p - 1) \in Seq(T)
        /\ Len(SubSeq(uri, 1, p - 1)) = p - 1
        /\ \A i \in 1..(p - 1) : SubSeq(uri, 1, p - 1)[i] = uri[i]
    BY <2>1
  <2>4. \A i \in 1..(p - 1) : i \in 1..Len(uri) /\ i < p
    BY <2>1
  <2>5. QED
    BY <2>1, <2>2, <2>3, <2>4 DEF Contains
<1>3. QED
  BY <1>1, <1>2

LEMMA FromIsASequence ==
    ASSUME NEW T, NEW uri \in Seq(T), NEW token
    PROVE  From(uri, token) \in Seq(T)
  BY PositionIsFirst DEF From

(* Stripping a URI twice strips nothing more: an INVITE's URI is stripped once *)
(* by the gateway and again by the routing, that of a lookup by the latter.    *)
LEMMA StripIsIdempotent ==
    ASSUME NEW T, NEW uri \in Seq(T)
    PROVE  stripSipUri(stripSipUri(uri)) = stripSipUri(uri)
<1> DEFINE inner == IF Contains(uri, Open) /\ Contains(uri, Close)
                    THEN UpTo(From(uri, Open), Close) ELSE uri
           s == UpTo(inner, Params)
<1>1. inner \in Seq(T) /\ ~(Contains(inner, Open) /\ Contains(inner, Close))
  BY UpToCuts, FromIsASequence
<1>2. stripSipUri(uri) = s
  BY DEF stripSipUri
<1> HIDE DEF inner
<1>3. /\ s \in Seq(T)
      /\ ~Contains(s, Params)
      /\ ~(Contains(s, Open) /\ Contains(s, Close))
  BY <1>1, UpToCuts
<1> HIDE DEF s
<1>4. UpTo(s, Params) = s
  BY <1>3, PositionIsFirst DEF UpTo
<1>5. stripSipUri(s) = s
  BY <1>3, <1>4 DEF stripSipUri
<1>6. QED
  BY <1>2, <1>5

-----------------------------------------------------------------------------
(* What a log shows. *)

Secret == {"card", "pin"}

(* Which pieces of a text hold a card number, and which text a protected      *)
(* digit.                                                                     *)
LEMMA WhereSecretsAre ==
    ASSUME NEW kind \in TextKinds, NEW p \in DOMAIN Pieces[kind]
    PROVE  /\ "card" \in Pieces[kind][p] => p \notin {"codecs", "keys"}
           /\ "card" \in Pieces[kind][p] /\ p = "base" => kind \in {"card", "file"}
           /\ "pin" \in Pieces[kind][p] => kind = "pin"
<1> USE DEF TextKinds, Pieces
<1>1. CASE kind = "text"
  BY <1>1
<1>2. CASE kind = "direction"
  BY <1>2
<1>3. CASE kind = "uri"
  BY <1>3
<1>4. CASE kind = "url"
  BY <1>4
<1>5. CASE kind = "file"
  BY <1>5
<1>6. CASE kind = "sdp"
  BY <1>6
<1>7. CASE kind \in {"card", "digits", "pin"}
  <2>1. Pieces[kind] = [base |-> {kind}]
    BY <1>7
  <2> HIDE DEF Pieces
  <2>2. p = "base" /\ Pieces[kind][p] = {kind}
    BY <2>1
  <2>3. QED
    BY <1>7, <2>2
<1>8. QED
  BY <1>1, <1>2, <1>3, <1>4, <1>5, <1>6, <1>7

(* The atoms of some pieces of a text. *)
LEMMA AtomsOfPieces ==
    ASSUME NEW kind \in TextKinds, NEW pieces, NEW atom
    PROVE  atom \in Of(kind, pieces)
              <=> \E p \in pieces : p \in DOMAIN Pieces[kind] /\ atom \in Pieces[kind][p]
  BY DEF Of

(* So a text that is no protected digit shows none, and no card number once  *)
(* its runs of digits are redacted or when it shows codecs or keys only.     *)
LEMMA PiecesHideSecrets ==
    ASSUME NEW kind \in TextKinds, NEW pieces
    PROVE  /\ kind # "pin" => redactDigitRuns(Of(kind, pieces)) \cap Secret = {}
           /\ kind # "pin" /\ kind \notin {"card", "file"} /\ pieces \subseteq {"base"}
                => Of(kind, pieces) \cap Secret = {}
           /\ kind # "pin" /\ pieces \subseteq {"codecs", "keys"}
                => Of(kind, pieces) \cap Secret = {}
  BY WhereSecretsAre, AtomsOfPieces DEF redactDigitRuns, Secret

(* No summary of a field shows a card number; a digit entered under         *)
(* protection is shown by a field of digits only, and only when nothing     *)
(* says that the message is a sensitive one.                                *)
LEMMA FieldHidesSecrets ==
    ASSUME NEW field, NEW kind, NEW sensitive \in BOOLEAN,
           kind = "pin" => field \in {"digit", "digits"} /\ sensitive
    PROVE  scrubKnownField(field, kind, sensitive) \cap Secret = {}
<1>1. CASE kind = "pin"
  <2>1. field \in {"digit", "digits"} /\ sensitive
    BY <1>1
  <2>2. /\ field \notin Secrets /\ field \notin Sdps /\ field \notin Locations
        /\ field \notin Uris /\ field \notin Paths
        /\ field \notin Identifiers /\ field \notin Arrays /\ field \notin Enums
    BY <2>1 DEF Secrets, Sdps, Locations, Uris, Paths, Identifiers, Arrays, Enums
  <2>3. scrubKnownField(field, kind, sensitive) = {}
    BY <1>1, <2>1, <2>2 DEF scrubKnownField, summarizeDigits, typeMarker
  <2>4. QED
    BY <2>3
<1>2. CASE kind # "pin"
  <2> USE <1>2, PiecesHideSecrets DEF IsText, typeMarker, Secret
  <2>1. summarizeSdp(kind) \cap Secret = {}
    BY DEF summarizeSdp
  <2>2. summarizeUri(kind) \cap Secret = {}
    BY DEF summarizeUri
  <2>3. summarizePath(kind) \cap Secret = {}
    BY DEF summarizePath
  <2>4. summarizeUrlOrPath(kind) \cap Secret = {}
    <3>1. CASE kind = "url"
      <4>1. kind \in TextKinds
        BY <3>1 DEF TextKinds
      <4>2. QED
        BY <3>1, <4>1 DEF summarizeUrlOrPath
    <3>2. CASE kind # "url"
      BY <2>2, <2>3, <3>2 DEF summarizeUrlOrPath
    <3>3. QED
      BY <3>1, <3>2
  <2>5. summarizeDigits(kind, sensitive) \cap Secret = {}
    BY DEF summarizeDigits, Whole, TextKinds, Pieces
  <2>6. summarizeDigits(kind, FALSE) \cap Secret = {}
    BY DEF summarizeDigits, Whole, TextKinds, Pieces
  <2>7. scrubIdentifier(kind) \cap Secret = {}
    BY DEF scrubIdentifier, Whole, TextKinds
  <2>8. summarizeEnum(kind) \cap Secret = {}
    BY DEF summarizeEnum, Whole, TextKinds, Pieces
  <2>9. /\ summarizeHeaders(kind) \cap Secret = {} /\ summarizeAuth(kind) \cap Secret = {}
        /\ summarizeRoutes(kind) \cap Secret = {} /\ summarizeArray(kind) \cap Secret = {}
        /\ summarizeIceConfiguration(kind) \cap Secret = {}
        /\ summarizeText(kind) \cap Secret = {} /\ typeMarker \cap Secret = {}
        /\ {"value"} \cap Secret = {} /\ {"longNumber"} \cap Secret = {}
    BY DEF summarizeHeaders, summarizeAuth, summarizeRoutes, summarizeArray,
           summarizeIceConfiguration, summarizeText
  <2>10. QED
    BY <2>1, <2>2, <2>3, <2>4, <2>5, <2>6, <2>7, <2>8, <2>9 DEF scrubKnownField
<1>3. QED
  BY <1>1, <1>2

(* A field or protocol name, an error and an identifier show none either. *)
LEMMA NamesHideSecrets ==
    ASSUME NEW name
    PROVE  /\ safeFieldName(name) \cap Secret = {} /\ safeProtocolName(name) \cap Secret = {}
           /\ scrubError(name) \cap Secret = {}
  BY DEF safeFieldName, safeProtocolName, scrubError, typeMarker, Secret

LEMMA IdentifiersHideSecrets ==
    ASSUME NEW kind, kind # "pin"
    PROVE  scrubIdentifier(kind) \cap Secret = {}
  BY PiecesHideSecrets DEF scrubIdentifier, Whole, TextKinds, typeMarker

(* Protected digits are in a field of digits, and only in a sensitive message. *)
Protects(body, sensitive) ==
    \A f \in DOMAIN body : body[f] = "pin" => f \in {"digit", "digits"} /\ sensitive

(* Then neither does the summary of a message, whichever fields it may show. *)
LEMMA MessageHidesSecrets ==
    ASSUME NEW body, NEW allowed, NEW sensitive \in BOOLEAN, Protects(body, sensitive)
    PROVE  scrubKnownObject(body, allowed, sensitive) \cap Secret = {}
<1>1. \A f \in DOMAIN body : scrubKnownField(f, body[f], sensitive) \cap Secret = {}
  BY FieldHidesSecrets DEF Protects
<1>2. \A f : safeFieldName(f) \cap Secret = {}
  BY NamesHideSecrets
<1>3. QED
  BY <1>1, <1>2 DEF scrubKnownObject, typeMarker

(* So for each kind of message, with its id, its method and its error. *)
LEMMA RequestHidesSecrets ==
    ASSUME NEW id, id # "pin", NEW method, NEW params,
           Protects(params, isSensitiveControlRequest(method, params))
    PROVE  scrubControlRequest(id, method, params) \cap Secret = {}
<1>1. isSensitiveControlRequest(method, params) \in BOOLEAN
  BY DEF isSensitiveControlRequest
<1>2. scrubKnownObject(params, requestFields(method), isSensitiveControlRequest(method, params))
            \cap Secret = {}
  BY <1>1, MessageHidesSecrets
<1>3. QED
  BY <1>2, NamesHideSecrets, IdentifiersHideSecrets DEF scrubControlRequest

LEMMA ResponseHidesSecrets ==
    ASSUME NEW id, id # "pin", NEW method, NEW sensitive \in BOOLEAN, NEW result,
           Protects(result, sensitive), NEW error
    PROVE  scrubControlResponse(id, method, sensitive, result, error) \cap Secret = {}
<1>1. scrubKnownObject(result, responseFields(method), sensitive) \cap Secret = {}
  BY MessageHidesSecrets
<1>2. QED
  BY <1>1, NamesHideSecrets, IdentifiersHideSecrets DEF scrubControlResponse

LEMMA RtpbridgeEventHidesSecrets ==
    ASSUME NEW event, NEW data, Protects(data, event = "dtmf" /\ eventIsSensitiveDtmf(data))
    PROVE  scrubRtpbridgeEvent(event, data) \cap Secret = {}
<1> DEFINE sensitive == event = "dtmf" /\ eventIsSensitiveDtmf(data)
<1>1. sensitive \in BOOLEAN
  BY DEF eventIsSensitiveDtmf
<1>2. scrubKnownObject(data, rtpbridgeEventFields(event), sensitive) \cap Secret = {}
  BY <1>1, MessageHidesSecrets
<1>3. QED
  BY <1>2, NamesHideSecrets DEF scrubRtpbridgeEvent

LEMMA ControlEventHidesSecrets ==
    ASSUME NEW event, NEW inner, NEW data,
           LET name == IF event = "media.rtpbridge" THEN inner ELSE event
           IN  Protects(data, name = "dtmf" /\ eventIsSensitiveDtmf(data))
    PROVE  scrubControlEvent(event, inner, data) \cap Secret = {}
<1>1. CASE event = "media.rtpbridge"
  BY <1>1, RtpbridgeEventHidesSecrets, NamesHideSecrets
     DEF scrubControlEvent, scrubNestedRtpbridgeEvent
<1>2. CASE event # "media.rtpbridge"
  <2> DEFINE sensitive == event = "dtmf" /\ eventIsSensitiveDtmf(data)
  <2>1. sensitive \in BOOLEAN
    BY DEF eventIsSensitiveDtmf
  <2>2. scrubKnownObject(data, eventFields(event), sensitive) \cap Secret = {}
    BY <1>2, <2>1, MessageHidesSecrets
  <2>3. QED
    BY <1>2, <2>2, NamesHideSecrets DEF scrubControlEvent
<1>3. QED
  BY <1>1, <1>2

-----------------------------------------------------------------------------
(* The checks of a command. *)

CheckErrors ==
    {"GatewayDrainingError", "CommandNotImplementedError", "CommandValidationError",
     "InvalidHttpActionError", "MediaUnavailableError"}

LEMMA CheckFailsWithAnError ==
    ASSUME NEW method, NEW params, NEW at
    PROVE  Check(method, params, at) \in CheckErrors \union {"none"}
  BY DEF Check, CheckErrors

(* The checks refuse new work only, and only because of the drain. *)
LEMMA DrainRefusesNewWork ==
    ASSUME NEW method, NEW params, NEW at,
           Check(method, params, at) = "GatewayDrainingError"
    PROVE  at.draining /\ IsNewWork(method, params, at.call)
  BY DEF Check

(* And they let none pass. *)
LEMMA PassedIsNoNewWork ==
    ASSUME NEW method, NEW params, NEW at, Check(method, params, at) = "none", at.draining
    PROVE  ~IsNewWork(method, params, at.call)
<1>1. CASE method \in PlainCommands
  BY <1>1 DEF PlainCommands, IsNewWork
<1>2. CASE method \notin PlainCommands
  BY <1>2 DEF Check
<1>3. QED
  BY <1>1, <1>2

(* A call a passing session.create names is named by a text. *)
LEMMA PassedSessionCreate ==
    ASSUME NEW params, NEW at, Check("session.create", params, at) = "none"
    PROVE  Value(params, "callId") \in Texts \union Missing
<1>1. "session.create" \in DOMAIN Commands /\ "session.create" \notin PlainCommands
  BY DEF Commands, SipMethods, PlainCommands
<1>2. ~Invalid("session.create", params, CheckedFirst("session.create"))
  BY <1>1 DEF Check
<1>3. Accepts("session.create", "callId", params)
  BY <1>2 DEF Invalid, CheckedFirst
<1>4. Commands["session.create"]["callId"] = optionalString
  <2>1. "session.create" \in SipMethods /\ "session.create" \notin OfferMethods
        /\ "session.create" \notin MediaMethods /\ "session.create" \notin GatherMethods
        /\ "session.create" \notin RecordingMethods
    BY DEF SipMethods, OfferMethods, MediaMethods, GatherMethods, RecordingMethods
  <2>2. Commands["session.create"] = SipCommands["session.create"]
    BY <2>1 DEF Commands
  <2>3. SipCommands["session.create"] = [callId |-> optionalString]
    BY <2>1 DEF SipCommands
  <2>4. QED
    BY <2>2, <2>3
<1>5. Given("session.create", params, "callId") = Value(params, "callId")
  BY DEF Given, HasAlias, Alias
<1>6. QED
  BY <1>3, <1>4, <1>5 DEF Accepts, optionalString

(* Both ways to say why a command is refused say the same. *)
LEMMA ErrorsSayTheSame ==
    ASSUME NEW error \in CheckErrors
    PROVE  <<HttpStatus(error), ControlCode(error)>> \in Same
<1> DEFINE pair == CHOOSE p \in ByStatus : p[1] = error
<1>1. \E p \in ByStatus : p[1] = error
  <2>1. CASE error = "GatewayDrainingError"
    <3>1. <<"GatewayDrainingError", "503 SHUTTING_DOWN">> \in ByStatus
      BY DEF ByStatus
    <3>2. QED
      BY <2>1, <3>1
  <2>2. CASE error = "CommandNotImplementedError"
    <3>1. <<"CommandNotImplementedError", "501">> \in ByStatus
      BY DEF ByStatus
    <3>2. QED
      BY <2>2, <3>1
  <2>3. CASE error = "CommandValidationError"
    <3>1. <<"CommandValidationError", "400">> \in ByStatus
      BY DEF ByStatus
    <3>2. QED
      BY <2>3, <3>1
  <2>4. CASE error = "InvalidHttpActionError"
    <3>1. <<"InvalidHttpActionError", "400">> \in ByStatus
      BY DEF ByStatus
    <3>2. QED
      BY <2>4, <3>1
  <2>5. CASE error = "MediaUnavailableError"
    <3>1. <<"MediaUnavailableError", "503">> \in ByStatus
      BY DEF ByStatus, Unavailable
    <3>2. QED
      BY <2>5, <3>1
  <2>6. QED
    BY <2>1, <2>2, <2>3, <2>4, <2>5 DEF CheckErrors
<1>2. pair \in ByStatus /\ pair[1] = error
  BY <1>1
<1> HIDE DEF pair
<1>3. HttpStatus(error) = pair[2]
  BY <1>1 DEF HttpStatus, pair
<1>4. /\ error = "GatewayDrainingError" => pair[2] = "503 SHUTTING_DOWN"
      /\ error = "CommandNotImplementedError" => pair[2] = "501"
      /\ error \in {"CommandValidationError", "InvalidHttpActionError"} => pair[2] = "400"
      /\ error = "MediaUnavailableError" => pair[2] = "503"
  <2> DEFINE Right(p) ==
        /\ p[1] = "GatewayDrainingError" => p[2] = "503 SHUTTING_DOWN"
        /\ p[1] = "CommandNotImplementedError" => p[2] = "501"
        /\ p[1] \in {"CommandValidationError", "InvalidHttpActionError"} => p[2] = "400"
        /\ p[1] = "MediaUnavailableError" => p[2] = "503"
  <2>1. \A p \in {"CallNotFoundError"} \X {"404"} : Right(p)
    OBVIOUS
  <2>2. \A p \in NotFound \X {"404"} : Right(p)
    BY DEF NotFound
  <2>3. \A p \in Unavailable \X {"503"} : Right(p)
    BY DEF Unavailable
  <2>4. /\ Right(<<"GatewayDrainingError", "503 SHUTTING_DOWN">>)
        /\ Right(<<"InvalidCallStateError", "409">>) /\ Right(<<"MediaActionConflictError", "409">>)
        /\ Right(<<"MediaRecordingProxyError 400", "400">>)
        /\ Right(<<"MediaRecordingProxyError 404", "404">>)
        /\ Right(<<"MediaRecordingProxyError 502", "502">>)
        /\ Right(<<"CommandValidationError", "400">>) /\ Right(<<"InvalidHttpActionError", "400">>)
        /\ Right(<<"CommandNotImplementedError", "501">>) /\ Right(<<"none", "200">>)
    OBVIOUS
  <2> HIDE DEF Right
  <2>5. Right(pair)
    BY <1>2, <2>1, <2>2, <2>3, <2>4 DEF ByStatus
  <2>6. QED
    BY <1>2, <2>5 DEF Right
<1>5. /\ error = "GatewayDrainingError" => ControlCode(error) = "SHUTTING_DOWN"
      /\ error = "CommandNotImplementedError" => ControlCode(error) = "NOT_IMPLEMENTED"
      /\ error \in {"CommandValidationError", "InvalidHttpActionError"}
            => ControlCode(error) = "BAD_REQUEST"
      /\ error = "MediaUnavailableError" => ControlCode(error) = "MEDIA_UNAVAILABLE"
  BY DEF ControlCode, controlErrorForCommand, NotFound, Unavailable
<1>6. QED
  BY <1>3, <1>4, <1>5 DEF CheckErrors, Same

(* A control connection is told what HTTP is, unless it makes an outbound call *)
(* without a receiver, which HTTP refuses for that.                            *)
LEMMA OwnersAreCheckedAlike ==
    ASSUME NEW method, NEW params
    PROVE  LET http == Check(method, params, Now(FALSE))
               control == Check(method, params, Now(TRUE))
           IN  \/ http = control /\ (http = "none" => ~NeedsReceiver(method, params))
               \/ /\ NeedsReceiver(method, params) /\ http = "CommandValidationError"
                  /\ control \in {"none", "CommandValidationError", "InvalidHttpActionError"}
<1> DEFINE without == Now(FALSE)
           with == Now(TRUE)
<1>1. /\ without.owner = FALSE /\ with.owner = TRUE
      /\ without.draining = with.draining /\ without.media = with.media
      /\ without.call = with.call /\ without.session = with.session
  BY DEF Now
<1> HIDE DEF without, with
<1>2. Unchecked(method, without) = Unchecked(method, with)
  BY <1>1 DEF Unchecked
<1>3. CASE ~NeedsReceiver(method, params)
  <2>1. Check(method, params, without) = Check(method, params, with)
    BY <1>1, <1>2, <1>3 DEF Check
  <2>2. QED
    BY <1>3, <2>1 DEF without, with
<1>4. CASE NeedsReceiver(method, params)
  <2>1. /\ method = "sip.createOutbound" /\ method \in DOMAIN Commands
        /\ method \notin PlainCommands /\ method \notin NotImplemented
        /\ ~NeedsMedia(method) /\ RefusedFirst(method)
    BY <1>4 DEF NeedsReceiver, Commands, SipMethods, PlainCommands, NotImplemented, NeedsMedia,
                RefusedFirst
  <2>2. IsNewWork(method, params, with.call) /\ IsNewWork(method, params, without.call)
    BY <2>1 DEF IsNewWork
  <2>3. CASE with.draining
    <3>1. /\ Check(method, params, without) = "GatewayDrainingError"
          /\ Check(method, params, with) = "GatewayDrainingError"
      BY <1>1, <2>1, <2>2, <2>3 DEF Check
    <3>2. QED
      BY <3>1 DEF without, with
  <2>4. CASE ~with.draining
    <3>1. Check(method, params, without) = "CommandValidationError"
      BY <1>1, <1>4, <2>1, <2>4 DEF Check
    <3>2. Check(method, params, with)
            \in {"none", "CommandValidationError", "InvalidHttpActionError"}
      BY <1>1, <2>1, <2>4 DEF Check
    <3>3. QED
      BY <1>4, <3>1, <3>2 DEF without, with
  <2>5. QED
    BY <2>3, <2>4
<1>5. QED
  BY <1>3, <1>4

(* What a command that was refused over HTTP is told, and would have been. *)
Agree(answer, twin, needsReceiver) ==
    IF needsReceiver /\ twin = "ok" THEN answer = "400" ELSE <<answer, twin>> \in Same

LEMMA TwinsAgree ==
    ASSUME NEW method, NEW params
    PROVE  LET error == Check(method, params, Now(FALSE))
               twin == ControlCode(Check(method, params, Now(TRUE)))
               needs == NeedsReceiver(method, params)
           IN  IF error = "none" THEN twin = "ok" /\ ~needs ELSE Agree(HttpStatus(error), twin, needs)
<1> DEFINE error == Check(method, params, Now(FALSE))
           other == Check(method, params, Now(TRUE))
           needs == NeedsReceiver(method, params)
<1>1. error \in CheckErrors \union {"none"}
  BY CheckFailsWithAnError
<1>2. \/ error = other /\ (error = "none" => ~needs)
      \/ /\ needs /\ error = "CommandValidationError"
         /\ other \in {"none", "CommandValidationError", "InvalidHttpActionError"}
  BY OwnersAreCheckedAlike
<1> HIDE DEF error, other, needs
<1>3. /\ ControlCode("none") = "ok"
      /\ ControlCode("CommandValidationError") = "BAD_REQUEST"
      /\ ControlCode("InvalidHttpActionError") = "BAD_REQUEST"
  BY DEF ControlCode, controlErrorForCommand, NotFound, Unavailable
<1>4. \A e \in CheckErrors : <<HttpStatus(e), ControlCode(e)>> \in Same /\ ControlCode(e) # "ok"
  <2>1. \A e \in CheckErrors : <<HttpStatus(e), ControlCode(e)>> \in Same
    BY ErrorsSayTheSame
  <2>2. \A e \in CheckErrors : ControlCode(e) # "ok"
    BY DEF CheckErrors, ControlCode, controlErrorForCommand, NotFound, Unavailable
  <2>3. QED
    BY <2>1, <2>2
<1>5. HttpStatus("CommandValidationError") = "400"
  <2>1. <<HttpStatus("CommandValidationError"), "BAD_REQUEST">> \in Same
    <3>1. "CommandValidationError" \in CheckErrors
      BY DEF CheckErrors
    <3>2. QED
      BY <1>3, <1>4, <3>1
  <2>2. QED
    BY <2>1 DEF Same
<1>6. <<"400", "BAD_REQUEST">> \in Same
  BY DEF Same
<1>7. CASE error = other /\ (error = "none" => ~needs)
  BY <1>1, <1>3, <1>4, <1>7 DEF Agree, error, other, needs
<1>8. CASE /\ needs /\ error = "CommandValidationError"
           /\ other \in {"none", "CommandValidationError", "InvalidHttpActionError"}
  <2>1. Agree("400", ControlCode(other), needs)
    BY <1>3, <1>6, <1>8 DEF Agree
  <2>2. QED
    BY <1>5, <1>8, <2>1 DEF error, other, needs
<1>9. QED
  BY <1>2, <1>7, <1>8

-----------------------------------------------------------------------------
(* The inductive invariant: what an exchange may look like at each stage. *)

Gathers == {"media.gather", "media.playAndGather"}

IsPromise(x) == x.stage = "promised" /\ DOMAIN x = {"stage", "uri", "user", "by"}

(* A promise names a host the gateway is responsible for, and by routes that   *)
(* matched; which of those are registered still, and the phase, may change.    *)
PromiseKept(x) ==
    /\ IsSequence(x.uri)
    /\ acceptsSipHost(x.uri, config.domains)
    /\ \A r \in x.by : Matches(r, [uri |-> x.uri, user |-> x.user])

IsAnswer(x) ==
    /\ x.stage = "answered"
    /\ x = [stage |-> "answered", transport |-> x.transport, method |-> x.method,
            answer |-> x.answer, logged |-> x.logged]

CommandFields ==
    {"stage", "transport", "id", "method", "answer", "logged", "twin", "existing", "refused",
     "needsReceiver", "sensitive", "digits"}

IsCommand(x) == DOMAIN x = CommandFields /\ x.stage \in {"running", "answered"}

(* A command that runs was refused on neither transport, and the digits of  *)
(* its result are protected only if its response is logged as sensitive.    *)
CommandKept(x) ==
    /\ x.refused \in BOOLEAN /\ x.sensitive \in BOOLEAN /\ x.needsReceiver \in BOOLEAN
    /\ x.id # "pin"
    /\ x.digits = "pin" /\ x.method \in Gathers => x.sensitive
    /\ x.transport = "http" =>
          IF x.refused THEN x.stage = "answered" /\ Agree(x.answer, x.twin, x.needsReceiver)
                       ELSE x.twin = "ok" /\ ~x.needsReceiver

ExchangeOK ==
    \/ exchange = Idle
    \/ "twin" \notin DOMAIN exchange /\ IsPromise(exchange) /\ PromiseKept(exchange)
    \/ "twin" \notin DOMAIN exchange /\ IsAnswer(exchange) /\ exchange.logged \cap Secret = {}
    \/ "twin" \in DOMAIN exchange /\ IsCommand(exchange) /\ CommandKept(exchange)
        /\ exchange.logged \cap Secret = {}

PlaneInv ==
    /\ phase \in {"running", "draining", "stopping"}
    /\ config \in Configs
    /\ DOMAIN routes \subseteq Conns
    /\ ExchangeOK

(* An answer without secrets is a good exchange, and so is no exchange.      *)
LEMMA AnsweredIsOK ==
    ASSUME NEW transport, NEW method, NEW answer, NEW atoms, atoms \cap Secret = {},
           \/ exchange' = Logged(Answered(transport, method, answer), atoms)
           \/ exchange' = Answered(transport, method, answer)
           \/ exchange' = Idle
    PROVE  ExchangeOK'
<1>1. CASE exchange' = Idle
  BY <1>1 DEF ExchangeOK, Idle
<1>2. CASE exchange' \in {Answered(transport, method, answer),
                          Logged(Answered(transport, method, answer), atoms)}
  <2>1. PICK log \in {{}, {} \union atoms} :
            exchange' = [stage |-> "answered", transport |-> transport, method |-> method,
                         answer |-> answer, logged |-> log]
    BY <1>2 DEF Logged, Answered
  <2>2. log \cap Secret = {}
    OBVIOUS
  <2>3. "twin" \notin DOMAIN exchange' /\ IsAnswer(exchange') /\ exchange'.logged = log
    BY <2>1 DEF IsAnswer
  <2>4. QED
    BY <2>2, <2>3 DEF ExchangeOK
<1>3. QED
  BY <1>1, <1>2

(* An exchange left alone stays good, whatever becomes of the routes.        *)
LEMMA UntouchedIsOK ==
    ASSUME ExchangeOK, UNCHANGED <<exchange, config>>
    PROVE  ExchangeOK'
<1>1. PromiseKept(exchange) => PromiseKept(exchange)'
  BY DEF PromiseKept
<1>2. CASE exchange = Idle
  BY <1>2 DEF ExchangeOK, Idle
<1>3. CASE exchange # Idle
  BY <1>1, <1>3 DEF ExchangeOK
<1>4. QED
  BY <1>2, <1>3

(* What of the record of a command its two outcomes share. *)
Fresh(x, transport, id, method, params, twin) ==
    /\ DOMAIN x = CommandFields
    /\ x.stage = "running" /\ x.transport = transport /\ x.id = id /\ x.method = method
    /\ x.twin = twin /\ x.logged = {}
    /\ x.refused = FALSE
    /\ x.existing = IsExistingWork(method, params)
    /\ x.needsReceiver = NeedsReceiver(method, params) /\ x.needsReceiver \in BOOLEAN
    /\ x.sensitive = isSensitiveControlRequest(method, params) /\ x.sensitive \in BOOLEAN
    /\ x.digits = "pin" /\ method \in Gathers => x.sensitive

LEMMA CommandIsFresh ==
    ASSUME NEW transport, NEW id, NEW method, NEW params, NEW twin,
           NEW x, x = Command(transport, id, method, params, twin)
    PROVE  Fresh(x, transport, id, method, params, twin)
<1>1. /\ DOMAIN x = CommandFields
      /\ x.stage = "running" /\ x.transport = transport /\ x.id = id /\ x.method = method
      /\ x.twin = twin /\ x.logged = {}
      /\ x.digits = IF Value(params, "sensitive") = "true" THEN "pin" ELSE "any digits"
  BY DEF Command, CommandFields
<1>2. x.refused = FALSE
  BY DEF Command
<1>3. x.existing = IsExistingWork(method, params)
  BY DEF Command
<1>4. x.sensitive = isSensitiveControlRequest(method, params)
  BY DEF Command
<1>5. x.needsReceiver = NeedsReceiver(method, params)
  BY DEF Command
<1>6. /\ isSensitiveControlRequest(method, params) \in BOOLEAN
      /\ NeedsReceiver(method, params) \in BOOLEAN
      /\ Value(params, "sensitive") = "true" /\ method \in Gathers
            => isSensitiveControlRequest(method, params)
  BY DEF isSensitiveControlRequest, Value, Gathers, NeedsReceiver
<1>7. QED
  BY <1>1, <1>2, <1>3, <1>4, <1>5, <1>6 DEF Fresh

(* A command as it stands when it begins. *)
LEMMA CommandIsOK ==
    ASSUME NEW transport, NEW id, id # "pin", NEW method, NEW params, NEW twin, NEW log,
           log \cap Secret = {},
           transport = "http" => twin = "ok" /\ ~NeedsReceiver(method, params),
           exchange' = [Command(transport, id, method, params, twin) EXCEPT !.logged = log]
    PROVE  ExchangeOK'
<1>x. PICK x : x = Command(transport, id, method, params, twin)
  OBVIOUS
<1> DEFINE y == [x EXCEPT !.logged = log]
<1>1. Fresh(x, transport, id, method, params, twin)
  BY <1>x, CommandIsFresh
<1>2. /\ DOMAIN y = CommandFields /\ y.stage = "running" /\ y.logged = log
      /\ y.refused = FALSE /\ y.transport = transport /\ y.id = id /\ y.method = method
      /\ y.twin = twin /\ y.needsReceiver = x.needsReceiver
      /\ y.sensitive = x.sensitive /\ y.digits = x.digits
  BY <1>1 DEF CommandFields, Fresh
<1> HIDE DEF y
<1>3. "twin" \in DOMAIN y /\ IsCommand(y)
  BY <1>2 DEF IsCommand, CommandFields
<1>4. CommandKept(y)
  BY <1>1, <1>2 DEF CommandKept, Fresh
<1>5. QED
  BY <1>x, <1>2, <1>3, <1>4 DEF ExchangeOK, y

(* A command as it stands when it is refused. *)
LEMMA RefusedCommandIsOK ==
    ASSUME NEW transport, NEW id, id # "pin", NEW method, NEW params, NEW twin, NEW log,
           log \cap Secret = {}, NEW answer,
           transport = "http" => Agree(answer, twin, NeedsReceiver(method, params)),
           exchange' = [Command(transport, id, method, params, twin) EXCEPT
                            !.stage = "answered", !.refused = TRUE, !.answer = answer,
                            !.logged = log]
    PROVE  ExchangeOK'
<1>x. PICK x : x = Command(transport, id, method, params, twin)
  OBVIOUS
<1> DEFINE y == [x EXCEPT !.stage = "answered", !.refused = TRUE, !.answer = answer,
                          !.logged = log]
<1>1. Fresh(x, transport, id, method, params, twin)
  BY <1>x, CommandIsFresh
<1>2. /\ DOMAIN y = CommandFields /\ y.stage = "answered" /\ y.logged = log
      /\ y.answer = answer /\ y.refused = TRUE
      /\ y.transport = transport /\ y.id = id /\ y.method = method /\ y.twin = twin
      /\ y.needsReceiver = x.needsReceiver
      /\ y.sensitive = x.sensitive /\ y.digits = x.digits
  BY <1>1 DEF CommandFields, Fresh
<1> HIDE DEF y
<1>3. "twin" \in DOMAIN y /\ IsCommand(y)
  BY <1>2 DEF IsCommand, CommandFields
<1>4. CommandKept(y)
  BY <1>1, <1>2 DEF CommandKept, Fresh
<1>5. QED
  BY <1>x, <1>2, <1>3, <1>4 DEF ExchangeOK, y

(* No answer to a request shows a secret, if its result protects its digits.  *)
LEMMA AnswersHideSecrets ==
    ASSUME NEW x, x.transport # "http" => x.id # "pin" /\ x.sensitive \in BOOLEAN,
           NEW error, NEW result, Protects(result, x.sensitive)
    PROVE  AnswerLog(x, error, result) \cap Secret = {}
<1>1. CASE x.transport = "http"
  <2>1. AnswerLog(x, error, result) = {}
    BY <1>1 DEF AnswerLog
  <2>2. QED
    BY <2>1
<1>2. CASE x.transport # "http"
  <2>1. \A kind : scrubControlResponse(x.id, x.method, x.sensitive, result, kind) \cap Secret = {}
    BY <1>2, ResponseHidesSecrets
  <2>2. scrubControlError \cap Secret = {}
    BY DEF scrubControlError, Secret
  <2>3. QED
    BY <1>2, <2>1, <2>2 DEF AnswerLog
<1>3. QED
  BY <1>1, <1>2

LEMMA NothingToProtect ==
    ASSUME NEW sensitive
    PROVE  Protects(NoObject, sensitive) /\ Protects([routes |-> "list"], sensitive)
  BY DEF Protects, NoObject

(* So a command that begins is a good exchange, whether it runs or not. *)
LEMMA BegunIsOK ==
    ASSUME NEW transport, NEW id, id # "pin", NEW method, NEW params, NEW twin, NEW log,
           log \cap Secret = {}, NEW error,
           transport = "http" =>
              IF error = "none" THEN twin = "ok" /\ ~NeedsReceiver(method, params)
              ELSE Agree(HttpStatus(error), twin, NeedsReceiver(method, params)),
           Begin([Command(transport, id, method, params, twin) EXCEPT !.logged = log], error)
    PROVE  ExchangeOK'
<1>1. CASE error = "none"
  <2>1. exchange' = [Command(transport, id, method, params, twin) EXCEPT !.logged = log]
    BY <1>1 DEF Begin
  <2>2. transport = "http" => twin = "ok" /\ ~NeedsReceiver(method, params)
    BY <1>1
  <2>3. QED
    BY <2>1, <2>2, CommandIsOK
<1>2. CASE error # "none"
  <2>x. PICK x : x = Command(transport, id, method, params, twin)
    OBVIOUS
  <2> DEFINE y == [x EXCEPT !.logged = log]
             all == log \union AnswerLog(y, error, NoObject)
  <2>1. Fresh(x, transport, id, method, params, twin)
    BY <2>x, CommandIsFresh
  <2>2. /\ y.transport = transport /\ y.id = id /\ y.sensitive = x.sensitive /\ y.logged = log
        /\ DOMAIN y = CommandFields
    BY <2>1 DEF Fresh, CommandFields
  <2>3. exchange' = [y EXCEPT !.stage = "answered", !.refused = TRUE,
                        !.answer = Answer(transport, error), !.logged = all]
    BY <1>2, <2>x, <2>2 DEF Begin
  <2>4. exchange' = [x EXCEPT !.stage = "answered", !.refused = TRUE,
                        !.answer = Answer(transport, error), !.logged = all]
    BY <2>1, <2>3 DEF Fresh, CommandFields
  <2>5. all \cap Secret = {}
    <3>1. y.id # "pin" /\ y.sensitive \in BOOLEAN
      BY <2>1, <2>2 DEF Fresh
    <3> HIDE DEF y
    <3>2. AnswerLog(y, error, NoObject) \cap Secret = {}
      BY <3>1, NothingToProtect, AnswersHideSecrets
    <3>3. QED
      BY <3>2
  <2>6. transport = "http" =>
            Agree(Answer(transport, error), twin, NeedsReceiver(method, params))
    BY <1>2 DEF Answer
  <2> HIDE DEF all
  <2>7. exchange' = [Command(transport, id, method, params, twin) EXCEPT !.stage = "answered",
                        !.refused = TRUE, !.answer = Answer(transport, error), !.logged = all]
    BY <2>x, <2>4
  <2>8. QED
    BY <2>5, <2>6, <2>7, RefusedCommandIsOK
<1>3. QED
  BY <1>1, <1>2

-----------------------------------------------------------------------------
(* Lookups. *)

LEMMA AcceptedLookup ==
    ASSUME NEW uri, NEW user
    PROVE  lookup(uri, user).acceptNew
              <=> /\ acceptsSipHost(uri, config.domains) /\ Routed([uri |-> uri, user |-> user])
                  /\ admitting /\ config.tag
  BY DEF lookup

LEMMA RouteOfDrachtio ==
    ASSUME NEW uri, NEW user
    PROVE  drachtioRoute(uri, user) = "route"
              <=> /\ acceptsSipHost(uri, config.domains) /\ Routed([uri |-> uri, user |-> user])
                  /\ admitting
<1>1. lookup(uri, user).matched
        <=> acceptsSipHost(uri, config.domains) /\ Routed([uri |-> uri, user |-> user])
  BY DEF lookup
<1>2. QED
  BY <1>1 DEF drachtioRoute

(* A promise is one that is kept. *)
LEMMA PromisedIsOK ==
    ASSUME NEW uri, NEW user, IsSequence(uri), acceptsSipHost(uri, config.domains),
           exchange' = Promised(uri, user), UNCHANGED world
    PROVE  ExchangeOK'
<1> DEFINE by == {r \in Registered : Matches(r, [uri |-> uri, user |-> user])}
<1>1. exchange' = [stage |-> "promised", uri |-> uri, user |-> user, by |-> by]
  BY DEF Promised
<1>2. \A r \in by : Matches(r, [uri |-> uri, user |-> user])
  OBVIOUS
<1> HIDE DEF by
<1>3. /\ exchange'.uri = uri /\ exchange'.user = user /\ exchange'.by = by
      /\ IsPromise(exchange') /\ "twin" \notin DOMAIN exchange'
  BY <1>1 DEF IsPromise
<1>4. config' = config
  BY DEF world
<1>5. PromiseKept(exchange)'
  BY <1>2, <1>3, <1>4 DEF PromiseKept
<1>6. QED
  BY <1>3, <1>5 DEF ExchangeOK

LEMMA RoutingLookupIsOK ==
    ASSUME NEW uri \in Targets, NEW given, NEW authorized, PlaneInv,
           RoutingLookup(uri, given, authorized)
    PROVE  ExchangeOK'
<1> DEFINE user == UserOf(uri, given)
<1> HIDE DEF user
<1>1. \/ \E answer : exchange' = Answered("http", "lookup", answer)
      \/ lookup(uri, user).acceptNew /\ exchange' = Promised(uri, user)
  BY DEF RoutingLookup, Guarded, user
<1>2. IsSequence(uri)
  BY PlaneAssumption
<1>3. UNCHANGED world
  BY DEF RoutingLookup
<1>4. CASE \E answer : exchange' = Answered("http", "lookup", answer)
  <2>1. PICK answer : exchange' = Answered("http", "lookup", answer)
    BY <1>4
  <2>2. {} \cap Secret = {}
    OBVIOUS
  <2>3. QED
    BY <2>1, <2>2, AnsweredIsOK
<1>5. CASE lookup(uri, user).acceptNew /\ exchange' = Promised(uri, user)
  BY <1>2, <1>3, <1>5, AcceptedLookup, PromisedIsOK
<1>6. QED
  BY <1>1, <1>4, <1>5

LEMMA DrachtioRouteIsOK ==
    ASSUME NEW uri, IsSequence(uri), NEW given, PlaneInv, DrachtioRoute(uri, given)
    PROVE  ExchangeOK'
<1> DEFINE user == UserOf(uri, given)
<1> HIDE DEF user
<1>1. \/ \E answer : exchange' = Answered("http", "route", answer)
      \/ drachtioRoute(uri, user) = "route" /\ exchange' = Promised(uri, user)
  BY DEF DrachtioRoute, user
<1>2. UNCHANGED world
  BY DEF DrachtioRoute
<1>3. CASE \E answer : exchange' = Answered("http", "route", answer)
  <2>1. PICK answer : exchange' = Answered("http", "route", answer)
    BY <1>3
  <2>2. {} \cap Secret = {}
    OBVIOUS
  <2>3. QED
    BY <2>1, <2>2, AnsweredIsOK
<1>4. CASE drachtioRoute(uri, user) = "route" /\ exchange' = Promised(uri, user)
  BY <1>2, <1>4, RouteOfDrachtio, PromisedIsOK
<1>5. QED
  BY <1>1, <1>3, <1>4

(* What a lookup builds of a user and a domain is a sequence, too. *)
LEMMA SequencesHaveARange ==
    ASSUME NEW T, NEW s \in Seq(T)
    PROVE  IsSequence(s)
<1>1. Len(s) \in Nat /\ DOMAIN s = 1..Len(s) /\ s = [i \in 1..Len(s) |-> s[i]]
  OBVIOUS
<1>2. \A i \in 1..Len(s) : s[i] \in Range(s)
  BY <1>1 DEF Range
<1>3. QED
  BY <1>1, <1>2 DEF IsSequence

LEMMA BuiltUriIsASequence ==
    ASSUME NEW user \in Users, NEW domain \in Domains
    PROVE  IsSequence(buildSipUri(user, domain))
<1> DEFINE T == Range(user) \union Range(domain) \union {SipScheme, At}
<1>1. user \in Seq(Range(user)) /\ domain \in Seq(Range(domain))
  BY PlaneAssumption DEF IsSequence
<1>2. \A s, S : s \in Seq(S) /\ S \subseteq T => s \in Seq(T)
  OBVIOUS
<1>3. /\ user \in Seq(T) /\ domain \in Seq(T) /\ SipScheme \in T /\ At \in T
  BY <1>1, <1>2
<1> HIDE DEF T
<1>4. buildSipUri(user, domain) \in Seq(T)
  BY <1>3 DEF buildSipUri
<1>5. QED
  BY <1>4, SequencesHaveARange

-----------------------------------------------------------------------------
(* Messages. *)

(* Values an application sends hold no protected digits. *)
LEMMA KindsProtect ==
    ASSUME NEW body, body \in [DOMAIN body -> Kinds]
    PROVE  \A sensitive : Protects(body, sensitive)
<1>1. "pin" \notin Kinds
  BY DEF Kinds, Texts, PositiveIntegers, IntegerKinds, Missing
<1>2. QED
  BY <1>1 DEF Protects

(* The parameters of a command hold none. *)
LEMMA ParametersHideSecrets ==
    ASSUME NEW id \in Ids, NEW method \in Methods, NEW params \in Bodies(method)
    PROVE  /\ id # "pin"
           /\ (logContext(id, method) \union scrubControlRequest(id, method, params))
                    \cap Secret = {}
<1>1. params \in [DOMAIN params -> Kinds]
  BY BodiesAssumption
<1>2. id # "pin"
  BY PlaneAssumption DEF Texts
<1>3. scrubControlRequest(id, method, params) \cap Secret = {}
  BY <1>1, <1>2, KindsProtect, RequestHidesSecrets
<1>4. logContext(id, method) \cap Secret = {}
  BY DEF logContext, Secret
<1>5. QED
  BY <1>2, <1>3, <1>4

LEMMA ReceiveOtherIsOK ==
    ASSUME NEW c, NEW type, NEW name, NEW message \in Messages, ReceiveOther(c, type, name, message)
    PROVE  ExchangeOK'
<1> DEFINE kind == IF message.ok = "true" THEN "none" ELSE "foreign error"
           response == scrubControlResponse(message.id, NoMethod, TRUE, message, kind)
           event == scrubControlEvent(name, "dtmf", message)
<1>1. \A sensitive : Protects(message, sensitive)
  BY PlaneAssumption, KindsProtect
<1>2. CASE parseControlMessage(type, message) = "response"
  <2>1. Fits(message, parseControlResponse)
    BY <1>2 DEF parseControlMessage
  <2>2. Value(message, "id") \in Texts
    BY <2>1 DEF Fits, parseControlResponse
  <2>3. message.id # "pin"
    BY <2>2 DEF Value, Texts
  <2>4. response \cap Secret = {}
    BY <1>1, <2>3, ResponseHidesSecrets
  <2>5. exchange' = Logged(Answered(c, "response", "nothing"), response)
    BY <1>2 DEF ReceiveOther
  <2> HIDE DEF response
  <2>6. QED
    BY <2>4, <2>5, AnsweredIsOK
<1>3. CASE parseControlMessage(type, message) = "event"
  <2>1. event \cap Secret = {}
    BY <1>1, ControlEventHidesSecrets
  <2>2. exchange' = Logged(Answered(c, "event", "nothing"), event)
    BY <1>3 DEF ReceiveOther
  <2> HIDE DEF event
  <2>3. QED
    BY <2>1, <2>2, AnsweredIsOK
<1>4. CASE parseControlMessage(type, message) \notin {"response", "event"}
  <2>1. exchange' = Answered(c, "unparsed", "BAD_MESSAGE")
    BY <1>4 DEF ReceiveOther
  <2>2. {} \cap Secret = {}
    OBVIOUS
  <2>3. QED
    BY <2>1, <2>2, AnsweredIsOK
<1>5. QED
  BY <1>2, <1>3, <1>4

(* A body full of digits has protected ones in its fields of digits only.     *)
LEMMA TellingBodyProtects ==
    ASSUME NEW fields, NEW digit, NEW sensitive \in BOOLEAN, digit = "pin" => sensitive
    PROVE  Protects(TellingBody(fields, digit), sensitive)
<1> SUFFICES ASSUME NEW f \in DOMAIN TellingBody(fields, digit),
                    TellingBody(fields, digit)[f] = "pin"
             PROVE  f \in {"digit", "digits"} /\ sensitive
  BY DEF Protects
<1>1. f \in {"digit", "digits"}
  BY DEF TellingBody
<1>2. /\ f \notin Sdps /\ f \notin Locations /\ f \notin Uris /\ f \notin Paths
      /\ f \notin {"headers", "direction"}
  BY <1>1 DEF Sdps, Locations, Uris, Paths
<1>3. TellingBody(fields, digit)[f] = digit
  BY <1>1, <1>2 DEF TellingBody
<1>4. QED
  BY <1>1, <1>3

LEMMA LoggedMessageIsOK ==
    ASSUME NEW peer, NEW method, NEW atoms, atoms \cap Secret = {}, Message(peer, method, atoms)
    PROVE  ExchangeOK'
  BY AnsweredIsOK DEF Message

LEMMA RtpbridgeEventIsOK ==
    ASSUME NEW event, NEW data, Protects(data, event = "dtmf" /\ eventIsSensitiveDtmf(data)),
           RtpbridgeEvent(event, data)
    PROVE  ExchangeOK'
<1>1. scrubRtpbridgeEvent(event, data) \cap Secret = {}
  BY RtpbridgeEventHidesSecrets
<1>2. scrubControlEvent("media.rtpbridge", event, data) \cap Secret = {}
  BY ControlEventHidesSecrets
<1>3. QED
  BY <1>1, <1>2, LoggedMessageIsOK DEF RtpbridgeEvent

LEMMA DtmfEventIsOK ==
    ASSUME NEW flag \in {"true", "false", "absent"}, DtmfEvent(flag)
    PROVE  ExchangeOK'
<1>1. PICK digit \in Entered(IF flag = "false" THEN "any digits" ELSE "pin") :
        RtpbridgeEvent("dtmf", [endpointId |-> "card", digit |-> digit, sensitive |-> flag])
  BY DEF DtmfEvent
<1> DEFINE data == [endpointId |-> "card", digit |-> digit, sensitive |-> flag]
<1>2. digit = "pin" => flag # "false"
  BY DEF Entered
<1>3. Protects(data, "dtmf" = "dtmf" /\ eventIsSensitiveDtmf(data))
  <2>1. /\ DOMAIN data = {"endpointId", "digit", "sensitive"}
        /\ data.endpointId = "card" /\ data.digit = digit /\ data.sensitive = flag
    OBVIOUS
  <2> HIDE DEF data
  <2>2. digit = "pin" => eventIsSensitiveDtmf(data)
    BY <1>2, <2>1 DEF eventIsSensitiveDtmf
  <2>3. QED
    BY <2>1, <2>2 DEF Protects
<1> HIDE DEF data
<1>4. QED
  BY <1>1, <1>3, RtpbridgeEventIsOK DEF data

LEMMA OtherRtpbridgeEventIsOK ==
    ASSUME NEW event, OtherRtpbridgeEvent(event)
    PROVE  ExchangeOK'
<1> DEFINE data == TellingBody(rtpbridgeEventFields(event), "card")
           sensitive == event = "dtmf" /\ eventIsSensitiveDtmf(data)
<1>1. sensitive \in BOOLEAN
  BY DEF eventIsSensitiveDtmf
<1> HIDE DEF sensitive
<1>2. Protects(data, sensitive)
  BY <1>1, TellingBodyProtects
<1>3. RtpbridgeEvent(event, data)
  BY DEF OtherRtpbridgeEvent
<1>4. QED
  BY <1>2, <1>3, RtpbridgeEventIsOK DEF sensitive

LEMMA OwnerRequestIsOK ==
    ASSUME NEW c, NEW method, NEW error, OwnerRequest(c, method, error)
    PROVE  ExchangeOK'
<1> DEFINE params == TellingBody(requestFields(method), "card")
           sensitive == isSensitiveControlRequest(method, params)
           result == TellingBody(CommonResponseFields, "digits")
<1>1. sensitive \in BOOLEAN
  BY DEF isSensitiveControlRequest
<1>2. Message(c, method, scrubControlRequest("card", method, params)
                \union scrubControlResponse("card", method, FALSE, result, error))
  BY DEF OwnerRequest
<1> HIDE DEF sensitive
<1>3. Protects(params, sensitive) /\ Protects(result, FALSE)
  BY <1>1, TellingBodyProtects
<1> HIDE DEF params, result
<1>4. scrubControlRequest("card", method, params) \cap Secret = {}
  BY <1>3, RequestHidesSecrets DEF sensitive
<1>5. scrubControlResponse("card", method, FALSE, result, error) \cap Secret = {}
  BY <1>3, ResponseHidesSecrets
<1>6. QED
  BY <1>2, <1>4, <1>5, LoggedMessageIsOK

LEMMA OwnerEventIsOK ==
    ASSUME NEW c, NEW event, OwnerEvent(c, event)
    PROVE  ExchangeOK'
<1> DEFINE data == TellingBody(eventFields(event), "card")
           name == IF event = "media.rtpbridge" THEN "none" ELSE event
           sensitive == name = "dtmf" /\ eventIsSensitiveDtmf(data)
<1>1. sensitive \in BOOLEAN
  BY DEF eventIsSensitiveDtmf
<1>2. Message(c, event, scrubControlEvent(event, "none", data))
  BY DEF OwnerEvent
<1> HIDE DEF sensitive
<1>3. Protects(data, sensitive)
  BY <1>1, TellingBodyProtects
<1> HIDE DEF data
<1>4. scrubControlEvent(event, "none", data) \cap Secret = {}
  BY <1>3, ControlEventHidesSecrets DEF sensitive
<1>5. QED
  BY <1>2, <1>4, LoggedMessageIsOK

LEMMA RtpbridgeRequestIsOK ==
    ASSUME NEW method, NEW error, RtpbridgeRequest(method, error)
    PROVE  ExchangeOK'
<1> DEFINE params == TellingBody(rtpbridgeRequestFields(method), "pin")
           result == TellingBody(rtpbridgeResponseFields(method), "pin")
<1>1. Protects(params, TRUE) /\ Protects(result, TRUE)
  BY TellingBodyProtects
<1>2. Message("rtpbridge", method, scrubRtpbridgeRequest("card", method, params)
                \union scrubRtpbridgeResponse("card", method, result, error))
  BY DEF RtpbridgeRequest
<1> HIDE DEF params, result
<1>3. /\ scrubKnownObject(params, rtpbridgeRequestFields(method), TRUE) \cap Secret = {}
      /\ scrubKnownObject(result, rtpbridgeResponseFields(method), TRUE) \cap Secret = {}
  BY <1>1, MessageHidesSecrets
<1>4. scrubRtpbridgeRequest("card", method, params) \cap Secret = {}
  BY <1>3, NamesHideSecrets, IdentifiersHideSecrets DEF scrubRtpbridgeRequest
<1>5. scrubRtpbridgeResponse("card", method, result, error) \cap Secret = {}
  BY <1>3, NamesHideSecrets, IdentifiersHideSecrets DEF scrubRtpbridgeResponse
<1>6. QED
  BY <1>2, <1>4, <1>5, LoggedMessageIsOK

-----------------------------------------------------------------------------
(* Commands. *)

(* The id of the path is what a control connection would send in its place. *)
Sent(method, body) ==
    IF method \in BodyLess \union {"recording.list"} THEN HttpParams(method, body)
    ELSE [f \in DOMAIN body \union PathFields(method) |->
            IF f \in PathFields(method) THEN "text" ELSE body[f]]

LEMMA SentAsReceived ==
    ASSUME NEW method \in HttpCommands, NEW body \in Bodies(method)
    PROVE  Sent(method, body) = HttpParams(method, body)
<1>1. CASE method \in BodyLess \union {"recording.list"}
  BY <1>1 DEF Sent
<1>2. CASE method \notin BodyLess \union {"recording.list"} /\ PathFields(method) = {}
  <2>1. body \in [DOMAIN body -> Kinds]
    BY BodiesAssumption
  <2>2. HttpParams(method, body) = body
    BY <1>2 DEF HttpParams
  <2>3. Sent(method, body) = [f \in DOMAIN body |-> body[f]]
    BY <1>2 DEF Sent
  <2>4. QED
    BY <2>1, <2>2, <2>3
<1>3. CASE method \notin BodyLess \union {"recording.list"} /\ PathFields(method) # {}
  <2>1. HttpParams(method, body) =
            [f \in PathFields(method) \union DOMAIN body |->
                IF f \in PathFields(method) THEN Path(method)[f] ELSE body[f]]
    BY <1>3 DEF HttpParams
  <2>2. \A f \in PathFields(method) : Path(method)[f] = "text"
    BY DEF Path
  <2>3. Sent(method, body) = [f \in DOMAIN body \union PathFields(method) |->
                                IF f \in PathFields(method) THEN "text" ELSE body[f]]
    BY <1>3 DEF Sent
  <2>4. QED
    BY <2>1, <2>2, <2>3
<1>4. QED
  BY <1>1, <1>2, <1>3

(* /calls/:id/reinvite and /calls/:id/bye refuse what the commands refuse. *)
LEMMA CallRoutesCheckAlike ==
    ASSUME NEW method \in {"sip.reinvite", "sip.bye"}, NEW body \in Bodies(method)
    PROVE  HttpCheck(method, HttpParams(method, body))
              = Check(method, HttpParams(method, body), Now(FALSE))
<1> DEFINE params == HttpParams(method, body)
           at == Now(FALSE)
<1>1. /\ method \in BySession /\ method \notin ByEndpoint /\ method \notin BodyLess
      /\ method # "recording.list" /\ method \in HttpCommands
  BY DEF BySession, ByEndpoint, BodyLess, HttpCommands
<1>2. PathFields(method) = {"sessionId"}
  BY <1>1 DEF PathFields
<1>3. body \in [DOMAIN body -> Kinds]
  BY <1>1, BodiesAssumption
<1>4. /\ DOMAIN params = {"sessionId"} \union DOMAIN body
      /\ params["sessionId"] = "text"
      /\ \A f \in DOMAIN body : f # "sessionId" => params[f] = body[f]
  BY <1>1, <1>2 DEF HttpParams, Path
<1> HIDE DEF params
<1>5. Value(params, "reason") \in Kinds
  BY <1>3, <1>4 DEF Value, Kinds
<1>6. params # NoObject /\ params # NoParams
  BY <1>4 DEF NoObject, NoParams
<1>7. /\ method \in DOMAIN Commands /\ ~NeedsMedia(method)
      /\ method \notin PlainCommands /\ method \notin NotImplemented
  BY DEF Commands, SipMethods, NeedsMedia, PlainCommands, NotImplemented
<1>8. Commands[method] = SipCommands[method]
  BY DEF Commands, SipMethods, OfferMethods, MediaMethods, GatherMethods, RecordingMethods
<1>9. /\ method = "sip.reinvite" => Commands[method] =
            [sessionId |-> requiredString, sdp |-> requiredString, headers |-> parseOptionalHeaders]
      /\ method = "sip.bye" => Commands[method] =
            [sessionId |-> requiredString, reason |-> ignored, headers |-> parseOptionalHeaders]
  BY <1>8 DEF SipCommands, SipMethods
<1>10. \A f : f # "sessionId" => ~HasAlias(method, f)
  BY DEF HasAlias, Alias
<1>11. \A f : f # "sessionId" => Given(method, params, f) = Value(params, f)
  BY <1>10 DEF Given
<1>12. Accepts(method, "sessionId", params)
  <2>1. Value(params, "sessionId") = "text"
    BY <1>4 DEF Value
  <2>2. IsGiven(method, "text")
    BY DEF IsGiven, Texts
  <2>3. Given(method, params, "sessionId") = "text"
    BY <2>1, <2>2 DEF Given
  <2>4. QED
    BY <1>9, <2>3 DEF Accepts, requiredString, Texts
<1>13. method = "sip.bye" => Accepts(method, "reason", params)
  BY <1>5, <1>9, <1>11 DEF Accepts, ignored
<1>14. Accepts(method, "headers", params) <=> Value(params, "headers") \in parseOptionalHeaders
  BY <1>9, <1>11 DEF Accepts
<1>15. method = "sip.reinvite" =>
            (Accepts(method, "sdp", params) <=> Value(params, "sdp") \in Texts)
  BY <1>9, <1>11 DEF Accepts, requiredString
<1>16. Unchecked(method, at) = {} /\ CheckedFirst(method) = {}
  BY DEF Unchecked, CheckedFirst
<1>17. ~Invalid(method, params, {}) /\ ~BothSrtp(method, params)
  BY DEF Invalid, BothSrtp
<1>18. ~IsNewWork(method, params, at.call) /\ ~NeedsReceiver(method, params)
  BY DEF IsNewWork, NeedsReceiver
<1> DEFINE rest == DOMAIN Commands[method]
<1>19. /\ Invalid(method, params, rest \ {"headers"})
            <=> method = "sip.reinvite" /\ Value(params, "sdp") \notin Texts
       /\ Invalid(method, params, rest \cap {"headers"})
            <=> Value(params, "headers") \notin parseOptionalHeaders
  <2>1. CASE method = "sip.reinvite"
    <3>1. rest = {"sessionId", "sdp", "headers"}
      BY <1>9, <2>1
    <3>2. rest \ {"headers"} = {"sessionId", "sdp"} /\ rest \cap {"headers"} = {"headers"}
      BY <3>1
    <3>3. QED
      BY <1>12, <1>14, <1>15, <2>1, <3>2 DEF Invalid
  <2>2. CASE method = "sip.bye"
    <3>1. rest = {"sessionId", "reason", "headers"}
      BY <1>9, <2>2
    <3>2. rest \ {"headers"} = {"sessionId", "reason"} /\ rest \cap {"headers"} = {"headers"}
      BY <3>1
    <3>3. QED
      BY <1>12, <1>13, <1>14, <2>2, <3>2 DEF Invalid
  <2>3. QED
    BY <2>1, <2>2
<1>20. Check(method, params, at) =
        IF method = "sip.reinvite" /\ Value(params, "sdp") \notin Texts
        THEN "CommandValidationError"
        ELSE IF Value(params, "headers") \notin parseOptionalHeaders
        THEN "InvalidHttpActionError" ELSE "none"
  BY <1>6, <1>7, <1>16, <1>17, <1>18, <1>19 DEF Check
<1>21. QED
  BY <1>20 DEF HttpCheck, params

LEMMA HttpChecksAlike ==
    ASSUME NEW method \in HttpCommands, NEW body \in Bodies(method)
    PROVE  HttpCheck(method, HttpParams(method, body))
              = Check(method, HttpParams(method, body), Now(FALSE))
<1>1. CASE method \in {"sip.reinvite", "sip.bye"}
  BY <1>1, CallRoutesCheckAlike
<1>2. CASE method \notin {"sip.reinvite", "sip.bye"}
  BY <1>2 DEF HttpCheck
<1>3. QED
  BY <1>1, <1>2

LEMMA UnloggedCommand ==
    ASSUME NEW transport, NEW id, NEW method, NEW params, NEW twin
    PROVE  Command(transport, id, method, params, twin)
              = [Command(transport, id, method, params, twin) EXCEPT !.logged = {}]
<1>1. PICK x : x = Command(transport, id, method, params, twin)
  OBVIOUS
<1>2. Fresh(x, transport, id, method, params, twin)
  BY <1>1, CommandIsFresh
<1>3. x.logged = {} /\ "logged" \in DOMAIN x
  BY <1>2 DEF Fresh, CommandFields
<1>4. x = [f \in DOMAIN x |-> x[f]]
  BY <1>1, Zenon DEF Command
<1>5. x = [x EXCEPT !.logged = {}]
  BY <1>3, <1>4
<1>6. QED
  BY <1>1, <1>5

LEMMA LoggedCommand ==
    ASSUME NEW transport, NEW id, NEW method, NEW params, NEW twin, NEW atoms
    PROVE  Logged(Command(transport, id, method, params, twin), atoms)
              = [Command(transport, id, method, params, twin) EXCEPT !.logged = atoms]
<1>1. PICK x : x = Command(transport, id, method, params, twin)
  OBVIOUS
<1>2. Fresh(x, transport, id, method, params, twin)
  BY <1>1, CommandIsFresh
<1>3. x.logged = {} /\ "logged" \in DOMAIN x
  BY <1>2 DEF Fresh, CommandFields
<1>4. Logged(x, atoms) = [x EXCEPT !.logged = atoms]
  BY <1>3 DEF Logged
<1>5. QED
  BY <1>1, <1>4

(* The command HTTP makes of a body. *)
HttpTwin(method, params) == ControlCode(Check(method, params, Now(TRUE)))

(* What Begin makes of a command over HTTP. *)
LEMMA HttpCommandBegins ==
    ASSUME NEW method \in HttpCommands, NEW body \in Bodies(method), NEW authorized,
           ReceiveHttp(method, body, authorized)
    PROVE  \/ \E answer : exchange' = Answered("http", method, answer)
                /\ (answer \in {"SHUTTING_DOWN", "503 SHUTTING_DOWN"} => isStopping)
           \/ LET params == HttpParams(method, body)
              IN  Begin(Command("http", "none", method, params, HttpTwin(method, params)),
                        Check(method, params, Now(FALSE)))
<1> DEFINE params == HttpParams(method, body)
           error == Check(method, params, Now(FALSE))
           twin == ControlCode(Check(method, Sent(method, body), Now(TRUE)))
<1>1. Guarded(authorized, method,
              Begin(Command("http", "none", method, params, twin), HttpCheck(method, params)))
  BY DEF ReceiveHttp, Sent
<1>2. HttpCheck(method, params) = error
  BY HttpChecksAlike
<1>3. twin = HttpTwin(method, params)
  BY SentAsReceived DEF HttpTwin
<1> HIDE DEF params, error, twin
<1>4. \/ exchange' = Answered("http", method, "503 SHUTTING_DOWN") /\ isStopping
      \/ exchange' = Answered("http", method, "401")
      \/ Begin(Command("http", "none", method, params, HttpTwin(method, params)), error)
  BY <1>1, <1>2, <1>3, Zenon DEF Guarded
<1>5. "401" \notin {"SHUTTING_DOWN", "503 SHUTTING_DOWN"}
  OBVIOUS
<1>6. QED
  BY <1>4, <1>5, Zenon DEF params, error

LEMMA ReceiveHttpIsOK ==
    ASSUME NEW method \in HttpCommands, NEW body \in Bodies(method), NEW authorized,
           ReceiveHttp(method, body, authorized)
    PROVE  ExchangeOK'
<1> DEFINE params == HttpParams(method, body)
           error == Check(method, params, Now(FALSE))
           twin == HttpTwin(method, params)
<1>1. CASE \E answer : exchange' = Answered("http", method, answer)
  <2>1. PICK answer : exchange' = Answered("http", method, answer)
    BY <1>1
  <2>2. {} \cap Secret = {}
    OBVIOUS
  <2>3. QED
    BY <2>1, <2>2, AnsweredIsOK
<1>2. CASE Begin(Command("http", "none", method, params, twin), error)
  <2> HIDE DEF params
  <2>1. IF error = "none" THEN twin = "ok" /\ ~NeedsReceiver(method, params)
        ELSE Agree(HttpStatus(error), twin, NeedsReceiver(method, params))
    BY TwinsAgree DEF HttpTwin
  <2> HIDE DEF error, twin
  <2>2. Begin([Command("http", "none", method, params, twin) EXCEPT !.logged = {}], error)
    <3>1. Command("http", "none", method, params, twin)
            = [Command("http", "none", method, params, twin) EXCEPT !.logged = {}]
      BY UnloggedCommand
    <3>2. QED
      BY <1>2, <3>1, Zenon
  <2>3. {} \cap Secret = {} /\ "none" # "pin"
    OBVIOUS
  <2>4. QED
    BY <2>1, <2>2, <2>3, BegunIsOK
<1>3. QED
  BY <1>1, <1>2, HttpCommandBegins

(* What is logged of a request of a control connection. *)
RequestLog(id, method, params) ==
    logContext(id, method) \union scrubControlRequest(id, method, params)

(* What Begin makes of one. *)
LEMMA ControlCommandBegins ==
    ASSUME NEW c, NEW id, NEW method, NEW params, ReceiveControl(c, id, method, params)
    PROVE  LET error == IF isStopping THEN "GatewayDrainingError"
                        ELSE Check(method, params, Now(TRUE))
           IN  Begin([Command(c, id, method, params, "ok") EXCEPT
                        !.logged = RequestLog(id, method, params)], error)
<1> DEFINE error == IF isStopping THEN "GatewayDrainingError" ELSE Check(method, params, Now(TRUE))
           log == RequestLog(id, method, params)
<1>1. Logged(Command(c, id, method, params, "ok"), log)
        = [Command(c, id, method, params, "ok") EXCEPT !.logged = log]
  BY LoggedCommand
<1>2. Begin(Logged(Command(c, id, method, params, "ok"), log), error)
  BY DEF ReceiveControl, RequestLog
<1> HIDE DEF error, log
<1>3. Begin([Command(c, id, method, params, "ok") EXCEPT !.logged = log], error)
  BY <1>1, <1>2, Zenon
<1>4. QED
  BY <1>3 DEF error, log

LEMMA ReceiveControlIsOK ==
    ASSUME NEW c, NEW id \in Ids, NEW method \in Methods, NEW params \in Bodies(method),
           PlaneInv, ReceiveControl(c, id, method, params)
    PROVE  ExchangeOK'
<1> DEFINE error == IF isStopping THEN "GatewayDrainingError" ELSE Check(method, params, Now(TRUE))
           log == RequestLog(id, method, params)
<1>1. Begin([Command(c, id, method, params, "ok") EXCEPT !.logged = log], error)
  BY ControlCommandBegins
<1>2. id # "pin" /\ log \cap Secret = {}
  BY ParametersHideSecrets DEF RequestLog
<1>3. c # "http"
  BY PlaneAssumption DEF PlaneInv, ReceiveControl
<1> HIDE DEF error, log
<1>4. QED
  BY <1>1, <1>2, <1>3, BegunIsOK

(* A registration is an exchange of its own, or no matter of the one there is. *)
RegistrationLog(c, id, error) ==
    LET params == [routes |-> "list"]
    IN  RequestLog(id, "route.register", params)
        \union AnswerLog(Command(c, id, "route.register", params, "ok"), error, params)

LEMMA WhatRegistrationDoes ==
    ASSUME NEW c, NEW id, NEW list, RegisterRoutes(c, id, list)
    PROVE  \/ exchange # Idle /\ exchange' = exchange
           \/ \E error, answer :
                exchange' = [Command(c, id, "route.register", [routes |-> "list"], "ok") EXCEPT
                                !.stage = "answered", !.answer = answer,
                                !.logged = RegistrationLog(c, id, error)]
  BY DEF RegisterRoutes, RegistrationLog, RequestLog

LEMMA RegisterRoutesIsOK ==
    ASSUME NEW c, NEW id \in Ids, NEW list, PlaneInv, RegisterRoutes(c, id, list)
    PROVE  ExchangeOK'
<1>1. CASE exchange' = exchange
  BY <1>1, UntouchedIsOK DEF PlaneInv, RegisterRoutes
<1>2. ASSUME NEW error, NEW answer,
             exchange' = [Command(c, id, "route.register", [routes |-> "list"], "ok") EXCEPT
                            !.stage = "answered", !.answer = answer,
                            !.logged = RegistrationLog(c, id, error)]
      PROVE  ExchangeOK'
  <2> DEFINE body == [routes |-> "list"]
             log == RegistrationLog(c, id, error)
  <2>1. c # "http"
    BY PlaneAssumption DEF PlaneInv, RegisterRoutes
  <2>2. id # "pin"
    BY PlaneAssumption DEF Texts
  <2>x. PICK x : x = Command(c, id, "route.register", body, "ok")
    OBVIOUS
  <2> DEFINE y == [x EXCEPT !.stage = "answered", !.answer = answer, !.logged = log]
  <2>3. Fresh(x, c, id, "route.register", body, "ok")
    BY <2>x, CommandIsFresh
  <2>4. log \cap Secret = {}
    <3>1. \A sensitive : Protects(body, sensitive)
      BY NothingToProtect
    <3>2. scrubControlRequest(id, "route.register", body) \cap Secret = {}
      BY <2>2, <3>1, RequestHidesSecrets
    <3>3. logContext(id, "route.register") \cap Secret = {}
      BY DEF logContext, Secret
    <3>4. AnswerLog(x, error, body) \cap Secret = {}
      <4>1. x.id # "pin" /\ x.sensitive \in BOOLEAN
        BY <2>2, <2>3 DEF Fresh
      <4>2. QED
        BY <3>1, <4>1, AnswersHideSecrets
    <3>5. QED
      BY <2>x, <3>2, <3>3, <3>4 DEF RegistrationLog, RequestLog
  <2> HIDE DEF log, body
  <2>5. /\ DOMAIN y = CommandFields /\ y.stage = "answered" /\ y.logged = log
        /\ y.refused = FALSE /\ y.id = id /\ y.needsReceiver = x.needsReceiver
        /\ y.transport = c /\ y.method = "route.register" /\ y.sensitive = x.sensitive
    BY <2>3 DEF CommandFields, Fresh
  <2>6. exchange' = y
    BY <1>2, <2>x DEF log, body
  <2> HIDE DEF y
  <2>7. "twin" \in DOMAIN y /\ IsCommand(y)
    BY <2>5 DEF IsCommand, CommandFields
  <2>8. CommandKept(y)
    BY <2>1, <2>2, <2>3, <2>5 DEF CommandKept, Fresh, Gathers
  <2>9. QED
    BY <2>4, <2>5, <2>6, <2>7, <2>8 DEF ExchangeOK
<1>3. QED
  BY <1>1, <1>2, WhatRegistrationDoes

(* A result holds protected digits only where its command asked for them. *)
LEMMA ResultProtects ==
    ASSUME NEW method, NEW digits, NEW sensitive,
           digits = "pin" /\ method \in Gathers => sensitive
    PROVE  Protects(Result(method, digits), sensitive)
  BY DEF Protects, Result, Gathers

LEMMA DoneIsOK ==
    ASSUME NEW error, PlaneInv, Done(error)
    PROVE  ExchangeOK'
<1>x. PICK x : x = exchange
  OBVIOUS
<1> DEFINE answer == Answer(x.transport, error)
           y == [x EXCEPT !.stage = "answered", !.answer = answer]
<1>1. x.stage = "running"
  BY <1>x DEF Done
<1>2. "twin" \in DOMAIN x /\ IsCommand(x) /\ CommandKept(x) /\ x.logged \cap Secret = {}
  BY <1>x, <1>1 DEF PlaneInv, ExchangeOK, Idle, IsPromise, IsAnswer
<1>3. PICK digits \in Entered(x.digits) :
        \/ exchange' = Logged(y, AnswerLog(x, error, Result(x.method, digits)))
        \/ exchange' = Idle
  BY <1>x DEF Done
<1> DEFINE atoms == AnswerLog(x, error, Result(x.method, digits))
           z == Logged(y, atoms)
<1>4. atoms \cap Secret = {}
  <2>1. digits = "pin" /\ x.method \in Gathers => x.sensitive
    BY <1>2 DEF CommandKept, Entered
  <2>2. Protects(Result(x.method, digits), x.sensitive)
    BY <2>1, ResultProtects
  <2>3. QED
    BY <1>2, <2>2, AnswersHideSecrets DEF CommandKept
<1> HIDE DEF atoms, answer
<1>5. /\ DOMAIN y = CommandFields /\ y.stage = "answered"
      /\ y.logged = x.logged /\ y.refused = x.refused /\ y.twin = x.twin
      /\ y.transport = x.transport /\ y.id = x.id /\ y.method = x.method
      /\ y.needsReceiver = x.needsReceiver
      /\ y.sensitive = x.sensitive /\ y.digits = x.digits
  BY <1>2 DEF IsCommand, CommandFields
<1> HIDE DEF y
<1>6. /\ DOMAIN z = CommandFields /\ z.stage = "answered"
      /\ z.logged = x.logged \union atoms /\ z.refused = x.refused /\ z.twin = x.twin
      /\ z.transport = x.transport /\ z.id = x.id /\ z.method = x.method
      /\ z.needsReceiver = x.needsReceiver
      /\ z.sensitive = x.sensitive /\ z.digits = x.digits
  BY <1>5 DEF CommandFields, Logged
<1> HIDE DEF z
<1>7. x.transport = "http" => ~x.refused
  BY <1>1, <1>2 DEF CommandKept
<1>8. CommandKept(z) /\ "twin" \in DOMAIN z /\ IsCommand(z) /\ z.logged \cap Secret = {}
  BY <1>2, <1>4, <1>6, <1>7 DEF CommandKept, IsCommand, CommandFields
<1>9. exchange' = z \/ exchange' = Idle
  BY <1>3 DEF z, atoms
<1>10. QED
  BY <1>8, <1>9 DEF ExchangeOK, Idle

-----------------------------------------------------------------------------
(* The invariant holds. *)

LEMMA InvariantHoldsInitially == Init => PlaneInv
  BY DEF Init, PlaneInv, ExchangeOK

LEMMA LookupsPreserve ==
    ASSUME PlaneInv, LookupNext
    PROVE  PlaneInv'
<1>1. UNCHANGED world
  BY DEF LookupNext, RoutingLookup, DrachtioRoute, Invite
<1>2. ExchangeOK'
  <2>1. CASE \E u \in Targets, given \in Users, a \in BOOLEAN : RoutingLookup(u, given, a)
    BY <2>1, RoutingLookupIsOK
  <2>2. CASE \E u \in Targets, given \in Users : DrachtioRoute(u, given)
    BY <2>2, PlaneAssumption, DrachtioRouteIsOK
  <2>3. CASE \E given \in Users, d \in Domains : DrachtioRoute(buildSipUri(given, d), given)
    BY <2>3, BuiltUriIsASequence, DrachtioRouteIsOK
  <2>4. CASE \E u \in Targets, reply \in Replies : Invite(u, reply)
    <3>1. PICK answer : exchange' = Answered("sip", "INVITE", answer)
      BY <2>4 DEF Invite
    <3>2. {} \cap Secret = {}
      OBVIOUS
    <3>3. QED
      BY <3>1, <3>2, AnsweredIsOK
  <2>5. QED
    BY <2>1, <2>2, <2>3, <2>4 DEF LookupNext
<1>3. QED
  BY <1>1, <1>2 DEF PlaneInv, world

LEMMA HttpPreserves ==
    ASSUME PlaneInv, HttpNext
    PROVE  PlaneInv'
<1>1. CASE \E m \in HttpCommands, a \in BOOLEAN : \E body \in Bodies(m) : ReceiveHttp(m, body, a)
  <2>1. ExchangeOK'
    BY <1>1, ReceiveHttpIsOK
  <2>2. UNCHANGED world
    BY <1>1 DEF ReceiveHttp
  <2>3. QED
    BY <2>1, <2>2 DEF PlaneInv, world
<1>2. ASSUME NEW method, NEW answer, exchange' = Answered("http", method, answer)
      PROVE  ExchangeOK'
  <2>1. {} \cap Secret = {}
    OBVIOUS
  <2>2. QED
    BY <1>2, <2>1, AnsweredIsOK
<1>3. CASE \E status \in {"400", "413"} : BadBody(status)
  BY <1>2, <1>3 DEF BadBody, PlaneInv, world
<1>4. CASE \E m \in {"healthz", "readyz"} : Probe(m)
  BY <1>2, <1>4 DEF Probe, PlaneInv, world
<1>5. CASE \E a \in BOOLEAN : RequestDrain(a)
  <2>1. \E answer : exchange' = Answered("http", "drain", answer)
    BY <1>5 DEF RequestDrain, Guarded
  <2>2. phase' \in {phase, "draining"} /\ UNCHANGED <<config, routes>>
    BY <1>5 DEF RequestDrain
  <2>3. QED
    BY <1>2, <2>1, <2>2 DEF PlaneInv
<1>6. QED
  BY <1>1, <1>3, <1>4, <1>5 DEF HttpNext

LEMMA ControlPreserves ==
    ASSUME PlaneInv, ControlNext
    PROVE  PlaneInv'
<1>1. ASSUME NEW c \in Conns, NEW id \in Ids, NEW m \in Methods, NEW params \in Bodies(m),
             ReceiveControl(c, id, m, params)
      PROVE  PlaneInv'
  BY <1>1, ReceiveControlIsOK DEF ReceiveControl, PlaneInv, world
<1>2. ASSUME NEW c \in Conns, NEW id \in Ids, NEW list \in RouteLists, RegisterRoutes(c, id, list)
      PROVE  PlaneInv'
  <2>1. ExchangeOK'
    BY <1>2, RegisterRoutesIsOK
  <2>2. UNCHANGED <<config, phase>> /\ DOMAIN routes' = DOMAIN routes
    BY <1>2 DEF RegisterRoutes
  <2>3. QED
    BY <2>1, <2>2 DEF PlaneInv
<1>3. ASSUME NEW c \in Conns, NEW t, NEW name, NEW message \in Messages,
             ReceiveOther(c, t, name, message)
      PROVE  PlaneInv'
  BY <1>3, ReceiveOtherIsOK DEF ReceiveOther, PlaneInv, world
<1>4. ASSUME NEW c, NEW m, NEW error, OwnerRequest(c, m, error)
      PROVE  PlaneInv'
  BY <1>4, OwnerRequestIsOK DEF OwnerRequest, Message, PlaneInv, world
<1>5. ASSUME NEW c, NEW e, OwnerEvent(c, e)
      PROVE  PlaneInv'
  BY <1>5, OwnerEventIsOK DEF OwnerEvent, Message, PlaneInv, world
<1>6. ASSUME NEW c \in Conns, Connect(c) \/ Disconnect(c)
      PROVE  PlaneInv'
  <2>1. DOMAIN routes' \subseteq Conns
    BY <1>6 DEF Connect, Disconnect, PlaneInv
  <2>2. UNCHANGED <<config, phase, exchange>>
    BY <1>6 DEF Connect, Disconnect
  <2>3. QED
    BY <2>1, <2>2, UntouchedIsOK DEF PlaneInv
<1>7. QED
  BY <1>1, <1>2, <1>3, <1>4, <1>5, <1>6 DEF ControlNext

LEMMA RestPreserves ==
    ASSUME PlaneInv,
           \/ \E error : Done(error)
           \/ \E flag \in {"true", "false", "absent"} : DtmfEvent(flag)
           \/ \E e : OtherRtpbridgeEvent(e)
           \/ \E m, error : RtpbridgeRequest(m, error)
           \/ Finish \/ Drain \/ Stop \/ SipChanges \/ MediaChanges \/ NamesChange
           \/ UNCHANGED vars
    PROVE  PlaneInv'
<1>1. CASE \E error : Done(error)
  BY <1>1, DoneIsOK DEF PlaneInv, Done, world
<1>2. CASE \E flag \in {"true", "false", "absent"} : DtmfEvent(flag)
  BY <1>2, DtmfEventIsOK DEF PlaneInv, DtmfEvent, RtpbridgeEvent, Message, world
<1>3. CASE \E e : OtherRtpbridgeEvent(e)
  BY <1>3, OtherRtpbridgeEventIsOK DEF PlaneInv, OtherRtpbridgeEvent, RtpbridgeEvent, Message, world
<1>4. CASE \E m, error : RtpbridgeRequest(m, error)
  BY <1>4, RtpbridgeRequestIsOK DEF PlaneInv, RtpbridgeRequest, Message, world
<1>5. CASE Finish
  BY <1>5 DEF Finish, PlaneInv, ExchangeOK, Idle, world
<1>6. CASE Drain \/ Stop \/ SipChanges \/ MediaChanges \/ NamesChange \/ UNCHANGED vars
  <2>1. UNCHANGED <<config, routes, exchange>>
    BY <1>6 DEF Drain, Stop, SipChanges, MediaChanges, NamesChange, vars
  <2>2. phase' \in {"running", "draining", "stopping"}
    BY <1>6 DEF Drain, Stop, SipChanges, MediaChanges, NamesChange, vars, PlaneInv
  <2>3. ExchangeOK'
    BY <2>1, UntouchedIsOK DEF PlaneInv
  <2>4. QED
    BY <2>1, <2>2, <2>3 DEF PlaneInv
<1>7. QED
  BY <1>1, <1>2, <1>3, <1>4, <1>5, <1>6

LEMMA InvariantIsPreserved == PlaneInv /\ [Next]_vars => PlaneInv'
  BY LookupsPreserve, HttpPreserves, ControlPreserves, RestPreserves DEF Next

(* Every exchange is one the gateway can answer for: a promise names the       *)
(* routes it was made by, a command that was refused says why in the same way  *)
(* on either transport, but for calls without a receiver, and no text of a     *)
(* field that holds a secret is logged readable.                               *)
THEOREM ExchangesStayGood == Spec => []PlaneInv
  BY InvariantHoldsInitially, InvariantIsPreserved, PTL DEF Spec

-----------------------------------------------------------------------------
(* What follows. *)

(* An INVITE's URI is stripped before it is looked up, which makes no difference. *)
LEMMA StrippedIsTheSame ==
    ASSUME NEW uri, IsSequence(uri)
    PROVE  /\ stripSipUri(stripSipUri(uri)) = stripSipUri(uri)
           /\ getSipUser(stripSipUri(uri)) = getSipUser(uri)
           /\ getSipHost(stripSipUri(uri)) = getSipHost(uri)
<1>1. stripSipUri(stripSipUri(uri)) = stripSipUri(uri)
  BY StripIsIdempotent DEF IsSequence
<1>2. QED
  BY <1>1 DEF getSipUser, getSipHost

LEMMA PromiseIsHonest ==
    ASSUME NEW x, PromiseKept(x), x.user = getSipUser(x.uri), x.by \cap Registered # {}, ~isDraining
    PROVE  InviteRefusal(x.uri) = "none"
<1> DEFINE uri == x.uri
           asked == [uri |-> uri, user |-> getSipUser(uri)]
           invited == [uri |-> stripSipUri(uri), user |-> getSipUser(stripSipUri(uri))]
<1>1. /\ stripSipUri(stripSipUri(uri)) = stripSipUri(uri)
      /\ getSipUser(stripSipUri(uri)) = getSipUser(uri)
      /\ getSipHost(stripSipUri(uri)) = getSipHost(uri)
  BY StrippedIsTheSame DEF PromiseKept
<1>2. acceptsSipHost(stripSipUri(uri), config.domains)
  BY <1>1 DEF PromiseKept, acceptsSipHost
<1>3. PICK r \in x.by : r \in Registered
  OBVIOUS
<1>4. Matches(r, asked)
  BY <1>3 DEF PromiseKept
<1>5. Matches(r, invited)
  BY <1>1, <1>4 DEF Matches, normalizeRouteValue
<1> HIDE DEF asked, invited
<1>6. Routed(invited)
  BY <1>3, <1>5 DEF Registered, Routed, findRoute, matchRoute
<1>7. QED
  BY <1>2, <1>6 DEF InviteRefusal, invited

(* A destination a lookup said is accepted has its INVITE admitted while the   *)
(* gateway does not drain and one of the routes that matched is registered by  *)
(* somebody: whatever the SIP URI, its parameters and the routes are, and      *)
(* however often connections come, go and replace their lists, and drachtio    *)
(* and rtpbridge fail, in between.                                             *)
THEOREM LookupsAreHonest == Spec => []LookupIsHonest
<1>1. PlaneInv => LookupIsHonest
  <2>1. ASSUME PlaneInv, exchange.stage = "promised", exchange.user = getSipUser(exchange.uri),
               exchange.by \cap Registered # {}, ~isDraining
        PROVE  InviteRefusal(exchange.uri) = "none"
    <3>1. PromiseKept(exchange)
      BY <2>1 DEF PlaneInv, ExchangeOK, Idle, IsAnswer, IsCommand
    <3>2. QED
      BY <2>1, <3>1, PromiseIsHonest
  <2>2. ASSUME config.tag, NEW uri, NEW user
        PROVE  lookup(uri, user).acceptNew <=> drachtioRoute(uri, user) = "route"
    BY <2>2, AcceptedLookup, RouteOfDrachtio
  <2>3. QED
    BY <2>1, <2>2 DEF LookupIsHonest
<1>2. QED
  BY <1>1, ExchangesStayGood, PTL

(* A command is refused for the same reason over HTTP and over a control       *)
(* connection, whatever its body says besides the id in the path, and runs on  *)
(* both or on neither; only an outbound call without a receiver is refused     *)
(* over HTTP alone, and with 400.                                              *)
THEOREM TransportsAgree == Spec => []BothTransportsAgree
<1>1. PlaneInv => BothTransportsAgree
  BY DEF PlaneInv, ExchangeOK, Idle, CommandKept, Agree, BothTransportsAgree
<1>2. QED
  BY <1>1, ExchangesStayGood, PTL

(* No long run of digits in the text of a field, and no digit entered under    *)
(* protection, can be read in what is logged, whichever method, event, field   *)
(* and message carries it.                                                     *)
THEOREM SecretTextsAreScrubbed == Spec => []NoSecretTextIsLogged
<1>1. PlaneInv => NoSecretTextIsLogged
  BY DEF PlaneInv, ExchangeOK, Idle, IsPromise, NoSecretTextIsLogged, Secret
<1>2. QED
  BY <1>1, ExchangesStayGood, PTL

-----------------------------------------------------------------------------
(* What a drain refuses. *)

OnlyNewWork ==
    /\ (exchange = Idle /\ exchange'.stage = "answered" /\ phase = "draining"
            /\ exchange'.answer \in {"SHUTTING_DOWN", "503 SHUTTING_DOWN"})
          => ~exchange'.existing
    /\ (exchange = Idle /\ exchange'.stage = "running") => exchange'.existing \/ ~isDraining

(* Whatever is answered without a command is no matter of the drain. *)
LEMMA OtherAnswers ==
    ASSUME NEW transport, NEW method, NEW answer,
           answer \in {"SHUTTING_DOWN", "503 SHUTTING_DOWN"} => isStopping,
           exchange' = Answered(transport, method, answer)
    PROVE  OnlyNewWork
<1>1. exchange'.stage = "answered" /\ exchange'.answer = answer
  BY DEF Answered
<1>2. QED
  BY <1>1 DEF OnlyNewWork, isStopping

LEMMA LoggedAnswers ==
    ASSUME NEW transport, NEW method, NEW atoms,
           exchange' = Logged(Answered(transport, method, "nothing"), atoms)
    PROVE  OnlyNewWork
<1>1. exchange'.stage = "answered" /\ exchange'.answer = "nothing"
  BY DEF Answered, Logged
<1>2. QED
  BY <1>1 DEF OnlyNewWork

(* The two codes of a refusal that names the drain name nothing else. *)
LEMMA OnlyTheDrainShutsDown ==
    ASSUME NEW transport, NEW error \in CheckErrors,
           Answer(transport, error) \in {"SHUTTING_DOWN", "503 SHUTTING_DOWN"}
    PROVE  error = "GatewayDrainingError"
<1>1. <<HttpStatus(error), ControlCode(error)>> \in Same
  BY ErrorsSayTheSame
<1>2. ControlCode(error) = "SHUTTING_DOWN" => error = "GatewayDrainingError"
  BY DEF ControlCode, controlErrorForCommand, CheckErrors, NotFound, Unavailable
<1>3. ControlCode(error) # "503 SHUTTING_DOWN" /\ HttpStatus(error) # "SHUTTING_DOWN"
  <2>1. ControlCode(error) # "503 SHUTTING_DOWN"
    BY DEF ControlCode, controlErrorForCommand, CheckErrors, NotFound, Unavailable
  <2>2. HttpStatus(error) # "SHUTTING_DOWN"
    BY <1>1 DEF Same
  <2>3. QED
    BY <2>1, <2>2
<1>4. HttpStatus(error) = "503 SHUTTING_DOWN" => ControlCode(error) = "SHUTTING_DOWN"
  BY <1>1 DEF Same
<1>5. QED
  BY <1>2, <1>3, <1>4 DEF Answer

(* What the checks make of the drain is right by what the gateway has. *)
LEMMA ChecksTellWork ==
    ASSUME NEW method, method # "route.register", NEW params, NEW owner
    PROVE  LET error == Check(method, params, Now(owner))
           IN  /\ error = "GatewayDrainingError" => ~IsExistingWork(method, params)
               /\ error = "none" => IsExistingWork(method, params) \/ ~isDraining
<1> DEFINE at == Now(owner)
           error == Check(method, params, at)
<1>1. (at.call <=> names = "call") /\ (at.draining <=> isDraining)
  BY DEF Now
<1> HIDE DEF at
<1>2. ASSUME error = "GatewayDrainingError"
      PROVE  ~IsExistingWork(method, params)
  <2>1. IsNewWork(method, params, at.call)
    BY <1>2, DrainRefusesNewWork
  <2>2. CASE method = "sip.createOutbound"
    BY <2>2 DEF IsExistingWork
  <2>3. CASE method # "sip.createOutbound"
    <3>1. method = "session.create" /\ (Value(params, "callId") \in Missing \/ ~at.call)
      BY <2>1, <2>3 DEF IsNewWork
    <3>2. Missing \cap Texts = {}
      BY DEF Missing, Texts
    <3>3. QED
      BY <1>1, <3>1, <3>2 DEF IsExistingWork
  <2>4. QED
    BY <2>2, <2>3
<1>3. ASSUME error = "none", isDraining
      PROVE  IsExistingWork(method, params)
  <2>1. ~IsNewWork(method, params, at.call)
    BY <1>1, <1>3, PassedIsNoNewWork
  <2>2. method # "sip.createOutbound"
    BY <2>1 DEF IsNewWork
  <2>3. CASE method = "session.create"
    <3>1. Value(params, "callId") \notin Missing /\ at.call
      BY <2>1, <2>3 DEF IsNewWork
    <3>2. Value(params, "callId") \in Texts
      BY <1>3, <2>3, <3>1, PassedSessionCreate
    <3>3. QED
      BY <1>1, <2>3, <3>1, <3>2 DEF IsExistingWork
  <2>4. CASE method # "session.create"
    BY <2>2, <2>4 DEF IsExistingWork
  <2>5. QED
    BY <2>3, <2>4
<1>4. QED
  BY <1>2, <1>3 DEF at

(* What a command that begins tells of itself. *)
LEMMA BegunTells ==
    ASSUME NEW transport, NEW id, NEW method, NEW params, NEW twin, NEW log, NEW error,
           Begin([Command(transport, id, method, params, twin) EXCEPT !.logged = log], error)
    PROVE  /\ exchange'.existing <=> IsExistingWork(method, params)
           /\ error = "none" => exchange'.stage = "running"
           /\ error # "none" => /\ exchange'.stage = "answered"
                                /\ exchange'.answer = Answer(transport, error)
<1>1. PICK x : x = Command(transport, id, method, params, twin)
  OBVIOUS
<1>2. Fresh(x, transport, id, method, params, twin)
  BY <1>1, CommandIsFresh
<1> DEFINE y == [x EXCEPT !.logged = log]
<1>3. /\ DOMAIN y = CommandFields /\ y.stage = "running" /\ y.transport = transport
      /\ y.existing = x.existing
  BY <1>2 DEF Fresh, CommandFields
<1>4. x.existing <=> IsExistingWork(method, params)
  BY <1>2 DEF Fresh
<1> HIDE DEF y
<1>5. Begin(y, error)
  BY <1>1 DEF y
<1>6. CASE error = "none"
  BY <1>3, <1>4, <1>5, <1>6 DEF Begin
<1>7. CASE error # "none"
  <2>1. exchange' = [y EXCEPT !.stage = "answered", !.refused = TRUE,
                        !.answer = Answer(transport, error),
                        !.logged = @ \union AnswerLog(y, error, NoObject)]
    BY <1>3, <1>5, <1>7 DEF Begin
  <2>2. /\ exchange'.stage = "answered" /\ exchange'.answer = Answer(transport, error)
        /\ exchange'.existing = y.existing
    BY <1>3, <2>1 DEF CommandFields
  <2>3. QED
    BY <1>3, <1>4, <1>7, <2>2
<1>8. QED
  BY <1>6, <1>7

LEMMA CommandsAndDrain ==
    ASSUME NEW transport, NEW id, NEW method, method # "route.register", NEW params, NEW twin,
           NEW log, NEW owner, NEW error,
           \/ error = Check(method, params, Now(owner))
           \/ error = "GatewayDrainingError" /\ isStopping,
           Begin([Command(transport, id, method, params, twin) EXCEPT !.logged = log], error)
    PROVE  OnlyNewWork
<1>1. /\ exchange'.existing <=> IsExistingWork(method, params)
      /\ error = "none" => exchange'.stage = "running"
      /\ error # "none" => /\ exchange'.stage = "answered"
                           /\ exchange'.answer = Answer(transport, error)
  BY BegunTells
<1>2. CASE error = Check(method, params, Now(owner))
  <2>1. /\ error = "GatewayDrainingError" => ~IsExistingWork(method, params)
        /\ error = "none" => IsExistingWork(method, params) \/ ~isDraining
    BY <1>2, ChecksTellWork
  <2>2. error \in CheckErrors \union {"none"}
    BY <1>2, CheckFailsWithAnError
  <2>3. error # "none" /\ Answer(transport, error) \in {"SHUTTING_DOWN", "503 SHUTTING_DOWN"}
            => error = "GatewayDrainingError"
    BY <2>2, OnlyTheDrainShutsDown
  <2>4. QED
    BY <1>1, <2>1, <2>3 DEF OnlyNewWork
<1>3. CASE error = "GatewayDrainingError" /\ isStopping
  BY <1>1, <1>3 DEF OnlyNewWork, isStopping
<1>4. QED
  BY <1>2, <1>3

LEMMA HttpCommandsAndDrain ==
    ASSUME NEW method \in HttpCommands, NEW body \in Bodies(method), NEW authorized,
           ReceiveHttp(method, body, authorized)
    PROVE  OnlyNewWork
<1> DEFINE params == HttpParams(method, body)
           error == Check(method, params, Now(FALSE))
           twin == HttpTwin(method, params)
<1>1. CASE \E answer : exchange' = Answered("http", method, answer)
                /\ (answer \in {"SHUTTING_DOWN", "503 SHUTTING_DOWN"} => isStopping)
  BY <1>1, OtherAnswers
<1>2. CASE Begin(Command("http", "none", method, params, twin), error)
  <2>1. method # "route.register"
    BY DEF HttpCommands, BySession, ByEndpoint
  <2> HIDE DEF twin, params
  <2>2. Command("http", "none", method, params, twin)
            = [Command("http", "none", method, params, twin) EXCEPT !.logged = {}]
    BY UnloggedCommand
  <2>3. Begin([Command("http", "none", method, params, twin) EXCEPT !.logged = {}], error)
    BY <1>2, <2>2, Zenon
  <2>4. error = Check(method, params, Now(FALSE))
    OBVIOUS
  <2> HIDE DEF error
  <2>5. QED
    BY <2>1, <2>3, <2>4, CommandsAndDrain
<1>3. QED
  BY <1>1, <1>2, HttpCommandBegins

LEMMA ControlCommandsAndDrain ==
    ASSUME NEW c, NEW id, NEW method, NEW params, ReceiveControl(c, id, method, params)
    PROVE  OnlyNewWork
<1> DEFINE error == IF isStopping THEN "GatewayDrainingError" ELSE Check(method, params, Now(TRUE))
           log == RequestLog(id, method, params)
<1>1. Begin([Command(c, id, method, params, "ok") EXCEPT !.logged = log], error)
  BY ControlCommandBegins
<1>2. \/ error = Check(method, params, Now(TRUE))
      \/ error = "GatewayDrainingError" /\ isStopping
  OBVIOUS
<1>3. method # "route.register"
  BY DEF ReceiveControl
<1> HIDE DEF error, log
<1>4. QED
  BY <1>1, <1>2, <1>3, CommandsAndDrain

LEMMA RegistrationIsNoCommand ==
    ASSUME NEW c, NEW id, NEW list, RegisterRoutes(c, id, list)
    PROVE  OnlyNewWork
<1>1. CASE exchange # Idle
  BY <1>1 DEF OnlyNewWork
<1>2. ASSUME NEW error, NEW answer,
             exchange' = [Command(c, id, "route.register", [routes |-> "list"], "ok") EXCEPT
                            !.stage = "answered", !.answer = answer,
                            !.logged = RegistrationLog(c, id, error)]
      PROVE  OnlyNewWork
  <2>1. PICK x : x = Command(c, id, "route.register", [routes |-> "list"], "ok")
    OBVIOUS
  <2>2. Fresh(x, c, id, "route.register", [routes |-> "list"], "ok")
    BY <2>1, CommandIsFresh
  <2>3. exchange' = [x EXCEPT !.stage = "answered", !.answer = answer,
                              !.logged = RegistrationLog(c, id, error)]
    BY <1>2, <2>1
  <2>4. x.existing <=> FALSE
    BY <2>2 DEF Fresh, IsExistingWork
  <2>5. exchange'.stage = "answered" /\ exchange'.existing = x.existing
    BY <2>2, <2>3 DEF Fresh, CommandFields
  <2>6. QED
    BY <2>4, <2>5 DEF OnlyNewWork
<1>3. QED
  BY <1>1, <1>2, WhatRegistrationDoes

(* An exchange that does not begin in this step, or begins with a promise. *)
LEMMA NothingBegins ==
    ASSUME \/ exchange # Idle
           \/ exchange' = Idle
           \/ \E uri, user : exchange' = Promised(uri, user)
    PROVE  OnlyNewWork
<1>1. CASE exchange # Idle
  BY <1>1 DEF OnlyNewWork
<1>2. CASE exchange' = Idle \/ \E uri, user : exchange' = Promised(uri, user)
  <2>1. CASE exchange' = Idle
    BY <2>1 DEF Idle, OnlyNewWork
  <2>2. ASSUME NEW uri, NEW user, exchange' = Promised(uri, user)
        PROVE  OnlyNewWork
    <3>1. exchange'.stage = "promised"
      BY <2>2 DEF Promised
    <3>2. QED
      BY <3>1 DEF OnlyNewWork
  <2>3. QED
    BY <1>2, <2>1, <2>2
<1>3. QED
  BY <1>1, <1>2

LEMMA UntouchedBeginsNothing ==
    ASSUME exchange' = exchange
    PROVE  OnlyNewWork
<1>1. CASE exchange = Idle
  BY <1>1, NothingBegins
<1>2. CASE exchange # Idle
  BY <1>2, NothingBegins
<1>3. QED
  BY <1>1, <1>2

LEMMA MessagesAndDrain ==
    ASSUME NEW peer, NEW method, NEW atoms, Message(peer, method, atoms)
    PROVE  OnlyNewWork
  BY LoggedAnswers DEF Message

LEMMA LookupsAndDrain ==
    ASSUME LookupNext
    PROVE  OnlyNewWork
<1>1. ASSUME NEW u, NEW given, NEW a, RoutingLookup(u, given, a)
      PROVE  OnlyNewWork
  <2>1. \/ exchange' = Answered("http", "lookup", "503 SHUTTING_DOWN") /\ isStopping
        \/ exchange' = Answered("http", "lookup", "401")
        \/ exchange' = Answered("http", "lookup", "400")
        \/ exchange' = Answered("http", "lookup", "200")
        \/ exchange' = Promised(u, UserOf(u, given))
    BY <1>1 DEF RoutingLookup, Guarded
  <2>2. QED
    BY <2>1, NothingBegins, OtherAnswers
<1>2. ASSUME NEW u, NEW given, DrachtioRoute(u, given)
      PROVE  OnlyNewWork
  <2>1. \/ exchange' = Answered("http", "route", "503 SHUTTING_DOWN") /\ isStopping
        \/ exchange' = Answered("http", "route", "200")
        \/ exchange' = Promised(u, UserOf(u, given))
    BY <1>2 DEF DrachtioRoute
  <2>2. QED
    BY <2>1, NothingBegins, OtherAnswers
<1>3. ASSUME NEW u, NEW reply, Invite(u, reply)
      PROVE  OnlyNewWork
  <2>1. InviteAnswer(u, reply) \in {"200", "3xx-6xx", "502", "503", "504"}
    BY DEF InviteAnswer, sipStatusForError, postJson
  <2>2. \E answer \in {"200", "3xx-6xx", "404", "502", "503", "504"} :
            exchange' = Answered("sip", "INVITE", answer)
    BY <1>3, <2>1 DEF Invite
  <2>3. QED
    BY <2>2, OtherAnswers
<1>4. QED
  BY <1>1, <1>2, <1>3 DEF LookupNext

LEMMA HttpAndDrain ==
    ASSUME HttpNext
    PROVE  OnlyNewWork
<1>1. CASE \E m \in HttpCommands, a \in BOOLEAN : \E body \in Bodies(m) : ReceiveHttp(m, body, a)
  BY <1>1, HttpCommandsAndDrain
<1>2. CASE \E status \in {"400", "413"} : BadBody(status)
  BY <1>2, OtherAnswers DEF BadBody
<1>3. CASE \E m \in {"healthz", "readyz"} : Probe(m)
  <2>1. PICK m : Probe(m)
    BY <1>3
  <2>2. exchange' = Answered("http", m, "200") \/ exchange' = Answered("http", m, "503")
    BY <2>1 DEF Probe
  <2>3. QED
    BY <2>2, OtherAnswers
<1>4. CASE \E a \in BOOLEAN : RequestDrain(a)
  <2>1. \/ exchange' = Answered("http", "drain", "503 SHUTTING_DOWN") /\ isStopping
        \/ exchange' = Answered("http", "drain", "401")
        \/ exchange' = Answered("http", "drain", "202")
    BY <1>4 DEF RequestDrain, Guarded
  <2>2. QED
    BY <2>1, OtherAnswers
<1>5. QED
  BY <1>1, <1>2, <1>3, <1>4 DEF HttpNext

LEMMA ControlAndDrain ==
    ASSUME ControlNext
    PROVE  [OnlyNewWork]_vars
<1>1. ASSUME NEW c, NEW id, NEW m, NEW params, ReceiveControl(c, id, m, params)
      PROVE  OnlyNewWork
  BY <1>1, ControlCommandsAndDrain
<1>2. ASSUME NEW c, NEW id, NEW list, RegisterRoutes(c, id, list)
      PROVE  OnlyNewWork
  BY <1>2, RegistrationIsNoCommand
<1>3. ASSUME NEW c, NEW t, NEW name, NEW message, ReceiveOther(c, t, name, message)
      PROVE  OnlyNewWork
  <2>1. \/ \E method, atoms : exchange' = Logged(Answered(c, method, "nothing"), atoms)
        \/ exchange' = Answered(c, "unparsed", "BAD_MESSAGE")
    BY <1>3 DEF ReceiveOther
  <2>2. QED
    BY <2>1, OtherAnswers, LoggedAnswers
<1>4. ASSUME NEW c, (\E m, error : OwnerRequest(c, m, error)) \/ (\E e : OwnerEvent(c, e))
      PROVE  OnlyNewWork
  <2>1. \E peer, method, atoms : Message(peer, method, atoms)
    BY <1>4, Zenon DEF OwnerRequest, OwnerEvent
  <2>2. QED
    BY <2>1, MessagesAndDrain
<1>5. ASSUME NEW c, Connect(c) \/ Disconnect(c)
      PROVE  OnlyNewWork
  <2>1. exchange' = exchange
    BY <1>5 DEF Connect, Disconnect
  <2>2. QED
    BY <2>1, UntouchedBeginsNothing
<1>6. QED
  BY <1>1, <1>2, <1>3, <1>4, <1>5 DEF ControlNext

LEMMA StepsAndDrain ==
    ASSUME [Next]_vars
    PROVE  [OnlyNewWork]_vars
<1>1. CASE LookupNext
  BY <1>1, LookupsAndDrain
<1>2. CASE HttpNext
  BY <1>2, HttpAndDrain
<1>3. CASE ControlNext
  BY <1>3, ControlAndDrain
<1>4. CASE \E error : Done(error)
  BY <1>4, NothingBegins DEF Done, Idle
<1>5. CASE \/ \E flag : DtmfEvent(flag)
           \/ \E e : OtherRtpbridgeEvent(e)
           \/ \E m, error : RtpbridgeRequest(m, error)
  <2>1. \E peer, method, atoms : Message(peer, method, atoms)
    BY <1>5, Zenon DEF DtmfEvent, OtherRtpbridgeEvent, RtpbridgeEvent, RtpbridgeRequest
  <2>2. QED
    BY <2>1, MessagesAndDrain
<1>6. CASE Finish
  BY <1>6, NothingBegins DEF Finish
<1>7. CASE Drain \/ Stop \/ SipChanges \/ MediaChanges \/ NamesChange \/ UNCHANGED vars
  <2>1. exchange' = exchange
    BY <1>7 DEF Drain, Stop, SipChanges, MediaChanges, NamesChange, vars
  <2>2. QED
    BY <2>1, UntouchedBeginsNothing
<1>8. QED
  BY <1>1, <1>2, <1>3, <1>4, <1>5, <1>6, <1>7 DEF Next

(* While it drains the gateway turns no command away that is about a call or a *)
(* media session it has, and lets none begin that is new work, whichever       *)
(* transport it comes over and whatever its parameters say.                    *)
THEOREM DrainsTurnAwayNewWork == Spec => DrainRefusesOnlyNewWork
<1>1. [Next]_vars => [OnlyNewWork]_vars
  BY StepsAndDrain
<1>2. QED
  BY <1>1, PTL DEF Spec, DrainRefusesOnlyNewWork, OnlyNewWork
=============================================================================
