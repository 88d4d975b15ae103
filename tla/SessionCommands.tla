---------------------------- MODULE SessionCommands ----------------------------
(***************************************************************************)
(* SessionCommandHandler.execute up to the call of the service: what each  *)
(* command takes, how its parameters are checked and in which order, and   *)
(* the error it fails with.  A parameter is the kind of its JSON value.    *)
(***************************************************************************)
EXTENDS FiniteSets, TLC

(* The texts the checks or the log tell apart, and the other values. *)
Texts == {"text", "direction", "card", "digits", "uri", "url", "file", "sdp"}

Kinds == Texts \union
    {"absent", "null", "true", "false", "negative", "zero", "integer", "long", "fraction",
     "blank", "texts", "list", "headers", "auth", "object"}

Missing == {"absent", "null"}
PositiveIntegers == {"integer", "long"}      \* "long" has six digits or more
IntegerKinds == {"negative", "zero"} \union PositiveIntegers

(* The kinds each helper accepts. *)
requiredString == Texts
optionalString == Texts \union Missing
optionalBoolean == {"true", "false"} \union Missing
optionalInteger == IntegerKinds \union Missing
optionalNumber == IntegerKinds \union {"fraction"} \union Missing
optionalNonNegativeInteger == {"zero"} \union PositiveIntegers \union Missing
optionalPositiveInteger == PositiveIntegers \union Missing
optionalNullableInteger == IntegerKinds \union Missing
requiredDirection == {"direction"}
optionalDirection == {"direction"} \union Missing
parseOptionalSipAuth == {"auth"} \union Missing
parseOptionalHeaders == {"headers"} \union Missing
offerGeneration == {"absent", "zero"} \union PositiveIntegers
codecs == {"absent", "texts", "list"}
ignored == Kinds                 \* a value of another kind counts as absent
forbidden == {"absent"}

(* Missing over an empty list: `texts` is a list of strings, `list` an empty  *)
(* one.  A list of anything else is of kind "object" here.                    *)

-----------------------------------------------------------------------------
(* The parameters of each command, and the kinds each accepts. *)

SipMethods ==
    {"session.get", "session.delete", "session.create", "sip.createOutbound",
     "sip.cancelOutbound", "sip.reinvite", "sip.bye"}

SipCommands == [method \in SipMethods |->
    CASE method = "session.get" -> [sessionId |-> requiredString]
      [] method = "session.delete" ->
            [sessionId |-> requiredString, reason |-> ignored, headers |-> parseOptionalHeaders]
      [] method = "session.create" -> [callId |-> optionalString]
      [] method = "sip.createOutbound" ->
            [requestUri |-> requiredString, sdp |-> requiredString, headers |-> parseOptionalHeaders,
             receiverUrl |-> optionalString, callingNumber |-> optionalString,
             callingName |-> optionalString, proxy |-> optionalString,
             outboundAttemptId |-> optionalString, auth |-> parseOptionalSipAuth]
      [] method = "sip.cancelOutbound" -> [outboundAttemptId |-> requiredString]
      [] method = "sip.reinvite" ->
            [sessionId |-> requiredString, sdp |-> requiredString, headers |-> parseOptionalHeaders]
      [] method = "sip.bye" ->
            [sessionId |-> requiredString, reason |-> ignored, headers |-> parseOptionalHeaders]]

OfferMethods ==
    {"webrtc.createOffer", "webrtc.createFromOffer", "webrtc.acceptAnswer",
     "webrtc.acceptOffer", "webrtc.restartIce", "rtp.createOffer",
     "rtp.createFromOffer", "rtp.acceptAnswer", "rtp.reinvite"}

OfferCommands == [method \in OfferMethods |->
    CASE method = "webrtc.createOffer" ->
            [sessionId |-> requiredString, direction |-> optionalString]
      [] method = "webrtc.createFromOffer" ->
            [sessionId |-> requiredString, sdp |-> requiredString, direction |-> optionalString]
      [] method = "webrtc.acceptAnswer" ->
            [endpointId |-> requiredString, sdp |-> requiredString, offerGeneration |-> offerGeneration]
      [] method = "webrtc.acceptOffer" -> [endpointId |-> requiredString, sdp |-> requiredString]
      [] method = "webrtc.restartIce" -> [endpointId |-> requiredString]
      [] method = "rtp.createOffer" ->
            [sessionId |-> requiredString, direction |-> optionalString, codecs |-> codecs,
             srtp |-> optionalBoolean, srtpOptional |-> optionalBoolean]
      [] method = "rtp.createFromOffer" ->
            [sessionId |-> requiredString, sdp |-> requiredString, direction |-> optionalString]
      [] method = "rtp.acceptAnswer" -> [endpointId |-> requiredString, sdp |-> requiredString]
      [] method = "rtp.reinvite" -> [endpointId |-> requiredString, sdp |-> requiredString]]

MediaMethods ==
    {"media.play", "media.playAndWait", "media.stop", "endpoint.updateDirection",
     "media.bridge", "media.unbridge", "dtmf.inject"}

MediaCommands == [method \in MediaMethods |->
    CASE method = "media.play" ->
            [sessionId |-> requiredString, source |-> requiredString, headers |-> parseOptionalHeaders,
             loopCount |-> optionalNullableInteger, cacheTtlSecs |-> optionalInteger]
      [] method = "media.playAndWait" ->
            [sessionId |-> requiredString, source |-> requiredString,
             playbackTimeoutMs |-> optionalPositiveInteger]
      [] method = "media.stop" -> [endpointId |-> requiredString]
      [] method = "endpoint.updateDirection" ->
            [endpointId |-> requiredString, direction |-> requiredDirection]
      [] method = "media.bridge" ->
            [sessionId |-> requiredString, targetSessionId |-> requiredString,
             direction |-> optionalDirection]                     \* or target_session_id
      [] method = "media.unbridge" -> [endpointId |-> requiredString]
      [] method = "dtmf.inject" -> [endpointId |-> requiredString, digit |-> requiredString]]

GatherMethods == {"media.gather", "media.playAndGather", "media.leaveMessage"}

GatherCommands == [method \in GatherMethods |->
    CASE method = "media.gather" ->
            [sessionId |-> requiredString, endpointId |-> requiredString,
             numDigits |-> optionalPositiveInteger, timeoutMs |-> optionalPositiveInteger,
             interDigitTimeoutMs |-> optionalPositiveInteger, terminator |-> optionalString,
             sensitive |-> optionalBoolean]
      [] method = "media.playAndGather" ->
            [sessionId |-> requiredString, endpointId |-> requiredString, source |-> requiredString,
             loopCount |-> optionalNullableInteger, cacheTtlSecs |-> optionalInteger,
             headers |-> parseOptionalHeaders, numDigits |-> optionalPositiveInteger,
             timeoutMs |-> optionalPositiveInteger, interDigitTimeoutMs |-> optionalPositiveInteger,
             terminator |-> optionalString, stopPlaybackOnDigit |-> optionalBoolean,
             postPlaybackTimeoutMs |-> optionalPositiveInteger, sensitive |-> optionalBoolean]
      [] method = "media.leaveMessage" ->
            [sessionId |-> requiredString, endpointId |-> requiredString,
             messageSource |-> optionalString, maxWaitMs |-> optionalPositiveInteger,
             playbackTimeoutMs |-> optionalPositiveInteger, silenceIntervalMs |-> optionalPositiveInteger,
             speechThreshold |-> optionalNumber, terminator |-> optionalString]]

RecordingMethods == {"recording.start", "recording.stop", "recording.list", "recording.delete"}

RecordingCommands == [method \in RecordingMethods |->
    CASE method = "recording.start" ->
            [sessionId |-> requiredString, endpointId |-> optionalString, filePath |-> optionalString,
             recordOutbound |-> forbidden, record_outbound |-> forbidden]
      [] method = "recording.stop" -> [recordingId |-> requiredString]
      [] method = "recording.list" ->
            [backendId |-> optionalString, startsWith |-> optionalString,
             skip |-> optionalNonNegativeInteger, limit |-> optionalPositiveInteger]
      [] method = "recording.delete" -> [backendId |-> requiredString, path |-> requiredString]]

Commands ==
    [method \in SipMethods \union OfferMethods \union MediaMethods
                    \union GatherMethods \union RecordingMethods |->
        CASE method \in SipMethods -> SipCommands[method]
          [] method \in OfferMethods -> OfferCommands[method]
          [] method \in MediaMethods -> MediaCommands[method]
          [] method \in GatherMethods -> GatherCommands[method]
          [] method \in RecordingMethods -> RecordingCommands[method]]

(* Commands that call no service and check no parameter. *)
PlainCommands == {"session.list", "event.ack"}

NotImplemented == {"sip.answer", "sip.reject", "vad.start", "vad.stop", "amd.start", "amd.stop"}

(* Commands of the SIP gateway and the registry need no rtpbridge. *)
NeedsMedia(method) ==
    method \in DOMAIN Commands \ (SipMethods \ {"session.create"})

-----------------------------------------------------------------------------
(* Parameters that are missing, and parameters that are no object. *)
NoParams == [missing |-> "true"]
NoObject == [array |-> "true"]

OptionalObject == {"session.create", "recording.list"}

Value(params, field) ==
    IF field \in DOMAIN params THEN params[field] ELSE "absent"

(* The second name a parameter goes by. *)
Alias == [method \in {"media.bridge", "media.leaveMessage", "sip.reinvite", "sip.bye"} |->
    CASE method = "media.bridge" -> [targetSessionId |-> "target_session_id"]
      [] method = "media.leaveMessage" ->
            [messageSource |-> "promptSource", maxWaitMs |-> "maxDurationMs"]
      [] OTHER -> [sessionId |-> "callId"]]

HasAlias(method, field) == method \in DOMAIN Alias /\ field \in DOMAIN Alias[method]

(* The gateway's commands take callId for any sessionId that is no string. *)
IsGiven(method, value) ==
    IF method \in {"sip.reinvite", "sip.bye"} THEN value \in Texts \union {"blank"}
                                             ELSE value \notin Missing

Given(method, params, field) ==
    LET value == Value(params, field)
    IN  IF HasAlias(method, field) /\ ~IsGiven(method, value)
        THEN Value(params, Alias[method][field]) ELSE value

Accepts(method, field, params) == Given(method, params, field) \in Commands[method][field]

(* Checked before requireMedia: the others are arguments of the service call. *)
CheckedFirst(method) ==
    CASE method = "session.create" -> {"callId"}
      [] method = "webrtc.acceptAnswer" -> {"offerGeneration"}
      [] method = "rtp.createOffer" -> {"codecs", "srtp", "srtpOptional"}
      [] method = "endpoint.updateDirection" -> {"direction"}
      [] method = "recording.start" -> {"recordOutbound", "record_outbound"}
      [] OTHER -> {}

BothSrtp(method, params) ==
    method = "rtp.createOffer"
        /\ Value(params, "srtp") = "true" /\ Value(params, "srtpOptional") = "true"

Invalid(method, params, fields) == \E f \in fields : ~Accepts(method, f, params)

(* Mutant: a call being set up gets no media any more. *)
WhateverTheCall(method, params, call) == method \in {"sip.createOutbound", "session.create"}

(* A media session of a call that is up or being set up is no new work. *)
IsNewWork(method, params, call) ==
    \/ method = "sip.createOutbound"
    \/ method = "session.create" /\ (Value(params, "callId") \in Missing \/ ~call)

(* createOutbound asks before it looks at anything, session.create afterwards. *)
RefusedFirst(method) == method = "sip.createOutbound"

(* session.delete of a media session does not look at the SIP headers. *)
Unchecked(method, at) == IF method = "session.delete" /\ at.session THEN {"headers"} ELSE {}

(* An outbound call of no control connection needs a receiver for its events. *)
NeedsReceiver(method, params) ==
    method = "sip.createOutbound" /\ Value(params, "receiverUrl") \in Missing

(* The error a command fails with before it calls a service, or "none".  `at` *)
(* tells whether it came over a control connection, whether the gateway has   *)
(* rtpbridge and drains, and what the id in the parameters names.             *)
Check(method, params, at) ==
    LET first   == CheckedFirst(method)
        rest    == DOMAIN Commands[method] \ Unchecked(method, at)
        refused == at.draining /\ IsNewWork(method, params, at.call)
    IN
    IF method \in PlainCommands THEN "none"
    ELSE IF method \in NotImplemented THEN "CommandNotImplementedError"
    ELSE IF method \notin DOMAIN Commands THEN "CommandValidationError"
    ELSE IF refused /\ RefusedFirst(method) THEN "GatewayDrainingError"
    ELSE IF \/ params = NoObject \/ (params = NoParams /\ method \notin OptionalObject)
            \/ ~at.owner /\ NeedsReceiver(method, params)
            \/ Invalid(method, params, first) \/ BothSrtp(method, params)
         THEN "CommandValidationError"
    ELSE IF refused THEN "GatewayDrainingError"
    ELSE IF NeedsMedia(method) /\ ~at.media THEN "MediaUnavailableError"
    ELSE IF Invalid(method, params, rest \ {"headers"}) THEN "CommandValidationError"
    ELSE IF Invalid(method, params, rest \cap {"headers"}) THEN "InvalidHttpActionError"
    ELSE "none"

-----------------------------------------------------------------------------
(* What the services fail with, and the code a control connection is told. *)

NotFound == {"CallNotFoundError", "MediaSessionNotFoundError", "MediaEndpointNotFoundError",
             "MediaBackendNotFoundError"}
Unavailable == {"MediaUnavailableError", "MediaBackendUnavailableError"}

(* recordingProxyError by the status rtpbridge answered with. *)
ProxyErrors == {"MediaRecordingProxyError 400", "MediaRecordingProxyError 404",
                "MediaRecordingProxyError 502"}

controlErrorForCommand(error) ==
    CASE error = "GatewayDrainingError" -> "SHUTTING_DOWN"
      [] error = "CommandNotImplementedError" -> "NOT_IMPLEMENTED"
      [] error \in {"CommandValidationError", "InvalidHttpActionError"} -> "BAD_REQUEST"
      [] error = "MediaActionConflictError" -> "CONFLICT"
      [] error \in NotFound -> "NOT_FOUND"
      [] error \in Unavailable -> "MEDIA_UNAVAILABLE"
      [] error = "MediaRecordingProxyError 400" -> "BAD_REQUEST"
      [] error = "MediaRecordingProxyError 404" -> "NOT_FOUND"
      [] error = "MediaRecordingProxyError 502" -> "RECORDING_PROXY_ERROR"
      [] OTHER -> "undefined"
=============================================================================
