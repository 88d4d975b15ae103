------------------------------ MODULE ControlLog ------------------------------
(***************************************************************************)
(* control-log.ts: what of a control or rtpbridge message reaches the log. *)
(* A message body is a function from fields to the kinds of their values;  *)
(* rtpbridge writes the same names with underscores.  A text is made of    *)
(* pieces, and a piece of atoms: "card" is a run of six digits or more,    *)
(* "digits" a shorter one and "pin" one entered under protection.  Such a  *)
(* run within a name the sender chose is "longName", a JSON number of as  *)
(* many digits is "longNumber"; the others are harmless.  Each summary is *)
(* the set of atoms it leaves readable: lengths, counts and the types of   *)
(* values are left out.                                                    *)
(***************************************************************************)
EXTENDS FiniteSets, TLC

(* The texts a log has to cope with, by their pieces. *)
TextKinds == {"text", "direction", "card", "digits", "pin", "uri", "url", "file", "sdp"}

Pieces == [kind \in TextKinds |->
    CASE kind = "text" -> [base |-> {"word"}]
      [] kind = "direction" -> [base |-> {"keyword"}]
      [] kind = "uri" -> [user |-> {"card"}, host |-> {"host"}]
      [] kind = "url" ->
            [host |-> {"host"}, path |-> {"path", "card"}, keys |-> {"key", "longName"},
             query |-> {"card"}]
      [] kind = "file" -> [directory |-> {"card"}, base |-> {"word", "card"}]
      [] kind = "sdp" -> [codecs |-> {"codec"}, keying |-> {"card"}]
      [] OTHER -> [base |-> {kind}]]               \* digits, by themselves

IsText(kind) == kind \in TextKinds

Of(kind, pieces) == UNION {Pieces[kind][p] : p \in pieces \cap DOMAIN Pieces[kind]}
Whole(kind) == Of(kind, DOMAIN Pieces[kind])

(* redactDigitRuns replaces the digits of a run of six or more by tildes. *)
redactDigitRuns(atoms) == atoms \ {"card"}

typeMarker == {}                       \* the type alone

(* Names of fields, methods and events.  Those of the program hold no long run *)
(* of digits; of the others one is such a run, and one has it after a letter.  *)
LongRun == "4111111111111111"
LongLabel == "card.4111111111111111"

(* A name that starts with a letter is shown as it is, digits and all. *)
safeFieldName(name) ==
    CASE name = LongRun -> typeMarker
      [] name = LongLabel -> {"longName"}
      [] OTHER -> {"word"}
safeProtocolName(name) == safeFieldName(name)

summarizeSdp(kind) == IF IsText(kind) THEN Of(kind, {"codecs"}) ELSE typeMarker
summarizeHeaders(kind) == IF kind = "headers" THEN {"names", "longName"} ELSE typeMarker
summarizeUri(kind) ==
    IF IsText(kind) THEN redactDigitRuns(Of(kind, {"host", "path"})) ELSE typeMarker
summarizePath(kind) ==
    IF IsText(kind) THEN redactDigitRuns(Of(kind, {"base"})) ELSE typeMarker
summarizeUrlOrPath(kind) ==
    CASE kind = "url" -> redactDigitRuns(Of(kind, {"host", "path"})) \union Of(kind, {"keys"})
      [] kind = "uri" -> summarizeUri(kind)
      [] OTHER -> summarizePath(kind)

(* Digits are replaced one by one when they are protected or too many. *)
summarizeDigits(kind, sensitive) ==
    IF kind \in {"digits", "pin"} /\ ~sensitive THEN Whole(kind) ELSE typeMarker

(* Texts with other characters than those of an identifier give their length. *)
scrubIdentifier(kind) ==
    IF kind \in {"text", "direction", "card", "digits", "pin"} THEN redactDigitRuns(Whole(kind))
                                                        ELSE typeMarker
summarizeEnum(kind) == IF kind = "direction" THEN Whole(kind) ELSE typeMarker
summarizeRoutes(kind) == IF kind = "list" THEN {"keyword", "word"} ELSE typeMarker
summarizeIceConfiguration(kind) == IF kind = "object" THEN {"host"} ELSE typeMarker
summarizeAuth(kind) == typeMarker
summarizeArray(kind) == typeMarker
summarizeText(kind) == typeMarker

(* An error of the gateway, or the one another sent with a code of its own. *)
scrubError(kind) ==
    CASE kind = "error" -> {"code"}
      [] kind = "foreign error" -> {"code", "longName"}
      [] OTHER -> typeMarker
scrubControlError == {"name", "code", "status"}

-----------------------------------------------------------------------------
(* scrubKnownField: the first rule whose fields hold this one. *)

Secrets   == {"password", "credential", "connectToken", "token", "authorization"}
Sdps      == {"sdp", "sdpOffer", "sdpAnswer", "localSdp", "remoteSdp"}
Locations == {"source", "messageSource", "promptSource", "receiverUrl", "downloadPath"}
Uris      == {"requestUri", "destinationUri", "sourceUri", "from", "to", "contact", "proxy"}
Paths     == {"filePath", "recordingPath", "path"}
Arrays    == {"servers", "sessions", "recordings", "endpoints", "codecs"}
Enums     == {"direction", "action", "match", "event", "state", "oldState", "newState",
              "endpointType", "iceState", "tone"}
Identifiers == {"sessionId", "callId", "sipCallId", "outboundAttemptId", "endpointId",
                "targetSessionId", "target_session_id", "sourceSessionId", "targetEndpointId",
                "playbackEndpointId", "recordingId", "backendId", "connectionId", "eventId"}

scrubKnownField(field, kind, sensitive) ==
    CASE field \in Secrets -> typeMarker
      [] field \in Sdps -> summarizeSdp(kind)
      [] field = "headers" -> summarizeHeaders(kind)
      [] field = "auth" -> summarizeAuth(kind)
      [] field \in Locations -> summarizeUrlOrPath(kind)
      [] field \in Uris -> summarizeUri(kind)
      [] field \in Paths -> summarizePath(kind)
      [] field \in {"digit", "digits"} -> summarizeDigits(kind, sensitive)
      [] field = "terminator" -> summarizeDigits(kind, FALSE)
      [] field \in Identifiers -> scrubIdentifier(kind)
      [] field = "routes" -> summarizeRoutes(kind)
      [] field = "iceConfiguration" -> summarizeIceConfiguration(kind)
      [] field \in Arrays -> summarizeArray(kind)
      [] field \in Enums -> summarizeEnum(kind)
      [] field = "reason" -> summarizeText(kind)
      [] kind \in {"null", "true", "false", "zero", "integer", "negative", "fraction"} -> {"value"}
      [] kind = "long" -> {"longNumber"}           \* numbers are shown as they are
      [] OTHER -> typeMarker           \* texts by their length, lists by theirs

(* Fields the tables do not name show their name and type only. *)
scrubKnownObject(body, allowed, sensitive) ==
    UNION {safeFieldName(f)
            \union IF f \in allowed THEN scrubKnownField(f, body[f], sensitive) ELSE typeMarker :
                f \in DOMAIN body}

-----------------------------------------------------------------------------
(* The fields each message may show. *)

SipEventFields ==
    {"event", "callId", "sipCallId", "headers", "sdp", "status", "reason", "receivedAt"}

MediaFields ==
    "media.play" :> {"sessionId", "source", "loopCount", "cacheTtlSecs", "headers"}
    @@ "media.playAndWait" :> {"sessionId", "source", "playbackTimeoutMs"}
    @@ "media.stop" :> {"endpointId"}
    @@ "endpoint.updateDirection" :> {"endpointId", "direction"}
    @@ "media.bridge" :> {"sessionId", "targetSessionId", "target_session_id", "direction"}
    @@ "media.unbridge" :> {"endpointId"}
    @@ "media.gather" :> {"sessionId", "endpointId", "numDigits", "timeoutMs",
                          "interDigitTimeoutMs", "terminator", "sensitive"}
    @@ "media.playAndGather" :> {"sessionId", "endpointId", "source", "loopCount", "cacheTtlSecs",
                                 "headers", "numDigits", "timeoutMs", "interDigitTimeoutMs",
                                 "terminator", "stopPlaybackOnDigit", "postPlaybackTimeoutMs",
                                 "sensitive"}
    @@ "media.leaveMessage" :> {"sessionId", "endpointId", "messageSource", "promptSource",
                                "maxWaitMs", "maxDurationMs", "playbackTimeoutMs",
                                "silenceIntervalMs", "speechThreshold", "terminator"}
    @@ "dtmf.inject" :> {"endpointId", "digit"}
    @@ "recording.start" :> {"sessionId", "endpointId", "filePath"}
    @@ "recording.stop" :> {"recordingId"}
    @@ "recording.list" :> {"backendId", "startsWith", "skip", "limit"}
    @@ "recording.delete" :> {"backendId", "path"}
    @@ "event.ack" :> {"eventId", "sessionId", "sequence"}

RequestFields ==
    "route.register" :> {"routes"}
    @@ "session.get" :> {"sessionId"}
    @@ "session.delete" :> {"sessionId", "reason", "headers"}
    @@ "session.create" :> {"callId"}
    @@ "sip.createOutbound" :> {"requestUri", "sdp", "headers", "receiverUrl", "callingNumber",
                                "callingName", "proxy", "outboundAttemptId", "auth"}
    @@ "sip.cancelOutbound" :> {"outboundAttemptId"}
    @@ "sip.reinvite" :> {"sessionId", "callId", "sdp", "headers", "event", "sipCallId",
                          "receivedAt"}
    @@ "sip.bye" :> {"sessionId", "callId", "reason", "headers", "event", "sipCallId",
                     "receivedAt"}
    @@ "sip.invite" :> {"event", "callId", "sipCallId", "destinationUri", "destinationUser",
                        "sourceUri", "from", "to", "contact", "headers", "sdp", "receivedAt"}
    @@ "sip.answered" :> SipEventFields
    @@ "sip.terminated" :> SipEventFields
    @@ "webrtc.createOffer" :> {"sessionId", "direction"}
    @@ "webrtc.createFromOffer" :> {"sessionId", "sdp", "direction"}
    @@ "webrtc.acceptAnswer" :> {"endpointId", "sdp", "offerGeneration"}
    @@ "webrtc.acceptOffer" :> {"endpointId", "sdp"}
    @@ "webrtc.restartIce" :> {"endpointId"}
    @@ "rtp.createOffer" :> {"sessionId", "direction", "srtp", "srtpOptional", "codecs"}
    @@ "rtp.createFromOffer" :> {"sessionId", "sdp", "direction"}
    @@ "rtp.acceptAnswer" :> {"endpointId", "sdp"}
    @@ "rtp.reinvite" :> {"endpointId", "sdp"}
    @@ MediaFields

requestFields(method) == IF method \in DOMAIN RequestFields THEN RequestFields[method] ELSE {}

NoMethod == "no method"

CommonResponseFields ==
    {"ok", "sessionId", "sipCallId", "outboundAttemptId", "endpointId", "targetEndpointId",
     "recordingId", "backendId", "sdp", "sdpOffer", "sdpAnswer", "offerGeneration",
     "iceConfiguration", "action", "status", "reason", "headers", "receiverUrl", "digits",
     "terminatedBy", "playbackEndpointId", "messagePlayed", "terminator", "played", "deleted",
     "filePath", "recordingPath", "downloadPath", "durationMs", "packets", "routes", "sessions",
     "recordings", "total", "skip", "limit"}

responseFields(method) ==
    IF requestFields(method) # {} \/ method \in {"session.list", "sip.answer", "sip.reject"}
    THEN CommonResponseFields ELSE {}

eventFields(event) ==
    CASE event = "control.connected" -> {"connectionId"}
      [] event = "dtmf" -> {"endpointId", "digit", "durationMs", "sensitive"}
      [] event \in {"sip.answered", "sip.terminated", "sip.bye", "sip.reinvite"}
            -> requestFields(event)
      [] OTHER -> {}

(* rtpbridge's own methods; each endpoint method carries its endpoint. *)
rtpbridgeRequestFields(method) ==
    CASE method = "session.destroy" -> {"sessionId"}
      [] method \in {"endpoint.webrtc.create_offer"} -> {"sessionId", "direction"}
      [] method \in {"endpoint.webrtc.create_from_offer", "endpoint.rtp.create_from_offer"}
            -> {"sessionId", "sdp", "direction"}
      [] method = "endpoint.webrtc.accept_answer" -> {"endpointId", "sdp", "offerGeneration"}
      [] method \in {"endpoint.webrtc.accept_offer", "endpoint.rtp.accept_answer",
                     "endpoint.rtp.reinvite"} -> {"endpointId", "sdp"}
      [] method \in {"endpoint.webrtc.ice_restart", "endpoint.remove", "vad.stop"} -> {"endpointId"}
      [] method = "endpoint.rtp.create_offer"
            -> {"sessionId", "direction", "srtp", "srtpOptional", "codecs"}
      [] method = "session.bridge" -> {"targetSessionId", "direction"}
      [] method = "endpoint.dtmf.inject" -> {"endpointId", "digit"}
      [] method = "endpoint.dtmf.set_sensitive" -> {"endpointId", "enabled"}
      [] method = "endpoint.create_with_file"
            -> {"sessionId", "source", "loopCount", "startMs", "timeoutMs", "cacheTtlSecs",
                "shared", "headers"}
      [] method = "endpoint.create_tone" -> {"sessionId", "tone", "frequency", "durationMs"}
      [] method = "endpoint.update_direction" -> {"endpointId", "direction"}
      [] method = "recording.start" -> {"sessionId", "endpointId", "filePath"}
      [] method = "recording.stop" -> {"recordingId"}
      [] method = "vad.start" -> {"endpointId", "silenceIntervalMs", "speechThreshold"}
      [] OTHER -> {}                   \* session.create, server.info and unknown ones

rtpbridgeResponseFields(method) ==
    IF rtpbridgeRequestFields(method) # {} \/ method \in {"session.create", "server.info"}
    THEN {"sessionId", "endpointId", "targetEndpointId", "recordingId", "sdp", "sdpOffer",
          "sdpAnswer", "offerGeneration", "connectToken", "filePath", "durationMs", "packets",
          "hostname", "version", "mediaIp", "tone", "ok"}
    ELSE {}

(* Events of the families endpoint, recording, session, vad, fax, and "dtmf". *)
rtpbridgeEventFields(event) ==
    IF event \in {"unknown", LongRun, LongLabel} THEN {}
    ELSE {"endpointId", "recordingId", "targetSessionId", "sourceSessionId", "sessionId", "digit",
          "durationMs", "sensitive", "oldState", "newState", "iceState", "reason", "error",
          "filePath", "packets", "droppedPackets", "silenceDurationMs", "timeoutRemainingMs",
          "idleTimeoutSecs", "emptyTimeoutSecs", "count", "endpoints"}

-----------------------------------------------------------------------------
(* Whole messages. *)

(* Mutant: a prompt does not protect the digits after it. *)
OnlyGather(method, params) ==
    method = "media.gather" /\ "sensitive" \in DOMAIN params /\ params.sensitive = "true"

isSensitiveControlRequest(method, params) ==
    /\ method \in {"media.gather", "media.playAndGather"}
    /\ "sensitive" \in DOMAIN params /\ params.sensitive = "true"

scrubControlRequest(id, method, params) ==
    scrubIdentifier(id) \union safeProtocolName(method)
    \union scrubKnownObject(params, requestFields(method), isSensitiveControlRequest(method, params))

(* Whoever gives no context has its digits protected; `error` is its kind. *)
scrubControlResponse(id, method, sensitive, result, error) ==
    scrubIdentifier(id) \union (IF method = NoMethod THEN {} ELSE safeProtocolName(method))
    \union IF error # "none" THEN scrubError(error)
            ELSE scrubKnownObject(result, responseFields(method), sensitive)

(* Digits of an event are protected unless it says they are not. *)
eventIsSensitiveDtmf(data) == ~("sensitive" \in DOMAIN data /\ data.sensitive = "false")

scrubRtpbridgeEvent(event, data) ==
    safeProtocolName(event)
    \union scrubKnownObject(data, rtpbridgeEventFields(event),
                            event = "dtmf" /\ eventIsSensitiveDtmf(data))

scrubNestedRtpbridgeEvent(event, data) == scrubRtpbridgeEvent(event, data)

(* media.rtpbridge carries an event of rtpbridge, `inner`, scrubbed as such. *)
scrubControlEvent(event, inner, data) ==
    safeProtocolName(event)
    \union IF event = "media.rtpbridge" THEN scrubNestedRtpbridgeEvent(inner, data)
            ELSE scrubKnownObject(data, eventFields(event),
                                  event = "dtmf" /\ eventIsSensitiveDtmf(data))

scrubRtpbridgeRequest(id, method, params) ==
    scrubIdentifier(id) \union safeProtocolName(method)
    \union scrubKnownObject(params, rtpbridgeRequestFields(method), TRUE)

scrubRtpbridgeResponse(id, method, result, error) ==
    scrubIdentifier(id) \union safeProtocolName(method)
    \union IF error # "none" THEN scrubError(error)
            ELSE scrubKnownObject(result, rtpbridgeResponseFields(method), TRUE)
=============================================================================
