----------------------------- MODULE ControlPlane -----------------------------
(***************************************************************************)
(* What applications and the SIP proxy ask of the gateway, and how it      *)
(* answers: HTTP requests (http-server.ts), requests on a control          *)
(* connection (control-server.ts), route lookups and the INVITEs that      *)
(* follow them.  One exchange is looked at at a time; between its steps    *)
(* the gateway drains and stops, connections come, go and replace their    *)
(* routes, and what the ids in it name appears and disappears.  What a     *)
(* command does once its parameters are accepted is in the modules of the  *)
(* services; here it succeeds or fails with one of their errors.           *)
(***************************************************************************)
EXTENDS Routing, ControlProtocol, ControlLog

CONSTANTS
    Conns,          \* control connections
    RouteLists,     \* the sets of routes a registration may carry, as parsed
    Targets,        \* SIP URIs lookups and INVITEs are about
    Users,          \* other values of destinationUser in a lookup
    Domains,        \* values of `domain` in a lookup of the SIP proxy
    Replies,        \* replies to sip.invite and to its HTTP form
    Configs,        \* configurations, see ConfigType
    Ids,            \* ids of requests, by the kind of their text
    Bodies(_),      \* the parameters a command may come with
    Messages        \* messages of an application that are no requests

ConfigType ==
    [domains: SUBSET Hosts,                \* NoDomains: SIP_ALLOWED_DOMAINS is not set
     routes: SUBSET UNION RouteLists,      \* ROUTES_JSON
     media: BOOLEAN,                       \* RTPBRIDGE_HOST is set
     mediaRequired: BOOLEAN, routesRequired: BOOLEAN,
     tag: BOOLEAN, fallback: BOOLEAN,      \* DRACHTIO_APP_TAG, DRACHTIO_ROUTE_FALLBACK_URL
     bearer: BOOLEAN]                      \* CONTROL_AUTH_MODE is bearer

IsSequence(s) == s \in Seq(Range(s))

(* "http" names the other transport.  A field of a message is the kind of its *)
(* value; no digit entered under protection comes from an application.        *)
ASSUME PlaneAssumption ==
    /\ Configs \subseteq ConfigType
    /\ "http" \notin Conns
    /\ Ids \subseteq Texts
    /\ \A s \in Targets \union Users \union Domains : IsSequence(s)
    /\ \A message \in Messages : message \in [DOMAIN message -> Kinds]

VARIABLES
    config,
    phase,          \* "running", "draining" or "stopping"
    isConnected,    \* drachtio is connected
    mediaReady,
    routes,         \* [open connections -> their routes]
    names,          \* what the ids of commands name: "none", "call" or "session"
    exchange        \* the exchange looked at

vars == <<config, phase, isConnected, mediaReady, routes, names, exchange>>
world == <<config, phase, isConnected, mediaReady, routes, names>>

isDraining == phase # "running"
isStopping == phase = "stopping"

Idle == [stage |-> "idle"]
Answered(transport, method, answer) ==
    [stage |-> "answered", transport |-> transport, method |-> method, answer |-> answer,
     logged |-> {}]

Logged(x, atoms) == [x EXCEPT !.logged = @ \union atoms]

(* Nothing reads an answer once it is given, so nothing else happens before   *)
(* the exchange is finished.                                                  *)
InProgress == exchange.stage # "answered"

-----------------------------------------------------------------------------
(* Admission, lookups and INVITEs. *)

HasRoutes == config.routes # {} \/ \E c \in DOMAIN routes : routes[c] # {}

admitting ==
    /\ isConnected
    /\ ~isDraining
    /\ config.mediaRequired => mediaReady
    /\ config.routesRequired => HasRoutes

findRoute(destination) == \E c \in DOMAIN routes : matchRoute(routes[c], destination)

Routed(destination) == findRoute(destination) \/ matchRoute(config.routes, destination)

lookup(uri, user) ==
    LET matched == acceptsSipHost(uri, config.domains) /\ Routed([uri |-> uri, user |-> user])
    IN  [matched |-> matched, acceptNew |-> matched /\ admitting /\ config.tag]

(* History: a lookup said the destination is accepted, by these routes.       *)
Registered == config.routes \union UNION {routes[c] : c \in DOMAIN routes}

Promised(uri, user) ==
    [stage |-> "promised", uri |-> uri, user |-> user,
     by |-> {r \in Registered : Matches(r, [uri |-> uri, user |-> user])}]

(* The user of a lookup: as given, or that of the URI. *)
UserOf(uri, given) == IF given = <<>> THEN getSipUser(uri) ELSE given

IsSipUri(uri) == uri # <<>> /\ Head(uri) = SipScheme

(* httpBearerAuth and the operation every request counts as; `next` otherwise. *)
Guarded(authorized, method, next) ==
    CASE isStopping -> exchange' = Answered("http", method, "503 SHUTTING_DOWN")
      [] config.bearer /\ ~authorized -> exchange' = Answered("http", method, "401")
      [] OTHER -> next

(* POST /routing/lookup. *)
RoutingLookup(uri, given, authorized) ==
    /\ exchange = Idle
    /\ Guarded(authorized, "lookup",
            exchange' = IF ~IsSipUri(uri) THEN Answered("http", "lookup", "400")
                        ELSE IF lookup(uri, UserOf(uri, given)).acceptNew
                             THEN Promised(uri, UserOf(uri, given))
                        ELSE Answered("http", "lookup", "200"))
    /\ UNCHANGED world

(* The URI of a lookup that names user and domain only. *)
buildSipUri(user, domain) ==
    <<SipScheme>> \o user \o (IF domain = <<>> THEN <<>> ELSE <<At>> \o domain)

drachtioRoute(uri, user) ==
    IF ~acceptsSipHost(uri, config.domains) THEN "404"
    ELSE IF lookup(uri, user).matched THEN IF admitting THEN "route" ELSE "503"
    ELSE IF config.fallback THEN "fallback"     \* whatever the fallback answers, or 502
    ELSE "404"

(* GET /drachtio/route, which needs no token. *)
DrachtioRoute(uri, user) ==
    /\ exchange = Idle
    /\ config.tag
    /\ exchange' = IF isStopping THEN Answered("http", "route", "503 SHUTTING_DOWN")
                   ELSE IF drachtioRoute(uri, UserOf(uri, user)) = "route"
                        THEN Promised(uri, UserOf(uri, user))
                   ELSE Answered("http", "route", "200")
    /\ UNCHANGED world

(* Mutant: an INVITE is admitted like a lookup, which rtpbridge may delay, say. *)
AsksAdmission(uri) ==
    IF lookup(uri, getSipUser(uri)).acceptNew THEN "none" ELSE "503"

(* handleInvite and handleAdmittedInvite up to the question to the owner.      *)
InviteRefusal(uri) ==
    LET destinationUri == stripSipUri(uri)
        destination == [uri |-> destinationUri, user |-> getSipUser(destinationUri)]
    IN  CASE isDraining -> "503"
          [] ~acceptsSipHost(destinationUri, config.domains) -> "404"
          [] ~Routed(destination) -> "404"
          [] OTHER -> "none"

(* What becomes of the owner's reply; a control route comes before an HTTP one. *)
InviteAnswer(uri, reply) ==
    LET destination == [uri |-> stripSipUri(uri), user |-> getSipUser(stripSipUri(uri))]
        action == parseSipActionResponse(reply.body, ~findRoute(destination))
        failure == IF findRoute(destination) /\ reply.outcome # "ok" THEN "ECONNABORTED"
                   ELSE postJson(reply.outcome)
    IN  CASE failure # "none" -> sipStatusForError(failure)
          [] action = "answer" -> "200"
          [] action = "reject" -> "3xx-6xx"
          [] OTHER -> sipStatusForError("InvalidHttpActionError")

(* An INVITE, looked up before or not.  That the gateway stops while the owner *)
(* decides is in SipGateway.                                                   *)
Invite(uri, reply) ==
    /\ exchange = Idle \/ (exchange.stage = "promised" /\ exchange.uri = uri)
    /\ isConnected
    /\ exchange' = Answered("sip", "INVITE",
            CASE InviteRefusal(uri) = "503" -> "503"
              [] InviteRefusal(uri) = "404" -> "404"
              [] OTHER -> InviteAnswer(uri, reply))
    /\ UNCHANGED world

-----------------------------------------------------------------------------
(* HTTP. *)

ByStatus ==
    {"CallNotFoundError"} \X {"404"} \union NotFound \X {"404"} \union Unavailable \X {"503"}
    \union {<<"GatewayDrainingError", "503 SHUTTING_DOWN">>, <<"InvalidCallStateError", "409">>,
            <<"MediaActionConflictError", "409">>, <<"MediaRecordingProxyError 400", "400">>,
            <<"MediaRecordingProxyError 404", "404">>, <<"MediaRecordingProxyError 502", "502">>,
            <<"CommandValidationError", "400">>, <<"InvalidHttpActionError", "400">>,
            <<"CommandNotImplementedError", "501">>, <<"none", "200">>}

(* The error handler of the app. *)
HttpStatus(error) ==
    IF \E p \in ByStatus : p[1] = error THEN (CHOOSE p \in ByStatus : p[1] = error)[2] ELSE "500"

BySession == {"session.get", "session.delete", "webrtc.createOffer", "webrtc.createFromOffer",
              "rtp.createOffer", "rtp.createFromOffer", "media.play", "media.playAndWait",
              "media.bridge", "media.gather", "media.playAndGather", "media.leaveMessage",
              "recording.start", "sip.reinvite", "sip.bye"}
ByEndpoint == {"webrtc.acceptAnswer", "webrtc.acceptOffer", "webrtc.restartIce", "rtp.acceptAnswer",
               "rtp.reinvite", "media.unbridge", "dtmf.inject", "endpoint.updateDirection",
               "media.stop"}

(* The ids in the path of each command's route. *)
PathFields(method) ==
    CASE method \in BySession -> {"sessionId"}
      [] method \in ByEndpoint -> {"endpointId"}
      [] method = "recording.stop" -> {"recordingId"}
      [] method = "recording.delete" -> {"backendId", "path"}
      [] OTHER -> {}

BodyLess == {"session.list", "session.get", "webrtc.restartIce", "media.unbridge", "media.stop",
             "recording.stop", "recording.delete"}

HttpCommands ==
    BySession \union ByEndpoint
    \union {"recording.stop", "recording.delete", "recording.list", "session.create",
            "sip.createOutbound", "session.list"}

Path(method) == [f \in PathFields(method) |-> "text"]

(* parseQueryInteger: numbers that are no integers stay texts. *)
QueryInteger(kind) ==
    CASE kind \in {"absent", "blank", "texts"} -> "absent"
      [] kind \in IntegerKinds -> kind
      [] OTHER -> "text"

QueryKinds == Texts \union IntegerKinds \union {"absent", "blank", "fraction", "texts"}

(* recordingListQuery. *)
ListQuery(query) ==
    [startsWith |-> IF Value(query, "startsWith") \in {"absent", "texts"} THEN "absent"
                    ELSE IF Value(query, "startsWith") = "blank" THEN "blank" ELSE "text",
     skip |-> QueryInteger(Value(query, "skip")), limit |-> QueryInteger(Value(query, "limit"))]

(* Mutant: the body is spread over the id of the path. *)
BodyWins(method, body) ==
    CASE method = "recording.list" -> ListQuery(body)
      [] method \in BodyLess -> Path(method)
      [] OTHER -> body @@ Path(method)

(* The id of the path is spread over the body. *)
HttpParams(method, body) ==
    CASE method = "recording.list" -> ListQuery(body)
      [] method \in BodyLess -> Path(method)
      [] PathFields(method) = {} -> body
      [] OTHER -> [f \in PathFields(method) \union DOMAIN body |->
                    IF f \in PathFields(method) THEN Path(method)[f] ELSE body[f]]

(* What the checks depend on. *)
Now(owner) ==
    [owner |-> owner, media |-> config.media, draining |-> isDraining,
     call |-> names = "call", session |-> names = "session"]

(* /calls/:id/reinvite and /calls/:id/bye check for themselves. *)
HttpCheck(method, params) ==
    CASE method \in {"sip.reinvite", "sip.bye"} ->
            IF method = "sip.reinvite" /\ Value(params, "sdp") \notin Texts
            THEN "CommandValidationError"           \* Missing sdp
            ELSE IF Value(params, "headers") \notin parseOptionalHeaders
            THEN "InvalidHttpActionError" ELSE "none"
      [] OTHER -> Check(method, params, Now(FALSE))

-----------------------------------------------------------------------------
(* Commands of either transport. *)

(* errorForCommand. *)
ControlCode(error) ==
    CASE error = "none" -> "ok"
      [] controlErrorForCommand(error) # "undefined" -> controlErrorForCommand(error)
      [] error = "InvalidCallStateError" -> "CONFLICT"
      [] error \in {"BAD_MESSAGE", "ROUTE_CONFLICT"} -> error    \* a ControlProtocolError
      [] OTHER -> "INTERNAL_ERROR"

Answer(transport, error) == IF transport = "http" THEN HttpStatus(error) ELSE ControlCode(error)

(* History: does the command work with what the gateway has already? *)
IsExistingWork(method, params) ==
    CASE method \in {"sip.createOutbound", "route.register"} -> FALSE
      [] method = "session.create" -> names = "call" /\ Value(params, "callId") \in Texts
      [] OTHER -> TRUE

(* What of a command matters once it is checked: its id, which HTTP has none *)
(* of, whether its response is logged as a sensitive one, and whether its    *)
(* digits are protected.  `existing`, `refused`, `needsReceiver` and `twin`  *)
(* are history.                                                              *)
Command(transport, id, method, params, twin) ==
    [stage |-> "running", transport |-> transport, id |-> id, method |-> method,
     answer |-> "none", logged |-> {}, twin |-> twin, existing |-> IsExistingWork(method, params),
     refused |-> FALSE, needsReceiver |-> NeedsReceiver(method, params),
     sensitive |-> isSensitiveControlRequest(method, params),
     digits |-> IF Value(params, "sensitive") = "true" THEN "pin" ELSE "any digits"]

(* handleRequest logs the id and the method once as they are, beside the body. *)
logContext(id, method) ==
    {"word"} \union IF id = "card" \/ method \in {LongRun, LongLabel} THEN {"longName"} ELSE {}

(* What sendResponse and handleRequest log of the answer to a request.        *)
AnswerLog(x, error, result) ==
    IF x.transport = "http" THEN {}
    ELSE IF error = "none"
    THEN scrubControlResponse(x.id, x.method, x.sensitive, result, "none")
    ELSE scrubControlError
            \union scrubControlResponse(x.id, x.method, x.sensitive, result, "error")

(* A command is checked and runs, or is answered at once. *)
Begin(x, error) ==
    exchange' = IF error = "none" THEN x
                ELSE [x EXCEPT !.stage = "answered", !.refused = TRUE,
                               !.answer = Answer(x.transport, error),
                               !.logged = @ \union AnswerLog(x, error, NoObject)]

(* A request with a body that is no JSON is refused before anything else. *)
BadBody(status) ==
    /\ exchange = Idle
    /\ exchange' = Answered("http", "unparsed", status)
    /\ UNCHANGED world

(* A command over HTTP.  `twin` is the code a control connection would be told *)
(* of the same parameters.                                                     *)
ReceiveHttp(method, body, authorized) ==
    /\ exchange = Idle
    /\ method \in HttpCommands
    /\ method = "recording.list" => \A f \in DOMAIN body : body[f] \in QueryKinds
    /\ LET params == HttpParams(method, body)
           sent == IF method \in BodyLess \union {"recording.list"} THEN params
                   ELSE [f \in DOMAIN body \union PathFields(method) |->
                            IF f \in PathFields(method) THEN "text" ELSE body[f]]
           twin == ControlCode(Check(method, sent, Now(TRUE)))
           x == Command("http", "none", method, params, twin)
       IN  Guarded(authorized, method, Begin(x, HttpCheck(method, params)))
    /\ UNCHANGED world

(* A request of a control connection.  route.register is the server's own.     *)
ReceiveControl(c, id, method, params) ==
    /\ exchange = Idle
    /\ c \in DOMAIN routes
    /\ method # "route.register"
    /\ LET x == Logged(Command(c, id, method, params, "ok"),
                        logContext(id, method) \union scrubControlRequest(id, method, params))
       IN  Begin(x, IF isStopping THEN "GatewayDrainingError" ELSE Check(method, params, Now(TRUE)))
    /\ UNCHANGED world

KeysIn(list) == {<<r.match, r.value>> : r \in list}

(* assertAccepting comes first, then the parameters, then the other owners.    *)
(* The list replaces the routes the connection had, whatever was promised of   *)
(* those; such a registration is not the exchange looked at.                   *)
RegisterRoutes(c, id, list) ==
    /\ InProgress
    /\ c \in DOMAIN routes
    /\ LET next == Normalized(list)
           params == [routes |-> "list"]
           error == CASE isDraining -> "GatewayDrainingError"
                      [] \E r \in list : ~IsRoute(r) -> "BAD_MESSAGE"
                      [] \E d \in DOMAIN routes \ {c} : KeysIn(routes[d]) \cap KeysIn(next) # {}
                            -> "ROUTE_CONFLICT"
                      [] OTHER -> "none"
           x == Command(c, id, "route.register", params, "ok")
           atoms == logContext(id, "route.register")
                    \union scrubControlRequest(id, "route.register", params)
                    \union AnswerLog(x, error, params)
       IN  /\ routes' = IF error = "none" THEN [routes EXCEPT ![c] = next] ELSE routes
           /\ exchange' = IF exchange # Idle THEN exchange
                          ELSE [x EXCEPT !.stage = "answered", !.answer = ControlCode(error),
                                         !.logged = atoms]
    /\ UNCHANGED <<config, phase, isConnected, mediaReady, names>>

(* Messages that are no requests: a response nobody waits for and an event are  *)
(* logged, anything else is answered without an id.  `name` is the text of its  *)
(* event.                                                                       *)
ReceiveOther(c, type, name, message) ==
    /\ exchange = Idle
    /\ c \in DOMAIN routes
    /\ parseControlMessage(type, message) # "request"
    /\ exchange' =
            CASE parseControlMessage(type, message) = "response" ->
                    Logged(Answered(c, "response", "nothing"),
                           scrubControlResponse(message.id, NoMethod, TRUE, message,
                                IF message.ok = "true" THEN "none" ELSE "foreign error"))
              [] parseControlMessage(type, message) = "event" ->
                    Logged(Answered(c, "event", "nothing"), scrubControlEvent(name, "dtmf", message))
              [] OTHER -> Answered(c, "unparsed", "BAD_MESSAGE")
    /\ UNCHANGED world

(* The errors a service fails with. *)
ServiceErrors(method) ==
    CASE method \in {"session.list", "event.ack"} -> {}
      [] method \in {"session.get", "session.delete", "sip.bye", "sip.reinvite",
                     "sip.cancelOutbound"} -> {"CallNotFoundError", "InvalidCallStateError"}
      [] method = "sip.createOutbound" -> {"Error"}
      [] method \in DOMAIN RecordingCommands -> NotFound \union Unavailable \union ProxyErrors
      [] OTHER -> NotFound \union Unavailable \union {"MediaActionConflictError", "Error"}

MayFail(method) ==
    ServiceErrors(method)
        \union IF isStopping /\ method \in {"sip.createOutbound", "session.create"}
               THEN {"GatewayDrainingError"} ELSE {}

(* Digits a caller entered: so many that they are a long run, or fewer. *)
Entered(digits) == IF digits = "pin" THEN {"pin", "card"} ELSE {"digits", "card"}

(* What a result may hold. *)
Result(method, digits) ==
    IF method \in {"media.gather", "media.playAndGather"}
    THEN [endpointId |-> "card", digits |-> digits, terminatedBy |-> "text", durationMs |-> "long",
          future |-> "card"]
    ELSE [endpointId |-> "card", sdpOffer |-> "sdp", filePath |-> "file", ok |-> "true",
          future |-> "card"]

(* The service is done.  A control connection that went is told nothing. *)
Done(error) ==
    /\ exchange.stage = "running"
    /\ error = "none" \/ error \in MayFail(exchange.method)
    /\ \E digits \in Entered(exchange.digits) :
          LET x == exchange
              answered == [x EXCEPT !.stage = "answered", !.answer = Answer(x.transport, error)]
          IN  exchange' = IF x.transport \notin DOMAIN routes \union {"http"} THEN Idle
                          ELSE Logged(answered, AnswerLog(x, error, Result(x.method, digits)))
    /\ UNCHANGED world

-----------------------------------------------------------------------------
(* Messages of the gateway and of rtpbridge. *)

Numbers ==
    {"status", "offerGeneration", "durationMs", "packets", "total", "skip", "limit", "loopCount",
     "cacheTtlSecs", "startMs", "timeoutMs", "frequency", "silenceIntervalMs", "speechThreshold",
     "droppedPackets", "silenceDurationMs", "timeoutRemainingMs", "idleTimeoutSecs",
     "emptyTimeoutSecs", "count"}

(* A body with a long run of digits in every field it may show and in others, *)
(* some of which have one for a name; `digit` are the digits it reports.      *)
TellingBody(fields, digit) ==
    [f \in fields \union {"future", LongRun, LongLabel} |->
        CASE f \in Sdps -> "sdp"
          [] f \in Locations -> "url"
          [] f \in Uris -> "uri"
          [] f \in Paths -> "file"
          [] f \in {"headers", "direction"} -> f
          [] f \in {"digit", "digits"} -> digit
          [] f \in Numbers -> "long"
          [] OTHER -> "card"]

(* What is logged of a message is the whole exchange then. *)
Message(peer, method, atoms) ==
    /\ exchange = Idle
    /\ exchange' = Logged(Answered(peer, method, "nothing"), atoms)
    /\ UNCHANGED world

(* An event of rtpbridge is logged as it comes and as it goes to the owner. *)
RtpbridgeEvent(event, data) ==
    Message("rtpbridge", event,
        scrubRtpbridgeEvent(event, data) \union scrubControlEvent("media.rtpbridge", event, data))

(* A digit is a protected one unless the event says it is not.  That the owner *)
(* is not told protected ones is in EndpointActions.                           *)
DtmfEvent(flag) ==
    \E digit \in Entered(IF flag = "false" THEN "any digits" ELSE "pin") :
        RtpbridgeEvent("dtmf", [endpointId |-> "card", digit |-> digit, sensitive |-> flag])

OtherRtpbridgeEvent(event) ==
    RtpbridgeEvent(event, TellingBody(rtpbridgeEventFields(event), "card"))

(* The gateway asks the owner of a call, and tells it what becomes of it. *)
OwnerRequest(c, method, error) ==
    /\ c \in DOMAIN routes
    /\ Message(c, method,
            scrubControlRequest("card", method, TellingBody(requestFields(method), "card"))
            \union scrubControlResponse("card", method, FALSE,
                        TellingBody(CommonResponseFields, "digits"), error))

OwnerEvent(c, event) ==
    /\ c \in DOMAIN routes
    /\ Message(c, event, scrubControlEvent(event, "none", TellingBody(eventFields(event), "card")))

OwnerRequests == {"sip.invite", "sip.reinvite"}
OwnerEvents ==
    {"sip.answered", "sip.terminated", "sip.bye", "control.connected", "gateway.draining"}

(* A request to rtpbridge and its response, which may be one nobody waits for. *)
RtpbridgeMethods ==
    {"session.create", "session.destroy", "server.info", "session.bridge", "recording.start",
     "recording.stop", "vad.start", "vad.stop", "unknown"}
    \union {"endpoint." \o m : m \in
        {"webrtc.create_offer", "webrtc.create_from_offer", "webrtc.accept_answer",
         "webrtc.accept_offer", "webrtc.ice_restart", "rtp.create_offer", "rtp.create_from_offer",
         "rtp.accept_answer", "rtp.reinvite", "dtmf.inject", "dtmf.set_sensitive",
         "create_with_file", "create_tone", "remove", "update_direction"}}

(* The digits to inject are taken for protected ones, and so is any reply.     *)
RtpbridgeRequest(method, error) ==
    Message("rtpbridge", method,
        scrubRtpbridgeRequest("card", method, TellingBody(rtpbridgeRequestFields(method), "pin"))
        \union scrubRtpbridgeResponse("card", method,
                    TellingBody(rtpbridgeResponseFields(method), "pin"), error))

(* GET /healthz, /readyz, which need no token and are answered by a gateway *)
(* that stops, too.                                                         *)
Probe(method) ==
    /\ exchange = Idle
    /\ exchange' = Answered("http", method,
            IF (method = "healthz" /\ isConnected) \/ (method = "readyz" /\ admitting)
            THEN "200" ELSE "503")
    /\ UNCHANGED world

(* POST /drain and /terminate: answered while the drain begins. *)
RequestDrain(authorized) ==
    /\ exchange = Idle
    /\ LET admitted == ~isStopping /\ (config.bearer => authorized)
       IN  /\ Guarded(authorized, "drain", exchange' = Answered("http", "drain", "202"))
           /\ phase' = IF admitted /\ phase = "running" THEN "draining" ELSE phase
    /\ UNCHANGED <<config, isConnected, mediaReady, routes, names>>

(* The exchange is over. *)
Finish ==
    /\ exchange.stage \in {"answered", "promised"}
    /\ exchange' = Idle
    /\ UNCHANGED world

-----------------------------------------------------------------------------
(* Meanwhile. *)

Drain ==
    /\ InProgress
    /\ phase = "running"
    /\ phase' = "draining"
    /\ UNCHANGED <<config, isConnected, mediaReady, routes, names, exchange>>

Stop ==
    /\ InProgress
    /\ phase = "draining"
    /\ phase' = "stopping"
    /\ UNCHANGED <<config, isConnected, mediaReady, routes, names, exchange>>

SipChanges ==
    /\ InProgress
    /\ isConnected' = ~isConnected
    /\ UNCHANGED <<config, phase, mediaReady, routes, names, exchange>>

MediaChanges ==
    /\ InProgress
    /\ config.media
    /\ mediaReady' = ~mediaReady
    /\ UNCHANGED <<config, phase, isConnected, routes, names, exchange>>

NamesChange ==
    /\ InProgress
    /\ names' \in {"none", "call", "session"} \ {names}
    /\ names' = "session" => config.media
    /\ UNCHANGED <<config, phase, isConnected, mediaReady, routes, exchange>>

Connect(c) ==
    /\ InProgress
    /\ c \notin DOMAIN routes
    /\ ~isDraining
    /\ routes' = [d \in DOMAIN routes \union {c} |-> IF d = c THEN {} ELSE routes[d]]
    /\ UNCHANGED <<config, phase, isConnected, mediaReady, names, exchange>>

Disconnect(c) ==
    /\ InProgress
    /\ c \in DOMAIN routes
    /\ routes' = [d \in DOMAIN routes \ {c} |-> routes[d]]
    /\ UNCHANGED <<config, phase, isConnected, mediaReady, names, exchange>>

Init ==
    /\ config \in Configs
    /\ phase = "running"
    /\ isConnected = FALSE
    /\ mediaReady = FALSE
    /\ routes = [c \in {} |-> {}]
    /\ names = "none"
    /\ exchange = Idle

LookupNext ==
    \/ \E u \in Targets, given \in Users, a \in BOOLEAN : RoutingLookup(u, given, a)
    \/ \E u \in Targets, given \in Users : DrachtioRoute(u, given)
    \/ \E given \in Users, d \in Domains : DrachtioRoute(buildSipUri(given, d), given)
    \/ \E u \in Targets, reply \in Replies : Invite(u, reply)

HttpNext ==
    \/ \E m \in HttpCommands, a \in BOOLEAN : \E body \in Bodies(m) : ReceiveHttp(m, body, a)
    \/ \E status \in {"400", "413"} : BadBody(status)
    \/ \E m \in {"healthz", "readyz"} : Probe(m)
    \/ \E a \in BOOLEAN : RequestDrain(a)

Methods ==
    DOMAIN Commands \union PlainCommands \union NotImplemented
    \union {"future.method", LongRun, LongLabel}

(* A parameter is the kind of its value, and no digits of a caller.            *)
ASSUME BodiesAssumption ==
    \A method \in Methods \union HttpCommands : \A body \in Bodies(method) :
        body \in [DOMAIN body -> Kinds]

EventNames == {"dtmf", "media.rtpbridge", "control.connected", "sip.bye", LongRun, LongLabel}

ControlNext ==
    \E c \in Conns :
        \/ \E id \in Ids, m \in Methods : \E params \in Bodies(m) :
                ReceiveControl(c, id, m, params)
        \/ \E id \in Ids, list \in RouteLists : RegisterRoutes(c, id, list)
        \/ \E t \in {"request", "response", "event", "other"}, name \in EventNames,
              message \in Messages : ReceiveOther(c, t, name, message)
        \/ \E m \in OwnerRequests, error \in {"none", "error", "foreign error"} :
                OwnerRequest(c, m, error)
        \/ \E e \in OwnerEvents : OwnerEvent(c, e)
        \/ Connect(c)
        \/ Disconnect(c)

Next ==
    \/ LookupNext
    \/ HttpNext
    \/ ControlNext
    \/ \E error \in {"none", "GatewayDrainingError"} \union UNION {ServiceErrors(m) : m \in Methods} :
            Done(error)
    \/ \E flag \in {"true", "false", "absent"} : DtmfEvent(flag)
    \/ \E e \in {"endpoint.state_changed", "unknown", LongRun, LongLabel} : OtherRtpbridgeEvent(e)
    \/ \E m \in RtpbridgeMethods, error \in {"none", "error", "foreign error"} :
            RtpbridgeRequest(m, error)
    \/ Finish
    \/ Drain \/ Stop \/ SipChanges \/ MediaChanges \/ NamesChange

Spec == Init /\ [][Next]_vars

-----------------------------------------------------------------------------
(* Properties. *)

(* A destination a lookup said is accepted gets its INVITE admitted, however   *)
(* often connections come, go and replace their routes meanwhile and drachtio  *)
(* and rtpbridge fail, as long as one of the routes that matched it is still   *)
(* registered, by whichever connection, and the gateway does not drain.  And   *)
(* both lookups make the same promises, compared before an exchange begins.    *)
(* Lookups may name another user than the URI's, which an INVITE cannot.       *)
LookupIsHonest ==
    /\ (/\ exchange.stage = "promised" /\ exchange.user = getSipUser(exchange.uri)
        /\ exchange.by \cap Registered # {} /\ ~isDraining)
            => InviteRefusal(exchange.uri) = "none"
    /\ (exchange = Idle /\ config.tag) => \A uri \in Targets :
            lookup(uri, getSipUser(uri)).acceptNew
                <=> drachtioRoute(uri, getSipUser(uri)) = "route"

(* A draining gateway refuses no command about what it has already: calls,     *)
(* media sessions, and media for a call being set up.  And no new work begins  *)
(* once it drains.                                                             *)
DrainRefusesOnlyNewWork ==
    [][/\ (exchange = Idle /\ exchange'.stage = "answered" /\ phase = "draining"
            /\ exchange'.answer \in {"SHUTTING_DOWN", "503 SHUTTING_DOWN"})
                => ~exchange'.existing
       /\ (exchange = Idle /\ exchange'.stage = "running") => exchange'.existing \/ ~isDraining]_vars

(* The statuses and codes that say the same. *)
Same ==
    {<<"200", "ok">>, <<"400", "BAD_REQUEST">>, <<"404", "NOT_FOUND">>, <<"409", "CONFLICT">>,
     <<"501", "NOT_IMPLEMENTED">>, <<"503 SHUTTING_DOWN", "SHUTTING_DOWN">>, <<"503", "MEDIA_UNAVAILABLE">>}

(* A command refused over HTTP would have been refused over a control          *)
(* connection for the same reason, and one that runs would have run: the id in *)
(* the path counts like that in the parameters, whatever the body says.  The   *)
(* one exception is an outbound call without a receiver, which HTTP refuses    *)
(* and a control connection, which receives its events itself, may make.       *)
BothTransportsAgree ==
    ("twin" \in DOMAIN exchange /\ exchange.transport = "http")
    => CASE ~exchange.refused -> exchange.twin = "ok" /\ ~exchange.needsReceiver
         [] exchange.needsReceiver /\ exchange.twin = "ok" -> exchange.answer = "400"
         [] OTHER -> <<exchange.answer, exchange.twin>> \in Same

(* Neither a run of six digits or more in the text of a field nor a digit      *)
(* entered under protection, where rtpbridge reports it, a gather returns it   *)
(* or an injection sends it on, can be read in the scrubbed messages of a      *)
(* control connection or the rtpbridge socket, whichever method, event and     *)
(* field it comes in.  Not so what is no text of a field: the names of fields, *)
(* methods, events and error codes, JSON numbers, and the id and the method    *)
(* logged once more beside a request are shown digits and all.                 *)
NoSecretTextIsLogged ==
    "logged" \in DOMAIN exchange => exchange.logged \cap {"card", "pin"} = {}
=============================================================================
