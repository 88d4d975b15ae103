---------------------------- MODULE MCControlPlane ----------------------------
(* Values for the constants of ControlPlane.                                 *)
EXTENDS ControlPlane

CONSTANTS sip, tel, at, open, close, pars, port, example, other, upper, n1, n2

MCCased(token) == IF token = upper THEN example ELSE token

alice == <<sip, n1, n2, at, example>>

MCTargets ==
    {alice, <<open, sip, n1, n2, at, upper, port, close, pars>>, <<sip, n1, at, other>>,
     <<sip, n2, at, example, pars>>, <<sip, n1>>, <<tel, n1, n2>>, <<sip, at, example>>}
ConnsAreAlike == Permutations(Conns)

MCUsers == {<<>>, <<n1, n2>>}
MCDomains == {<<>>, <<example>>}

Route(match, value) == [match |-> match, value |-> value]

MCRouteLists ==
    {{}, {Route("exact", <<n1, n2>>)}, {Route("userPrefix", <<n1>>), Route("exact", alice \o <<pars>>)},
     {Route("userPrefix", <<n2>>), Route("regex", <<n1>>)}}

MCConfigs ==
    {[domains |-> {}, routes |-> {}, media |-> FALSE, mediaRequired |-> FALSE,
      routesRequired |-> FALSE, tag |-> FALSE, fallback |-> FALSE, bearer |-> FALSE],
     [domains |-> {example}, routes |-> {Route("userPrefix", <<n2>>)}, media |-> TRUE,
      mediaRequired |-> TRUE, routesRequired |-> TRUE, tag |-> TRUE, fallback |-> TRUE,
      bearer |-> TRUE]}

Reply(action, sdp, status) == [action |-> action, sdp |-> sdp, status |-> status]

MCReplies ==
    {[outcome |-> o, body |-> NoObject] : o \in {"ok", "timeout", "refused"}}
    \union {[outcome |-> "ok", body |-> b] : b \in
            {Reply("answer", "sdp", "absent"), Reply("answer", "blank", "200"),
             Reply("answer", "sdp", "200") @@ [receiverUrl |-> "url"],
             Reply("reject", "absent", "3xx-6xx"), Reply("reject", "absent", "absent")}}

(* A usual value of a field. *)
Usual(field) ==
    CASE field \in Sdps -> "sdp"
      [] field \in Locations -> "url"
      [] field \in {"requestUri", "proxy"} -> "uri"
      [] field \in Paths -> "file"
      [] field \in {"digit", "terminator"} -> "digits"
      [] field \in {"headers", "auth", "direction"} -> field
      [] field = "codecs" -> "texts"
      [] field \in {"recordOutbound", "record_outbound", "srtpOptional"} -> "absent"
      [] field \in {"srtp", "sensitive", "stopPlaybackOnDigit"} -> "true"
      [] field \in {"offerGeneration", "loopCount", "cacheTtlSecs", "numDigits", "timeoutMs",
                    "interDigitTimeoutMs", "maxWaitMs", "skip", "limit", "playbackTimeoutMs",
                    "postPlaybackTimeoutMs", "silenceIntervalMs", "speechThreshold"} -> "integer"
      [] OTHER -> "text"

UsualBody(method) == [f \in DOMAIN Commands[method] |-> Usual(f)]

(* One number will do for the fields that take none. *)
Unusual(field) ==
    {"absent", "null", "false", "long", "blank", "card", "headers"}
    \union IF Usual(field) = "integer" THEN {"negative", "zero", "fraction"} ELSE {}

(* A usual body, one with one unusual field or a second name, and none at all. *)
BodiesOf(method) ==
    {NoObject, NoParams}
    \union
    IF method \notin DOMAIN Commands
    THEN {[password |-> "card"] @@ (LongRun :> "card") @@ (LongLabel :> "card")}
    ELSE LET body == UsualBody(method)
         IN  {body, body @@ [future |-> "card"]}
             \union UNION {{[body EXCEPT ![f] = k] : k \in Unusual(f)} : f \in DOMAIN body}
             \union IF method \notin DOMAIN Alias THEN {}
                    ELSE {[body EXCEPT ![f] = "absent"] @@ (Alias[method][f] :> k) :
                            f \in DOMAIN Alias[method], k \in {"text", "integer", "zero"}}

AllBodies == [method \in Methods \union HttpCommands |-> BodiesOf(method)]
MCBodies(method) == AllBodies[method]

MCMessages ==
    LET answer == [id |-> "card", ok |-> "true", digits |-> "digits", future |-> "card"]
        event == [event |-> "text", eventId |-> "text", occurredAt |-> "text",
                  sessionId |-> "absent", sequence |-> "long", endpointId |-> "card",
                  digit |-> "digits"]
    IN  {answer, event, [answer EXCEPT !.id = "blank"], [answer EXCEPT !.ok = "text"],
         [answer EXCEPT !.ok = "false"], event @@ [sensitive |-> "false"],
         [event EXCEPT !.sequence = "zero"], [event EXCEPT !.occurredAt = "absent"]}
=============================================================================
