---------------------------- MODULE ControlProtocol ----------------------------
(***************************************************************************)
(* control-protocol.ts and http-contract.ts: which messages of an          *)
(* application are requests, responses or events, which answers to an      *)
(* INVITE are actions, and what the SIP side makes of those that are not.  *)
(* A message is a function from its fields to the kinds of their values.   *)
(***************************************************************************)
EXTENDS SessionCommands

Booleans == {"true", "false"}

(* The kinds each field of a message takes. *)
parseControlRequest == [id |-> Texts, method |-> Texts]
parseControlResponse == [id |-> Texts, ok |-> Booleans]
parseControlEvent ==
    [event |-> Texts, eventId |-> Texts, occurredAt |-> Texts,
     sessionId |-> Texts \union {"blank", "absent"}, sequence |-> PositiveIntegers \union {"absent"}]

Fits(message, fields) == \A f \in DOMAIN fields : Value(message, f) \in fields[f]

(* What a message is: "request", "response", "event" or "bad".  The text of *)
(* its type is taken as such.                                               *)
parseControlMessage(type, message) ==
    CASE type = "request" /\ Fits(message, parseControlRequest) -> "request"
      [] type = "response" /\ Fits(message, parseControlResponse) -> "response"
      [] type = "event" /\ Fits(message, parseControlEvent) -> "event"
      [] OTHER -> "bad"

-----------------------------------------------------------------------------
(* Answers to sip.invite and sip.reinvite. *)

(* Status codes are "absent", "200", "3xx-6xx" or "other". *)
parseOptionalStatus == {"absent", "200"}
parseRequiredStatus == {"3xx-6xx"}

(* A control connection may not name a receiver. *)
parseOptionalReceiverUrl(allowed) == Missing \union IF allowed THEN {"url"} ELSE {}

(* "answer", "reject" or "invalid". *)
parseSipActionResponse(reply, allowReceiverUrl) ==
    CASE \/ reply = NoObject
         \/ Value(reply, "headers") \notin parseOptionalHeaders
         \/ Value(reply, "receiverUrl") \notin parseOptionalReceiverUrl(allowReceiverUrl)
            -> "invalid"
      [] reply.action = "answer" /\ reply.sdp \in Texts /\ reply.status \in parseOptionalStatus
            -> "answer"
      [] reply.action = "reject" /\ reply.status \in parseRequiredStatus -> "reject"
      [] OTHER -> "invalid"

(* The status of an INVITE or re-INVITE whose handling failed. *)
sipStatusForError(error) ==
    CASE error = "GatewayDrainingError" -> "503"
      [] error = "ECONNABORTED" -> "504"       \* no answer, or no connection to answer
      [] OTHER -> "502"

(* http-client.ts: the error a callback fails with. *)
postJson(outcome) ==
    CASE outcome = "timeout" -> "ECONNABORTED"
      [] outcome \in {"refused", "non-2xx"} -> "HttpPostError"
      [] OTHER -> "none"
=============================================================================
