-------------------------------- MODULE Routing --------------------------------
(***************************************************************************)
(* routing.ts: which route, if any, owns a SIP destination.  A URI is a    *)
(* sequence of tokens: the angle brackets of a name-addr, a scheme, the    *)
(* digits of a user, "@", a host, a port and parameters.                   *)
(***************************************************************************)
EXTENDS Naturals, Sequences, SequencesExt

CONSTANTS
    SipScheme,                \* "sip:" or "sips:"; any other token may be a scheme, too
    At, Open, Close,          \* "@", "<" and ">"
    Params,                   \* ";..." or "?...", whatever follows it
    Port,                     \* ":" and digits
    Hosts,                    \* valid host names, in lower case
    Cased(_)                  \* the host a token spells, up to case and a final dot

Position(uri, token) == SelectInSeq(uri, LAMBDA t : t = token)

UpTo(uri, token) ==
    IF Position(uri, token) = 0 THEN uri ELSE SubSeq(uri, 1, Position(uri, token) - 1)

From(uri, token) == SubSeq(uri, Position(uri, token) + 1, Len(uri))

(* The URI between angle brackets, if there are any, without its parameters. *)
stripSipUri(uri) ==
    UpTo(IF Contains(uri, Open) /\ Contains(uri, Close) THEN UpTo(From(uri, Open), Close) ELSE uri,
         Params)

normalizeRouteValue(uri) == stripSipUri(uri)

WithoutScheme(uri) == IF uri # <<>> /\ Head(uri) = SipScheme THEN Tail(uri) ELSE uri

(* What stands before "@", or all of it without one; <<>> is undefined. *)
getSipUser(uri) == UpTo(WithoutScheme(stripSipUri(uri)), At)

(* The host of a SIP URI, or none: {} or a set of one. *)
getSipHost(uri) ==
    LET value == stripSipUri(uri)
        rest  == WithoutScheme(value)
        authority == IF Contains(rest, At) THEN From(rest, At) ELSE rest
    IN  {h \in Hosts :
            /\ value # <<>> /\ Head(value) = SipScheme
            /\ ~Contains(authority, At)
            /\ Contains(rest, At) => UpTo(rest, At) # <<>>
            /\ authority # <<>> /\ Cased(Head(authority)) = h
            /\ Tail(authority) \in {<<>>, <<Port>>}}

NoDomains == {}

(* SIP_ALLOWED_DOMAINS: NoDomains when it is not set. *)
acceptsSipHost(uri, domains) == domains = NoDomains \/ getSipHost(uri) \cap domains # {}

(* Does the route [match, value] own the destination [uri, user]? *)
Matches(route, destination) ==
    LET uri  == normalizeRouteValue(destination.uri)
        user == normalizeRouteValue(destination.user)
    IN  IF route.match = "exact"
        THEN route.value = uri \/ (user # <<>> /\ route.value = user)
        ELSE IsPrefix(route.value, uri) \/ (user # <<>> /\ IsPrefix(route.value, user))

(* matchRoute finds the first one; which it is makes no difference here. *)
matchRoute(routes, destination) == \E r \in routes : Matches(r, destination)

(* parseRoutesJson and parseRouteRegistrations accept a list of these only. *)
IsRoute(route) == route.match \in {"exact", "userPrefix"} /\ route.value # <<>>

Normalized(routes) == {[r EXCEPT !.value = normalizeRouteValue(r.value)] : r \in routes}
=============================================================================
