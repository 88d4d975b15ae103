# rtc-session-gateway in TLA+

A model of the gateway's own logic, checked with TLC on small instances and, where it
matters most, proved with TLAPS for every instance. The source is a Node.js program: one
callback runs at a time, so **an action is the code between two awaits**, and everything that
is hard about this program is what may happen during an await. Line numbers are those of
`src/src/*.ts`; PROJECT.json maps every definition to the lines it stands for.

Reading order: this inventory, then `SipGateway.tla`, `CallPromise.tla` and
`SipGatewayProofs.tla`, then the other modules in the order of section 3.

## 1. Inventory

| Component | State it keeps | Operations | Talks to |
|---|---|---|---|
| SIP gateway (`drachtio-gateway.ts`) | pending inbound INVITEs, pending outbound attempts | INVITE, re-INVITE, outbound call, cancel, BYE, remote hang-up, owner teardown, shutdown | drachtio, registry, hub, HTTP receivers, lifecycle |
| Call registry (`call-registry.ts`, `call-id.ts`) | active calls, reserved call ids | reserve, release, activate, remove, lookup, SDP update | SIP gateway, HTTP server |
| Gateway lifecycle (`gateway-lifecycle.ts`, `index.ts`) | draining, stopping, operation count, timers | begin/finish an operation, drain, poll, deadline, stop, exit | everything that works |
| Control hub and server (`control-hub.ts`, `control-server.ts`) | connections, their routes, pending requests with timers | upgrade, route.register, request, answer, timeout, event, close | applications, SIP gateway, media service |
| Media sessions and bridges (`media-session-service.ts` 81-331, 446-458, 569-622, 788-819) | sessions, endpoint index, bridge pairs | create, delete, endpoints, bridge, unbridge, owner teardown, shutdown | rtpbridge client, backends |
| Endpoint actions (same file, 333-425, 624-786, 821-878) | claimed endpoints, endpoints with redacted digits | gather, playAndGather, leaveMessage, cancel | rtpbridge client |
| Recordings (same file, 434-575, 889-1135) | recording metadata, temporary directories | start, stop, list, download, merge, delete | rtpbridge over HTTP |
| rtpbridge transport (`rtpbridge-transport.ts`) | HTTPS agents by TLS name | options of a request, eviction | recordings |
| Backends and affinity (`media-server-manager.ts`) | call-to-backend pins with reference counts | pick, pin, register, unregister, sweep | DNS, catalogue, media sessions |
| Endpoint catalogue (`endpoint-catalog.ts`) | accepted view, its signature, last error | refresh, snapshot | a file that a publisher replaces |
| rtpbridge client (`rtpbridge-client.ts`) | socket, `ready`, pending requests, close handlers | request, answer, close, socket events | rtpbridge |
| Drachtio start-up (`drachtio-gateway.ts` 152-176, 766-784) | back-off | probe, retry | drachtio, lifecycle |
| HTTP server, contract and client (`http-server.ts`, `http-contract.ts`, `http-client.ts`) | nothing that outlives a request | lookups, probes, drain, commands, errors; replies of HTTP receivers | session commands, hub, lifecycle |
| Session commands (`session-commands.ts`) | nothing | dispatch, parameter checks, error codes | all services |
| Control protocol, control log, routing | nothing | parsing, redaction, matching | control server, HTTP server, SIP gateway, rtpbridge client |
| Configuration, logger, scripts | nothing | | |

How they interact: a SIP INVITE reserves a call id, asks an application (over a control socket
through the hub, or over HTTP) for a decision, is answered through drachtio and becomes an
active call in the registry. Applications start outbound calls and media sessions, which are
owned by the control connection they came over; when it closes, `index.ts` tears both down.
A media session picks a backend, pinned per call, and opens one rtpbridge socket. The
lifecycle counts the operations in progress and stops the process when nothing is left to do,
or at a deadline.

What is hard, and what makes each component correct:

* **SIP gateway.** Decision, answer, peer hang-up, application BYE, owner loss, drain deadline
  and shutdown race for one call. One final response per INVITE, one terminal event per call,
  no call after its cancel or after the stop, no dialog that nobody remembers.
* **Registry.** A call id is unique among calls and reservations together, also while ids come
  back.
* **Lifecycle.** A quiet stop interrupts nothing; whatever hangs, the process ends in time.
* **Hub.** Answers, duplicates, timeouts, failed sends and closing sockets race for a request;
  a route has one owner.
* **Media sessions.** Every handler awaits rtpbridge while its session may be deleted, lose
  its socket or its owner. Bridges have two ends or none, the index is right, sockets are not
  leaked, and a stop leaves nothing behind.
* **Endpoint actions.** One collecting command per endpoint, sensitive digits stay redacted,
  prompts end with their command, and every command ends.
* **Backends.** The sessions of a call share a backend; its pin counts them; an active call
  keeps its pin; a catalogue file is obeyed at once and never after it expired.
* **rtpbridge client.** Every request settles, and a lost socket is noticed once.
* **Recordings.** A path means the same file from the start of a recording to its deletion,
  and one within the gateway's share. Lists are put together from pages, merges of several
  awaited steps; no socket is cut and no directory left, whoever leaves.
* **Commands over two transports.** Both check, refuse and report the same, but for calls without
  a receiver; a draining gateway refuses new work and nothing else; a lookup promises only what
  an INVITE gets, while a route that matched is registered.
* **Control log.** No protected digit and no long number can be read in the texts of the fields
  of a message (what else is logged, and as it comes, is in section 4).

`hazards` in PROJECT.json lists where each of these bites, at its line, with the properties
that would notice.

## 2. Plan

Order: the call core first, because everything else hangs off it.

1. `SipGateway` with the registry, `CallPromise` as its abstract specification, proofs - done.
2. `GatewayLifecycle`, `ControlHub`, `MediaSessions` - done, with proofs.
3. `BackendPinning`, `EndpointCatalog` composed with it - done, with proofs.
4. `EndpointActions`, `RtpbridgeClient` - done, with proofs.
5. `SessionResources` (recordings map, ICE restarts) superposed on `MediaSessions` - done,
   with proofs.
6. The pure parts `Routing`, `SessionCommands`, `ControlProtocol`, `ControlLog`, composed by
   `ControlPlane` - done, with proofs.
7. `RecordingPaths` and `Recordings` with the HTTPS agents of the transport - done, with
   proofs.
8. `CallSdp` (re-INVITEs and SDP) superposed on `SipGateway` - done, with proofs.
9. `SessionPins`, the composition of `MediaSessions` and `BackendPinning` - done, with proofs.
10. Left: the delivery of follow-up events (`drachtio-gateway.ts` 545-598), the owner teardown
   of both services together, and the theorems these will need. Every safety property that a
   run checks now is a theorem (section 5).

## 3. Modules

**`SipGateway`**: drachtio gateway, registry, the owners' connections and the lifecycle flags.
A leg is one INVITE. `pc[l]` is the await its handler is at: `Deciding` (application asked),
`Answering` (createUAS), `Dialing` (createUAC), `Aborting` and `HangingUp` (destroying a dialog
that must not live), `Cancelled`, `Bound` (it became a call), `Over`. `calls` and
`reservations` are the two tables of the registry; `byes` the `bye()` calls that await
`dialog.destroy`, `dropping` the teardown of a lost owner; `terminal` and `responses` count
what was sent. `dialog` is the truth at the far end, which the code does not see. Call-ids are
abstracted to candidate lists that may overlap, as those of the Call-IDs `x` and `x-2` do.

**`CallPromise`**: what the gateway promises about calls, without ids, dialogs or owners.
`SipGateway` implements it under the mapping in `Promise`.

**`CallSdp`** EXTENDS `SipGateway` by superposition: every step of the gateway is one here, and
the close of a control connection also ends the re-INVITEs that wait for an answer over it. A
re-INVITE is a record with the await it is at, the dialog it is on, the call id the handler goes
on with and the call whose application was asked. An SDP is named by the re-INVITE that
negotiated it: `recorded` is what the registry holds, `agreed` what the two ends use.

**`GatewayLifecycle`**: the drain state machine against a discrete clock: a timer is the ticks
it has left, and time never passes a timer that is due. It includes the start-up loop that
waits for drachtio, because a stop ends that loop and its failure ends the process.

**`ControlHub`**: connections in order of arrival (the order decides overlapping routes),
`pending` and `timers` as the code keeps them, and history of how a request was settled.

**`MediaSessions`**: a session is `connecting` (awaits its client), `allocating` (awaits
`session.create`), `live` (in the map) or `gone`; `destroys`, `teardown` and `call` are the
handlers that await rtpbridge on its behalf.

**`BackendPinning`**: `callToBackend` and `refs` are the pin record. Choosing and registering
are two steps, one microtask apart. **`EndpointCatalog`** EXTENDS it with the catalogue file,
the view in force and the clock: with a catalogue a pick refreshes, selects and pins in one
step, without one it awaits DNS.

**`SessionPins`** composes `MediaSessions` with `BackendPinning`. What a session is to the
latter (`PinStage`) follows from where it is in the former, so a creation takes a step that both
allow. Several sessions may be dropped at once, which `BackendPinning` has as separate steps:
`Unregister` is `unregisterCall` for each of them. That exactly the sessions that leave the map
do this is what `dropSession` decides, and what the properties are about.

**`EndpointActions`**: one session, from when its endpoints exist; a command is a record with
the await it is at, its prompt and whether it was aborted. `active` and `sensitive` are
`activeEndpointActions` and `sensitiveGatherEndpointIds`.

**`SessionResources`** EXTENDS `MediaSessions` by superposition: every step of `MediaSessions`
is one here, conjoined with `Forget`, what `dropSession` and `removeEndpointSnapshot` delete
besides; its own steps leave the variables of `MediaSessions` alone. Recordings, ICE restarts
and answers each have a begin and an end around their await, and go on with the record they
hold, as the code does. `startedLate` and `indexedLate` are history: the exact
circumstances in which the code leaves something behind. So is `forgotten`, the restarts that
another's answer or failure took out of the cache.

**`Routing`**, **`SessionCommands`**, **`ControlProtocol`**, **`ControlLog`** have no state. A
SIP URI is a sequence of tokens; a parameter is the kind of its JSON value; a text in a log is
the pieces of it that stay readable. Each command's parameters are one record of accepted
kinds, and `Check` is the order in which the code gets to them. **`ControlPlane`** composes
them: `exchange` is the one request, lookup or message looked at, between whose steps the
gateway drains and stops, connections come, go and replace their routes, and ids begin or cease
to name something. An accepted command succeeds or fails with an error of its service. `twin`,
`existing`, `needsReceiver` and `by` are history: what a control connection would have been told
of the same parameters, whether the command was about what the gateway has already, whether it
was a call without a receiver, and the routes that made a lookup promise something. `logged` has
what is readable in all that is logged of an exchange: the bodies of request and answer, the
error, and the id and the method that the control server logs once more beside the body.

**`RecordingPaths`**: paths as sequences of tokens, among them escapes and a lone `%`; files
as sequences of segments. **`Recordings`**: `pc[t]` is the await a request is at, `call[t,b]`
its HTTP request to a backend, which has its options (`ready`) a tick before it has its socket
(`open`), `agents` the map of the transport. `held` is a stream that nobody reads (section 4).

**`RtpbridgeClient`**: `request[r]` is `waiting` for `ready`, `pending` in the table, or
settled. `MediaSessions` and `EndpointActions` use its contract: a request is answered while
the socket lasts, refused, or times out.

`MC*` modules only hold values for constants and symmetry sets. Definitions under a comment
that begins with `Mutant:`, and a few more that PROJECT.json names as `as`, are plausible bugs:
each property of each passing run is violated when one of them takes the place of the
definition it resembles.

## 4. Runs

| Run | Instance | What it shows |
|---|---|---|
| `sip_core` | 2 legs, 2 connections, 1 hang-up command, call ids reused | ids name one leg; one response; one terminal event; owned outbound calls; cancels take effect; `CallPromise` is kept |
| `call_sdp` | 2 legs, 1 connection, 1 hang-up command, 1 re-INVITE, no Call-ID twice, fair | the recorded SDP is the agreed one; a re-INVITE asks the application of its own call, while that is connected; no forgotten dialog; terminal means down; a quiet stop cuts nobody off; the outbound calls of a lost owner end |
| `sip_owner` (violation) | 1 leg, 1 connection | an inbound call answered after its owner left stays without one |
| `lifecycle` | 2 handles, waits of 5, 3, 2 ticks, fair | quiet stops interrupt nothing, also when an operation is finished twice; the exit is within its budget, and comes |
| `control_hub` | 2 connections, 2 keys, 2 requests, fair | one owner per route; requests settle once, by their addressee, and always; every owner hears of the drain |
| `media` | 2 sessions of one call, 2 endpoints, 2 commands, 2 backends, 1 owner | bridges have two ends that are listed and indexed; sockets of dropped sessions are released; only late sessions are orphans; each session gives its reference to a backend back exactly once, and is on the backend it refers to, so that the sessions of a call can be bridged |
| `session_resources` | 1 session, 1 endpoint, 1 recording, 2 ICE restarts, fair | what belongs to a session goes with it; restarts are shared; a stop ends every session |
| `backends` | 3 sessions of one call, 2 backends, 4 catalogue files, 4 instants | the pin of a call in use stays; picks follow the file |
| `endpoint_actions` | 2 commands, an endpoint and a bridge end, fair | claims, redaction, prompts, and that commands end |
| `rtpbridge_client` | 3 requests, fair | a lost socket is noticed; every request settles |
| `recordings` | 2 requests, 2 backends, 4 files, pages of 2, room for 1 agent, 1 start, with and without a prefix | a path reaches its file and no other, and no request loses its socket; lists are complete; directories go |
| `control_plane` | 2 connections (alike), 2 configurations, 7 URIs, 4 route lists, every command and 3 unknown ones with usual and unusual parameters, 8 other messages | lookups are honest, also when routes are replaced before the INVITE; both transports agree; a drain refuses new work only; no secret text of a field is logged |

Why the bounds are enough to be interesting. Two legs and overlapping candidate lists give two
handlers racing for one call id and one of them removing the other's call; two connections, an
owner and a stranger. Two sessions with an endpoint each are the two ends of a bridge, which
two commands remove, or make and remove, at once; a third endpoint, which would be neither end,
is left to the theorem. Two commands are all that can contend for one endpoint, and the bridge
end is the one that can be removed without a cancel. Three users of one call are a first
session, one that races it and one that comes after both released; `media` has two, which a
lost owner drops in one step, and leaves the third to `backends`. One re-INVITE, of either
side, suffices because what is recorded and what is agreed change in one step: two that are
answered in either order leave both with the later. The lifecycle's clock values are pairwise
different, and chosen so that the poll, the deadline, the cleanup timeout and the retries fall
due in every order. `MaxResources`, `MaxDestroys`, `MaxEvents` and `MaxTime` bound counters the
code does not bound. One session suffices in `session_resources`, because nothing of what it
keeps is shared between sessions except the far end of a bridge, which `media` has; two
restarts of one endpoint are one that is cached and one that is late. In `recordings` two
requests contend for one agent slot of two backends, two targets let a merge fail after its
first source, and four files make a full page and a second one. In `control_plane` one exchange
is looked at at a time. What others change of the state it reads is in the actions that may
happen between its steps: drain and stop, drachtio and rtpbridge, connections, what ids name,
and `route.register`, which replaces the routes of its own or another connection also between a
lookup and its INVITE. Two connections are the one whose route is replaced or goes and another
that has or takes over what matched; a third would add a second of these. Nothing reads an
answer once it is given, so nothing else happens between the answer and `Finish` (`InProgress`).
Each body has at most one field that is unusual, so the order in which *two* bad fields are
reported is not compared. Ids in a path are never blank. The values that are tried in every
field of every command include a text, a text of digits only, a JSON number of as many digits
(`long`) and values of the wrong type; ids are the worst case, digits only.

The runs check no type invariants, because they are proved (section 5): `TypeOK` in
`SipGateway` (`TypeCorrect`), `ControlHub` (`HubTypes`), `EndpointActions` (`EndpointTypes`),
`MediaSessions` (`MediaTypes`) and `Recordings` (`RecordingTypes`), `CatalogTypeOK`
(`CatalogTypes`), `ResourcesTypeOK` (`ResourceTypes`), `SdpTypeOK` (`SdpTypeCorrect`),
`PinsTypeOK` (`PinsTypes`), and those of `BackendPinning`,
`GatewayLifecycle` and `RtpbridgeClient` as parts of their inductive invariants.

### Fairness

Nothing is assumed of applications, peers, publishers or the network, which may stay silent
for ever. What is assumed, and why:

* `SipGateway`: `createUAC` and `dialog.destroy` settle, because drachtio answers every
  request, if need be after a SIP transaction timer. An INVITE in decision needs no fairness.
* `GatewayLifecycle`: time passes, and a due timer fires before more time passes.
* `ControlHub`, `RtpbridgeClient`: the timers that the code sets do fire; a resolved `ready`
  resumes its awaiters.
* `MediaSessions`, `SessionResources`, `EndpointActions`: an await of rtpbridge returns,
  because every request of the client has a timeout (which `RtpbridgeClient` shows), and so do
  gathers and messages.

### Where code and documents disagree

* `docs/guide/media-sessions.md:23` says that dialogs accepted through a connection that
  closes are terminated and that its media sessions are cleaned up. An inbound call whose
  `createUAS` is awaited at that moment is activated afterwards and stays (`sip_owner`). A
  media session whose creation is awaited is registered afterwards and stays as well;
  `OrphansCameLate` shows that these are the only ones.
* `docs/guide/operations.md:46` says that BYE or CANCEL is attempted at the deadline. A call
  answered during shutdown is not waited for: the process may exit before its BYE is sent.
  (`AnswerWhileStopping` and `CleanExit` of `SipGateway` are both enabled then.)
* The same line says that the exit code is 0 when work finishes. While drachtio cannot be
  reached, the start-up loop may reject first and the code is 1 (`Retry` of `GatewayLifecycle`).
* `bye()` removes whichever call has the id after its await (`drachtio-gateway.ts:435`). With
  `CallIdReuse = TRUE` TLC finds `NoForgottenDialog` and `TerminatedMeansDown` violated there:
  the peer hangs up, a new INVITE takes the same id and is answered, and its record is removed
  in place of the old one. Both properties are therefore stated for Call-IDs that do not come
  back.
* `reinvite()` does the same with the SDP (`drachtio-gateway.ts:301`), and so does the handler of
  the far end's re-INVITEs (line 525): with `CallIdReuse = TRUE` TLC finds both parts of
  `ReinvitesConcernTheirCall` violated: `RecordedSdpIsAgreed` by an answer that comes after a new call took the id, `ReinviteAsksItsOwner`
  by a re-INVITE on a dialog that the loss of its owner is tearing down: its record has
  left the registry, and the application of the call that took the id is asked.
* `test/media-session-service.test.ts:70` says that a pending ICE restart is reused "until the
  matching answer is accepted". Any accepted answer of the endpoint removes it
  (`media-session-service.ts:183`), so a late answer makes the next call ask for another
  restart; `RestartsAreShared` excepts exactly that.
* `docs/guide/recordings.md:50` says that a known path can be used directly. A path with an
  escape is recorded literally and decoded afterwards (line 1064): it asks for another file,
  and one that cannot be decoded is started and then refused (line 441), so it runs untracked.
* `docs/guide/recordings.md:46` says that paths outside the configured prefix are rejected. A
  start whose name spells the prefix with an escape is judged decoded and recorded literally.

Weaknesses no document speaks of. The log redacts runs of digits in the texts of fields only
(`NoSecretTextIsLogged`). Logged as they come, digits and all, are:

* the id and the method of a control request, once more beside the scrubbed body
  (`control-server.ts:125`), although `scrubControlRequest` redacts the id and checks the method;
* names of methods, events, fields and query keys and the codes of foreign errors that start with
  a letter, and any header names (`control-log.ts:340`, 368-382);
* JSON numbers in fields that may be shown (line 155), such as `timeoutMs` or `sequence`.

In the model these are the atoms `longName` and `longNumber`; TLC finds both in `logged`. What is
logged of a response is `pending.method` and an id that equals one the gateway made
(`control-hub.ts:194`), or, when no request waits, the id as an identifier. Digits that an
application sends itself, as in `dtmf.inject`, are not marked as protected and are shown by their
own `digit` field when they are fewer than six.

And a client that leaves a download or merge before its stream is
handed over has closed its response already, so `pipeRecordingStream` (`http-server.ts:575`)
waits for a `close` that does not come again. The stream is neither read nor destroyed, and the
temporary directory, or the socket at rtpbridge, stays: state `held` in `Recordings`.

## 5. Proofs

Every invariant and every action property that a passing run checks is a theorem, and so are
the types. The proofs
of a module are in the module of its name with `Proofs`; `SipGatewayProofs` has those of
`CallSdp` too, `MediaSessionsProofs` those of `SessionResources` and `SessionPins`,
`EndpointCatalogProofs` those of `BackendPinning`,
`EndpointActionsProofs` those of `RtpbridgeClient`, `RecordingsProofs` those of
`RecordingPaths`, and `ControlPlaneProofs` those of the modules without state that it composes.
They hold for every value of the constants that the named assumptions allow, which say little
more than that null values are not members:
`ConstantsAssumption` (and candidate lists are sequences of call ids), `ReinviteAssumption`,
`PinningAssumption` and `PinsAssumption` (and there are finitely many sessions),
`CatalogAssumption`, `LifecycleAssumption` (delays are
positive, operations finitely many), `HubAssumption`, `MediaAssumption`, `ResourceAssumption`
and `EndpointAssumption` (`EndpointTypes` needs that there is an endpoint too, because a command
that is idle names one). `PlaneAssumption` says more: URIs are sequences of tokens, no
connection is called "http", ids are texts and messages functions from field names to kinds of
JSON values; `BodiesAssumption` says the latter of parameters. No kind is "digits entered under
protection" (`pin`): those come from rtpbridge, in DTMF events and gather results, and go to it in
injections, never from an application, whose own texts nothing marks as protected. Texts of
digits only (`card`) may be in every field, id and message. `RecordingAssumption`
says that paths and orders are sequences, that an order has no file twice, that what is stored or
may be started is among the files, that a job is well formed, and that a page has room.

**SIP gateway.** The invariants build on each other; each is proved action by action.

1. `TypeCorrect`: types.
2. `RegistryInv`, for `CallIdsAreUnique`: `CallIdNamesOneLeg` and that a leg past admission has
   an id. Uniqueness is inductive only with the fact that a leg in setup holds its id as a
   reservation or the gateway is stopping, because shutdown releases the reservations of
   INVITEs that are still being decided.
3. `ResponsesInv`, for `OneResponsePerInvite`: counts the response against the await.
4. `OwnerInv`, for `OutboundCallsHaveOwners` and `CancelAlwaysTakesEffect`: an attempt whose
   owner is gone is marked cancelled, so the answer that comes later cannot be registered.
5. `TerminalInv`, for `OneTerminalEventPerCall`: a call removed from the registry has had its
   event, is being torn down, or its teardown failed.
6. `GatewayKeepsPromise`: every step maps to a step of `CallPromise` or to a stutter, under
   1 to 5. `StopIsFinal` says the same of registrations alone, and needs no promise.
7. With `~CallIdReuse`: `UniqueIdInv` (two legs never have one id) and `DialogInv` (a dialog
   that is up is registered, being torn down or given up), for `NoDialogIsForgotten` and
   `QuietStopIsQuiet`; and what has been announced is down, for `TerminatedCallsAreDown`
   (`TerminatedMeansDown`): a terminal event precedes the end of the dialog nowhere, and no
   later step brings a dialog up again.
8. `CallSdpImplementsGateway`: every step with re-INVITEs is one of `SipGateway` or leaves it
   alone, so 1 to 7 hold with them. `RecordInv`, for `RecordedSdp`, also speaks of legs that are
   no call yet (what is recorded for them is what is agreed) and needs, with `UniqueIdInv`, that
   the id a re-INVITE goes on with finds no call but that of its dialog (`IdFindsItsCall`).
   `ReinvitesAskTheirOwner` needs the same fact when the application is looked up, and that a
   connection that closes leaves none of its questions open. `ReinvitesKeepToTheirCall` is both.

**Backends.** `PinInv`: the reference count is the number of registered sessions, and each of
them is on the backend of the pin. The step that needs thought is a pick: it writes the pin
although it holds no reference, and is harmless because it selects the pinned backend if there
is one. `CallsStayTogether`, `RefsAreUsers` and `ActiveCallsKeepTheirPin` follow.
The first two are proved, and no run checks them by name: `SessionsHoldOneReference`, which
`media` checks, is `RefsCountUsers` of the sessions that `MediaSessions` creates and ends.
`CatalogImplementsPinning` shows that a gateway with a catalogue file, and one without, take
only steps of `BackendPinning`; `PicksAreOfTheFile` that a pick obeys the file.

**Lifecycle.** `Account`: while the gateway drains, the time passed and the time the deadline
has left add up to `MaxWait`; once it stops, the time passed and what the cleanup timer has left
are within the budget. `ExitIsWithinBudget` is the case where that timer is due.
`QuietStops` needs that the counter is the number of running operations, which a second call of
a finish closure must not disturb: `OperationsAreCounted`.

**Control hub.** `ConnInv` (a connection is in the list from its upgrade to its `close`, once),
`RequestInv` (what is pending has a timer, is settled by nobody and was sent to a connection that
is in the list) and `DrainInv`. The step that needs all three is the `close` of a connection: it
removes the routes, fails what is pending there and nothing else.

**Media sessions.** `SessionInv` relates a session to its socket and its owner. `LinkInv` relates
endpoints, index and pairs, and says what a handler that awaits rtpbridge can rely on; without
the fact that an endpoint id is in one session only, also in those that are gone, a removal could
take an endpoint out of one table and not the other. On top, `ResourcesImplementSessions` shows
that recordings and ICE restarts widen nothing, and `ResourceInv` that a recording in the map is
of a live session or was `startedLate`, a cached restart is outstanding and of an indexed
endpoint, and an outstanding one is cached, `forgotten` or of an endpoint that is gone.
`ResourcesFollow` and `OneRestartAtATime` follow.

`PinsImplementSessions` does the same for backends and references. `CountInv` is
`SessionsHoldOneReference` in terms of sessions; it is inductive with `PinsTypeOK`, which says
that only a session that was registered is ever deleted: a `destroySession` that ended one still
`allocating` would take it away without its reference. When a step drops several sessions
(`DropKeeps`), the references given back are those of the holders among them, and the difference
of the two finite sets is what is counted (`PartOfFinite`). `CallsCanBeBridged` is a corollary.

**Endpoint actions.** The invariant gives the stages of each kind of command and adds
`OneProtector`: two sensitive gathers never share an endpoint, else the one that ends would
uncover the digits of the other. `DigitsAreRedacted` is not inductive without it.

**rtpbridge client.** `LossIsNoticed`: `SocketLossIsNoticed` is inductive with the types: a
request looks at the socket again after its await, and the first of loss and `close()` removes
the handlers.

**Control plane.** `PlaneInv` says of the exchange looked at what it was checked against
(`ExchangeOK`); three of the four properties follow from it.

* `LookupsAreHonest`: a promise keeps that each route in `by` matched (`PromiseKept`), which no
  replaced list, lost connection or drain undoes, and if one of them is registered still the
  INVITE finds it (`PromiseIsHonest`). A lookup strips the user part of a URI once, the INVITE
  strips it where it is read and again where it is matched. They agree because stripping is
  idempotent (`StripIsIdempotent`), which needs that the cut is made at the *first* separator.
* `TransportsAgree`: a command over HTTP reaches the dispatcher with the parameters that the
  socket would have delivered. The checks of the two differ in `owner` alone, which only
  `sip.createOutbound` looks at: whatever else they say is the same (`OwnersAreCheckedAlike`),
  and without a receiver HTTP refuses (`TwinsAgree`). `/reinvite` and `/bye`, which have routes of
  their own, check what the commands check (`CallRoutesCheckAlike`), and each error is reported
  with the same code (`ErrorsSayTheSame`).
* `SecretTextsAreScrubbed`: where secrets are (`WhereSecretsAre`), what becomes of one field
  (`FieldHidesSecrets`), an id or a name (`IdentifiersHideSecrets`, `NamesHideSecrets`) and a
  message (`MessageHidesSecrets`), for every kind of text; and that protected digits are only in
  fields of digits of messages that are recognised as sensitive (`Protects`), which is shown for
  events, results and injections one by one: a response is logged with what its request said.
* `DrainsTurnAwayNewWork` (an action property): an exchange that ends as refused for the drain
  was new work (`DrainRefusesNewWork`), and new work does not get past the check
  (`PassedIsNoNewWork`); both by `ChecksTellWork`, that the check of each command looks at the
  table that tells whether its subject exists.

**Recordings.** Two inductive invariants, and lemmas about paths and pages.

1. `IInv` (`RequestsStayInStage`): a request is where its operation can be (`StageOK`), and
   unless it lists it has one HTTP request at most, to the backend of its current target and
   about the file that this target's path means (`CallOK`). A directory belongs to a merge that
   has made it and will still remove it, which is `TempDirsGo` (`DirectoriesGo`).
2. An agent that makes room for another has no socket (`RoomIsIdle`), so destroying it cuts
   nobody off (`NothingIsCut`), and asking for options changes no other request
   (`OptionsTakeNothing`). A list asks all backends in one step, with an induction over them.
3. Paths: splitting undoes joining (`SegmentsOfJoined`), a URL whose segments are safe goes into
   each of them and stays below the root (`UrlGoesIn`, `UrlIsThePath`), resolving gives segments
   without dots (`ResolvedIsSegments`), and a file's relative name means that file again unless
   it has an escape (`NamesGiveTheFile`, `PlainPaths`). With `StartedOK`, that a start is about a
   file it was allowed, `RequestsReachTheirOwn` follows (`RequestsReachTheirFile`).
4. `PagesOK`, for `ListsNameEverything` (`ListsAreComplete`): while a list pages, each file that
   it must name is in the pages or has its *place* in rtpbridge's index beyond them (`Found`);
   and, unless a file came meanwhile, nothing listed has its place further on than it was listed
   at (`NoFurther`), so the pages are in the order of the files (`InOrder`). `NextPage` is the
   step: a page takes the index on from where the pages end, and one that is not full, or reaches
   the total, has its end. A file that comes moves places on, one that goes moves them back
   (`PlacesMoveOn`), which is why completeness survives the former and only "none twice" the
   latter; `kept` and `added` say for which files and backends each is promised.

Splitting, joining, resolving and picking are recursive functions over the positions of a
sequence. `StepsExist` shows that such a function exists and `UpTo` is the induction over
positions, both by a least counterexample, because the library's induction theorems take an
operator as a parameter and cannot be used here.

**Only model-checked.** Liveness under fairness and ENABLED are out of the proof system's reach:
`OwnerGoneEndsOutbound`, `DrainEnds`, `EveryRequestSettles` (of the hub and of the rtpbridge
client), `StopEndsEverySession` and `EveryCommandEnds` are checked by TLC only. No module has
RECURSIVE operators.

## 6. Not modelled

* Re-INVITEs without an offer, and the media commands that change no table of the gateway
  (direction, injection of digits, offers and answers of an endpoint): left to rtpbridge.
* How follow-up events are delivered once produced: over a socket that is open they are sent,
  over HTTP they are tried once. `terminal` counts what is produced.
* A list of the recordings of one backend (the list of all with one backend), the sorting and
  slicing of its answer, and the format of pcap files: a merge succeeds or fails.
* The signature and certificates of requests to rtpbridge, configuration parsing, the logger,
  metrics, build files and the end-to-end scripts. HTTP requests are logged by their URL, which
  `ControlLog` does not speak of.
* The wire formats and header handling. `Matching` in `ControlHub` and `Catalogs` in
  `EndpointCatalog` are constants; `Routing` has what matching computes.
* drachtio, rtpbridge, DNS and the publisher of the catalogue are external: they answer, refuse
  or stay silent.
* Crashes: the gateway persists nothing, so a restart is `Init`.
