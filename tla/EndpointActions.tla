---------------------------- MODULE EndpointActions ----------------------------
(***************************************************************************)
(* The commands of MediaSessionService that listen on an endpoint for a    *)
(* while: gather, playAndGather and leaveMessage, plain or with sensitive  *)
(* DTMF.  They share activeEndpointActions (one collecting command per     *)
(* endpoint), sensitiveGatherEndpointIds (the endpoints whose digits are   *)
(* kept out of the event stream), and the playback of a prompt or message; *)
(* media.stop, media.unbridge and the end of the session cut across them.  *)
(*                                                                         *)
(* One session, from when its endpoints exist (MediaSessions has what      *)
(* comes before).  A command is an action that starts it and one for each  *)
(* way an await of it goes on.  rtpbridge is external: it answers, refuses *)
(* or leaves a request to its timeout.  How many digits a gather wants is  *)
(* left out: a digit is the first, one more, or the last.                  *)
(***************************************************************************)
CONSTANTS
    Commands,  \* commands in flight at once
    NoCommand,
    Endpoints, \* the endpoints of the session that a command may name
    Bridges    \* those that are ends of bridges

ASSUME EndpointAssumption ==
    /\ NoCommand \notin Commands
    /\ Bridges \subseteq Endpoints

VARIABLES
    live,      \* is the session in `sessions`?
    client,    \* its rtpbridge socket: "open" or "closed"
    tracked,   \* the endpoints in session.endpoints and endpointToSession
    removing,  \* media.stop and media.unbridge that await rtpbridge (one per endpoint)
    active,    \* activeEndpointActions: the command that claimed the endpoint
    sensitive, \* sensitiveGatherEndpointIds
    command    \* what each command does

vars == <<live, client, tracked, removing, active, sensitive, command>>
sessionVars == <<live, client, tracked, removing>>

CanAnswer == client = "open"

Idle == [op |-> "none", endpoint |-> CHOOSE e \in Endpoints : TRUE, sensitive |-> FALSE,
         pc |-> "idle", aborted |-> FALSE, message |-> FALSE, playback |-> "none"]

(* The commands that hold the claim on their endpoint. *)
Holding(c) ==
    \/ c.pc = "collecting"
    \/ c.op = "leaveMessage" /\ c.pc # "idle"

-----------------------------------------------------------------------------
(* What the commands share. *)

(* Mutant: the endpoint may be claimed twice. *)
AlwaysFree(e) == TRUE

(* claimEndpointAction throws when the endpoint has an active action. *)
MayClaim(e) == active[e] = NoCommand

(* Mutant: it does not matter that the digits are sensitive already. *)
OnlyTheClaimCounts(e, s) == s => active[e] = NoCommand

(* assertDtmfGatherAvailable. *)
MayGather(e, s) ==
    /\ e \notin sensitive
    /\ s => active[e] = NoCommand

Claimed(k, e) == [active EXCEPT ![e] = k]

(* The release closure compares the record: it takes away no later claim. *)
Released(k) == [e \in Endpoints |-> IF active[e] = k THEN NoCommand ELSE active[e]]

(* redactSensitiveDtmfEvent hides the digits of e from the event stream. *)
Redacted(e) == e \in sensitive

(* After the operation withSensitiveDtmf leaves sensitive mode. *)
AfterOperation(c) == IF c.sensitive THEN "disabling" ELSE "idle"

StopPlayback(c) == [c EXCEPT !.pc = "stopping", !.playback = "removing"]

(* Mutant: the prompt is stopped only by a gather that ran. *)
KeepsPlaying(c) ==
    IF c.pc = "collecting" /\ c.playback = "playing"
    THEN StopPlayback(c)
    ELSE [c EXCEPT !.pc = AfterOperation(c)]

(* The `finally` of playAndGather: it awaits the removal of the prompt unless *)
(* a digit stopped the prompt before.                                         *)
CollectEnded(c) ==
    IF c.playback = "playing"
    THEN StopPlayback(c)
    ELSE [c EXCEPT !.pc = AfterOperation(c)]

(* What the cancel closure of an action does to its command. *)
Cancelled(c) ==
    CASE c.pc = "collecting" -> CollectEnded(c)
      [] c.pc = "listening"  -> [c EXCEPT !.pc = "stoppingVad", !.aborted = TRUE]
      [] c.pc = "playing"    -> [StopPlayback(c) EXCEPT !.aborted = TRUE]
      [] OTHER               -> [c EXCEPT !.aborted = TRUE]

(* cancelEndpointAction for each endpoint of E.  A gather releases its claim  *)
(* at once, leaveMessage when its awaits are over.                            *)
CancelActions(E) ==
    LET hit == {k \in Commands : \E e \in E : active[e] = k} IN
    /\ command' = [k \in Commands |-> IF k \in hit THEN Cancelled(command[k]) ELSE command[k]]
    /\ active' = [e \in Endpoints |->
          IF active[e] \in hit /\ command[active[e]].pc = "collecting" THEN NoCommand
                                                                       ELSE active[e]]

-----------------------------------------------------------------------------
(* gather and playAndGather. *)

Fresh(op, e, pc) == [Idle EXCEPT !.op = op, !.endpoint = e, !.pc = pc]

(* A slot is free again when the prompt its last command left behind is gone. *)
Start(k, c) ==
    /\ command[k].pc = "idle"
    /\ command[k].playback # "removing"
    /\ live
    /\ c.endpoint \in tracked
    /\ command' = [command EXCEPT ![k] = c]

Gather(k, e) ==
    /\ MayGather(e, FALSE)
    /\ MayClaim(e)
    /\ Start(k, Fresh("gather", e, "collecting"))
    /\ active' = Claimed(k, e)
    /\ UNCHANGED <<sessionVars, sensitive>>

(* The prompt first; the claim comes when rtpbridge has made its endpoint. *)
PlayAndGather(k, e) ==
    /\ MayGather(e, FALSE)
    /\ Start(k, Fresh("playAndGather", e, "creating"))
    /\ UNCHANGED <<sessionVars, active, sensitive>>

(* Either of them with sensitive DTMF: withSensitiveDtmf comes first. *)
SensitiveGather(k, e, op) ==
    /\ MayGather(e, TRUE)
    /\ Start(k, [Fresh(op, e, "enabling") EXCEPT !.sensitive = TRUE])
    /\ sensitive' = sensitive \union {e}
    /\ UNCHANGED <<sessionVars, active>>

(* collectDtmf claims the endpoint and listens, or the claim throws. *)
Collect(k, c) ==
    \/ /\ MayClaim(c.endpoint)
       /\ active' = Claimed(k, c.endpoint)
       /\ command' = [command EXCEPT ![k] = [c EXCEPT !.pc = "collecting"]]
    \/ /\ ~MayClaim(c.endpoint)
       /\ command' = [command EXCEPT ![k] = CollectEnded(c)]
       /\ UNCHANGED active

(* rtpbridge confirmed sensitive mode: the operation begins. *)
SensitiveOn(k) ==
    /\ command[k].pc = "enabling"
    /\ CanAnswer
    /\ \/ /\ command[k].op = "gather"
          /\ Collect(k, command[k])
       \/ /\ command[k].op = "playAndGather"
          /\ command' = [command EXCEPT ![k].pc = "creating"]
          /\ UNCHANGED active
    /\ UNCHANGED <<sessionVars, sensitive>>

SensitiveOnFails(k) ==
    /\ command[k].pc = "enabling"
    /\ sensitive' = sensitive \ {command[k].endpoint}
    /\ command' = [command EXCEPT ![k].pc = "idle"]
    /\ UNCHANGED <<sessionVars, active>>

SensitiveOff(k) ==
    /\ command[k].pc = "disabling"
    /\ CanAnswer
    /\ sensitive' = sensitive \ {command[k].endpoint}
    /\ command' = [command EXCEPT ![k].pc = "idle"]
    /\ UNCHANGED <<sessionVars, active>>

(* Fail closed: the endpoint stays in the set. *)
SensitiveOffFails(k) ==
    /\ command[k].pc = "disabling"
    /\ command' = [command EXCEPT ![k].pc = "idle"]
    /\ UNCHANGED <<sessionVars, active, sensitive>>

(* createFileEndpoint answers, for a prompt or for a message to be left. *)
FileCreated(k) ==
    /\ command[k].pc = "creating"
    /\ CanAnswer
    /\ LET c == [command[k] EXCEPT !.playback = "playing"] IN
        \/ /\ c.op = "playAndGather"
           /\ Collect(k, c)
        \/ /\ c.op = "leaveMessage"
           /\ command' = [command EXCEPT ![k] = IF c.aborted THEN StopPlayback(c)
                                                ELSE [c EXCEPT !.pc = "playing"]]
           /\ UNCHANGED active
    /\ UNCHANGED <<sessionVars, sensitive>>

FileFails(k) ==
    /\ command[k].pc = "creating"
    /\ command' = [command EXCEPT ![k].pc = AfterOperation(command[k])]
    /\ active' = Released(k)
    /\ UNCHANGED <<sessionVars, sensitive>>

(* onFirstDigit: the prompt is stopped and nobody waits for it to be gone. *)
FirstDigit(k) ==
    /\ command[k].pc = "collecting"
    /\ command[k].playback = "playing"
    /\ command' = [command EXCEPT ![k].playback = "removing"]
    /\ UNCHANGED <<sessionVars, active, sensitive>>

(* The terminator or the last digit wanted. *)
LastDigit(k) ==
    /\ command[k].pc = "collecting"
    /\ command' = [command EXCEPT ![k] = CollectEnded(@)]
    /\ active' = Released(k)
    /\ UNCHANGED <<sessionVars, sensitive>>

(* The playback endpoint is removed or, if rtpbridge fails while it is still  *)
(* tracked, left in the session; the failure is swallowed.  The command that  *)
(* waited for this goes on.                                                   *)
PlaybackRemoved(k) ==
    /\ command[k].playback = "removing"
    /\ \E outcome \in {"gone", "left"} :
        /\ outcome = "gone" => (CanAnswer \/ ~live)
        /\ outcome = "left" => live
        /\ command' = [command EXCEPT ![k].playback = outcome,
                                      ![k].pc = IF @ = "stopping" THEN AfterOperation(command[k])
                                                                  ELSE @]
    /\ active' = IF command[k].pc = "stopping" THEN Released(k) ELSE active
    /\ UNCHANGED <<sessionVars, sensitive>>

-----------------------------------------------------------------------------
(* leaveMessage. *)

(* It claims the endpoint whether or not its digits are sensitive. *)
LeaveMessage(k, e) ==
    /\ MayClaim(e)
    /\ Start(k, Fresh("leaveMessage", e, "startingVad"))
    /\ active' = Claimed(k, e)
    /\ UNCHANGED <<sessionVars, sensitive>>

(* A command that was cancelled meanwhile stops listening at once. *)
VadStarted(k) ==
    /\ command[k].pc = "startingVad"
    /\ CanAnswer
    /\ command' = [command EXCEPT ![k].pc = IF command[k].aborted THEN "stoppingVad"
                                                                  ELSE "listening"]
    /\ UNCHANGED <<sessionVars, active, sensitive>>

VadFails(k) ==
    /\ command[k].pc = "startingVad"
    /\ command' = [command EXCEPT ![k].pc = "stoppingVad"]
    /\ UNCHANGED <<sessionVars, active, sensitive>>

(* Silence, with a message to play or without, or the terminator digit. *)
Terminator(k) ==
    /\ command[k].pc = "listening"
    /\ \E message \in BOOLEAN :
        command' = [command EXCEPT ![k].pc = "stoppingVad", ![k].message = message]
    /\ UNCHANGED <<sessionVars, active, sensitive>>

(* The answer to stopVad does not matter. *)
VadStopped(k) ==
    /\ command[k].pc = "stoppingVad"
    /\ command' = [command EXCEPT ![k].pc = IF command[k].message THEN "creating" ELSE "idle"]
    /\ active' = IF command[k].message THEN active ELSE Released(k)
    /\ UNCHANGED <<sessionVars, sensitive>>

(* endpoint.file.finished, with or without an error. *)
MessageFinished(k) ==
    /\ command[k].pc = "playing"
    /\ command' = [command EXCEPT ![k] = StopPlayback(@)]
    /\ UNCHANGED <<sessionVars, active, sensitive>>

(* Mutant: only a gather has a timer. *)
OnlyGathers == {"collecting"}

Timed == {"collecting", "listening", "playing"}

(* The timer of collectDtmf, maxTimer, and the timeout of playToCompletion. *)
Timeout(k) ==
    /\ command[k].pc \in Timed
    /\ \/ /\ command[k].pc = "listening"
          /\ command' = [command EXCEPT ![k].pc = "stoppingVad"]
          /\ UNCHANGED active
       \/ /\ command[k].pc = "playing"
          /\ command' = [command EXCEPT ![k] = StopPlayback(@)]
          /\ UNCHANGED active
       \/ /\ command[k].pc = "collecting"
          /\ command' = [command EXCEPT ![k] = CollectEnded(@)]
          /\ active' = Released(k)
    /\ UNCHANGED <<sessionVars, sensitive>>

-----------------------------------------------------------------------------
(* What cuts across them. *)

StopMedia(e) ==
    /\ live
    /\ e \in tracked \ removing
    /\ CancelActions({e})
    /\ removing' = removing \union {e}
    /\ UNCHANGED <<live, client, tracked, sensitive>>

(* media.unbridge cancels nothing. *)
Unbridge(e) ==
    /\ live
    /\ e \in (tracked \cap Bridges) \ removing
    /\ removing' = removing \union {e}
    /\ UNCHANGED <<live, client, tracked, active, sensitive, command>>

SensitiveWithout(E) == sensitive \ E

(* removeEndpointSnapshot: the claim goes, the command that had it does not. *)
ForgetEndpoint(e) ==
    /\ tracked' = tracked \ {e}
    /\ active' = [active EXCEPT ![e] = NoCommand]
    /\ sensitive' = SensitiveWithout({e})
    /\ UNCHANGED <<live, client, command>>

(* A failure of rtpbridge is ignored when the endpoint is no longer tracked. *)
EndpointRemoved(e) ==
    /\ e \in removing
    /\ CanAnswer \/ e \notin tracked
    /\ removing' = removing \ {e}
    /\ ForgetEndpoint(e)

EndpointRemoveFails(e) ==
    /\ e \in removing
    /\ e \in tracked
    /\ removing' = removing \ {e}
    /\ UNCHANGED <<live, client, tracked, active, sensitive, command>>

(* The other end of the bridge is removed, or its session is dropped. *)
FarEndRemoved(e) ==
    /\ e \in tracked \cap Bridges
    /\ ForgetEndpoint(e)
    /\ UNCHANGED removing

(* dropSession, because the socket closed or before the gateway closes it. *)
DropSession ==
    /\ live
    /\ live' = FALSE
    /\ client' \in {client, "closed"}
    /\ CancelActions(tracked)
    /\ tracked' = {}
    /\ sensitive' = SensitiveWithout(tracked)
    /\ UNCHANGED removing

SocketClosed ==
    /\ ~live
    /\ client = "open"
    /\ client' = "closed"
    /\ UNCHANGED <<live, tracked, removing, active, sensitive, command>>

-----------------------------------------------------------------------------
Init ==
    /\ live = TRUE
    /\ client = "open"
    /\ tracked = Endpoints
    /\ removing = {}
    /\ active = [e \in Endpoints |-> NoCommand]
    /\ sensitive = {}
    /\ command = [k \in Commands |-> Idle]

CommandStarts(k) == \E e \in Endpoints :
    \/ Gather(k, e)
    \/ PlayAndGather(k, e)
    \/ \E op \in {"gather", "playAndGather"} : SensitiveGather(k, e, op)
    \/ LeaveMessage(k, e)

(* What an await leads to, and the timers. *)
CommandGoesOn(k) ==
    \/ SensitiveOn(k) \/ SensitiveOnFails(k)
    \/ SensitiveOff(k) \/ SensitiveOffFails(k)
    \/ FileCreated(k) \/ FileFails(k)
    \/ PlaybackRemoved(k)
    \/ VadStarted(k) \/ VadFails(k) \/ VadStopped(k)
    \/ Timeout(k)

(* What the caller or the media may do and need not. *)
CommandHears(k) ==
    \/ FirstDigit(k) \/ LastDigit(k)
    \/ Terminator(k)
    \/ MessageFinished(k)

Ended == ~live /\ UNCHANGED vars

Next ==
    \/ \E k \in Commands : CommandStarts(k) \/ CommandGoesOn(k) \/ CommandHears(k)
    \/ \E e \in Endpoints :
        \/ StopMedia(e) \/ Unbridge(e)
        \/ EndpointRemoved(e) \/ EndpointRemoveFails(e)
        \/ FarEndRemoved(e)
    \/ DropSession
    \/ SocketClosed
    \/ Ended

Spec == Init /\ [][Next]_vars

(* Every request to rtpbridge has a timeout, and a timer fires once the caller *)
(* leaves it alone.                                                            *)
FairSpec == Spec /\ \A k \in Commands : WF_vars(CommandGoesOn(k))

-----------------------------------------------------------------------------
(* The types; only a leave-message has a message, only a gather is sensitive. *)
TypeOK ==
    /\ live \in BOOLEAN
    /\ client \in {"open", "closed"}
    /\ tracked \subseteq Endpoints
    /\ removing \subseteq Endpoints
    /\ active \in [Endpoints -> Commands \union {NoCommand}]
    /\ sensitive \subseteq tracked
    /\ command \in [Commands ->
          [op : {"none", "gather", "playAndGather", "leaveMessage"}, endpoint : Endpoints,
           sensitive : BOOLEAN, aborted : BOOLEAN, message : BOOLEAN,
           playback : {"none", "playing", "removing", "gone", "left"},
           pc : {"idle", "enabling", "creating", "collecting", "stopping", "disabling",
                 "startingVad", "listening", "stoppingVad", "playing"}]]

(* While a gather of protected input runs, from before rtpbridge is asked for *)
(* sensitive mode until it has been asked to leave it, the digits of the       *)
(* endpoint are redacted, whatever other commands on the endpoint come to.     *)
SensitiveDigitsAreRedacted ==
    \A k \in Commands :
        (/\ command[k].sensitive
         /\ command[k].pc # "idle"
         /\ command[k].endpoint \in tracked) => Redacted(command[k].endpoint)

(* A claim is held by a command that runs, and by the one command that listens *)
(* on the endpoint: a cancel reaches it, and the endpoint is free after it.     *)
OneActionPerEndpoint ==
    \A e \in Endpoints, k \in Commands :
        LET holds == Holding(command[k]) /\ command[k].endpoint = e IN
        /\ active[e] = k => holds
        /\ (e \in tracked /\ holds) => active[e] = k

(* A prompt or message does not play on when the command that started it is   *)
(* over, whether it ended, conflicted with another or was cancelled.  One that *)
(* rtpbridge refused to remove (`left`) has been asked to end: the code goes on. *)
PlaybackEndsWithItsCommand ==
    \A k \in Commands :
        command[k].pc \in {"idle", "disabling"} => command[k].playback # "playing"

(* Every command is answered, also when the endpoint or the session it listens *)
(* on goes meanwhile.                                                          *)
EveryCommandEnds ==
    \A k \in Commands : command[k].pc # "idle" ~> command[k].pc = "idle"
=============================================================================
