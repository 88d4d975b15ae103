------------------------- MODULE EndpointActionsProofs -------------------------
(***************************************************************************)
(* The safety of the commands that listen on an endpoint, for any commands *)
(* and endpoints.  The invariant says at which stages a command of each    *)
(* kind can be, and that two sensitive gathers never share an endpoint:    *)
(* else the one that ends would uncover the digits of the other.           *)
(* At the end, the safety of the rtpbridge client those commands wait for. *)
(***************************************************************************)
EXTENDS EndpointActions, RtpbridgeClient, TLAPS

Stages == {"idle", "enabling", "creating", "collecting", "stopping", "disabling",
           "startingVad", "listening", "stoppingVad", "playing"}

CommandType ==
    [op : {"none", "gather", "playAndGather", "leaveMessage"},
     endpoint : Endpoints \union {Idle.endpoint}, sensitive : BOOLEAN, aborted : BOOLEAN,
     message : BOOLEAN, playback : {"none", "playing", "removing", "gone", "left"}, pc : Stages]

(* The stages of each kind of command, and those at which something plays. *)
CommandOK(c) ==
    /\ c \in CommandType
    /\ c.op = "leaveMessage" =>
          ~c.sensitive /\ c.pc \notin {"enabling", "collecting", "disabling"}
    /\ c.op # "leaveMessage" => c.pc \notin {"startingVad", "listening", "stoppingVad", "playing"}
    /\ c.pc \in {"enabling", "disabling"} => c.sensitive
    /\ c.playback = "playing" => c.pc \in {"collecting", "playing"}

(* Sensitive mode is on, or being switched, for c. *)
Protects(c) == c.sensitive /\ c.pc # "idle"

OneProtector ==
    \A j, k \in Commands :
        (/\ Protects(command[j]) /\ Protects(command[k])
         /\ command[j].endpoint = command[k].endpoint
         /\ command[j].endpoint \in tracked) => j = k

(* The inductive invariant. *)
IInv ==
    /\ tracked \subseteq Endpoints
    /\ active \in [Endpoints -> Commands \union {NoCommand}]
    /\ DOMAIN command = Commands
    /\ \A k \in Commands : CommandOK(command[k])
    /\ OneProtector
    /\ SensitiveDigitsAreRedacted
    /\ OneActionPerEndpoint

LEMMA IdleType ==
    /\ CommandOK(Idle)
    /\ Idle.pc = "idle" /\ Idle.playback = "none" /\ ~Idle.sensitive /\ Idle.op = "none"
  BY DEF Idle, CommandOK, CommandType, Stages

-----------------------------------------------------------------------------
(* What the helpers make of a command. *)

(* A command goes on as itself: same endpoint, same protection. *)
GoesOn(old, new) ==
    /\ CommandOK(new)
    /\ new.endpoint = old.endpoint
    /\ Protects(new) => Protects(old)

LEMMA StopPlaybackFits ==
  ASSUME NEW c, CommandOK(c), c.pc \in {"collecting", "playing", "creating"}
  PROVE  /\ GoesOn(c, StopPlayback(c))
         /\ StopPlayback(c).op = c.op /\ StopPlayback(c).pc = "stopping"
  <1>1. PICK d : d = StopPlayback(c)
    OBVIOUS
  <1>2. /\ d \in CommandType /\ d.op = c.op /\ d.endpoint = c.endpoint /\ d.sensitive = c.sensitive
        /\ d.pc = "stopping" /\ d.playback = "removing"
    BY <1>1 DEF StopPlayback, CommandOK, CommandType, Stages
  <1>3. GoesOn(c, d)
    BY <1>2 DEF GoesOn, CommandOK, Protects
  <1> QED
    BY <1>1, <1>2, <1>3

LEMMA CollectEndedFits ==
  ASSUME NEW c, CommandOK(c), c.op # "leaveMessage", c.pc # "idle"
  PROVE  GoesOn(c, CollectEnded(c)) /\ ~Holding(CollectEnded(c))
  BY DEF GoesOn, CommandOK, CommandType, Stages, Protects, CollectEnded, StopPlayback,
     AfterOperation, Holding

LEMMA CancelledFits ==
  ASSUME NEW c, CommandOK(c)
  PROVE  /\ GoesOn(c, Cancelled(c))
         /\ c.pc = "collecting" => ~Holding(Cancelled(c))
         /\ c.pc # "collecting" => (Holding(Cancelled(c)) <=> Holding(c))
  <1>1. CASE c.pc = "collecting"
    BY <1>1, CollectEndedFits DEF Cancelled, CommandOK
  <1>2. CASE c.pc = "listening"
    BY <1>2 DEF Cancelled, GoesOn, CommandOK, CommandType, Stages, Protects, Holding
  <1>3. CASE c.pc = "playing"
    BY <1>3 DEF Cancelled, StopPlayback, GoesOn, CommandOK, CommandType, Stages, Protects, Holding
  <1>4. CASE c.pc \notin {"collecting", "listening", "playing"}
    BY <1>4 DEF Cancelled, GoesOn, CommandOK, CommandType, Stages, Protects, Holding
  <1> QED
    BY <1>1, <1>2, <1>3, <1>4

-----------------------------------------------------------------------------
(* What a step of one command makes of the invariant. *)

(* It goes on without or with the claim it had, or it claims its endpoint. *)
LEMMA OneStep ==
  ASSUME IInv, NEW k \in Commands, NEW c, command' = [command EXCEPT ![k] = c],
         GoesOn(command[k], c), UNCHANGED <<tracked, sensitive>>,
         \/ active' = active /\ (Holding(c) <=> Holding(command[k]))
         \/ active' = Released(k) /\ ~Holding(c)
         \/ /\ MayClaim(c.endpoint) /\ active' = Claimed(k, c.endpoint)
            /\ ~Holding(command[k]) /\ Holding(c)
  PROVE  IInv'
  <1>1. /\ command'[k] = c /\ DOMAIN command' = Commands
        /\ \A j \in Commands \ {k} : command'[j] = command[j]
    BY DEF IInv
  <1>2. \A j \in Commands : CommandOK(command'[j])
    BY <1>1 DEF IInv, GoesOn
  <1>3. \A j \in Commands : /\ command'[j].endpoint = command[j].endpoint
                            /\ Protects(command'[j]) => Protects(command[j])
    BY <1>1 DEF GoesOn
  <1>4. OneProtector' /\ SensitiveDigitsAreRedacted'
    BY <1>3 DEF IInv, OneProtector, SensitiveDigitsAreRedacted, Protects, Redacted
  <1>5. active' \in [Endpoints -> Commands \union {NoCommand}]
    BY DEF IInv, Released, Claimed
  <1>6. OneActionPerEndpoint'
    <2>1. ASSUME active' = active, Holding(c) <=> Holding(command[k])
          PROVE  OneActionPerEndpoint'
      BY <2>1, <1>1, <1>3 DEF IInv, OneActionPerEndpoint
    <2>2. ASSUME active' = Released(k), ~Holding(c)
          PROVE  OneActionPerEndpoint'
      <3>1. \A e \in Endpoints : active'[e] = IF active[e] = k THEN NoCommand ELSE active[e]
        BY <2>2 DEF Released
      <3> QED
        BY <2>2, <3>1, <1>1, <1>3, EndpointAssumption DEF IInv, OneActionPerEndpoint
    <2>3. ASSUME MayClaim(c.endpoint), active' = Claimed(k, c.endpoint),
                 ~Holding(command[k]), Holding(c)
          PROVE  OneActionPerEndpoint'
      <3>1. \A e \in Endpoints : active'[e] = IF e = c.endpoint THEN k ELSE active[e]
        BY <2>3 DEF Claimed, IInv
      <3> QED
        BY <2>3, <3>1, <1>1, <1>3, EndpointAssumption DEF MayClaim, IInv, OneActionPerEndpoint
    <2> QED
      BY <2>1, <2>2, <2>3
  <1> QED
    BY <1>1, <1>2, <1>4, <1>5, <1>6 DEF IInv

(* A command begins: it takes what the kind of it takes, and must find it free. *)
LEMMA StartStep ==
  ASSUME IInv, NEW k \in Commands, NEW c, Start(k, c), CommandOK(c), c.pc # "idle",
         UNCHANGED tracked,
         \/ c.sensitive /\ c.endpoint \notin sensitive /\ sensitive' = sensitive \union {c.endpoint}
         \/ ~c.sensitive /\ sensitive' = sensitive,
         \/ Holding(c) /\ MayClaim(c.endpoint) /\ active' = Claimed(k, c.endpoint)
         \/ ~Holding(c) /\ active' = active
  PROVE  IInv'
  <1>1. /\ command'[k] = c /\ DOMAIN command' = Commands
        /\ \A j \in Commands \ {k} : command'[j] = command[j]
        /\ c.endpoint \in tracked /\ command[k].pc = "idle"
    BY DEF IInv, Start
  <1>2. \A j \in Commands : CommandOK(command'[j])
    BY <1>1 DEF IInv
  <1>3. ~Holding(command[k]) /\ ~Protects(command[k])
    BY <1>1 DEF Holding, Protects
  <1>4. OneProtector'
    BY <1>1, <1>3 DEF IInv, OneProtector, SensitiveDigitsAreRedacted, Protects, Redacted
  <1>5. SensitiveDigitsAreRedacted'
    BY <1>1 DEF IInv, SensitiveDigitsAreRedacted, Redacted
  <1>6. active' \in [Endpoints -> Commands \union {NoCommand}]
    BY DEF IInv, Claimed
  <1>7. OneActionPerEndpoint'
    <2>1. CASE Holding(c)
      <3>1. \A e \in Endpoints : active'[e] = IF e = c.endpoint THEN k ELSE active[e]
        BY <2>1 DEF Claimed, IInv
      <3> QED
        BY <2>1, <3>1, <1>1, <1>3, EndpointAssumption DEF MayClaim, IInv, OneActionPerEndpoint
    <2>2. CASE ~Holding(c)
      BY <2>2, <1>1, <1>3 DEF IInv, OneActionPerEndpoint
    <2> QED
      BY <2>1, <2>2
  <1> QED
    BY <1>1, <1>2, <1>4, <1>5, <1>6, <1>7 DEF IInv

(* Sensitive mode ends, and with it the only command that it protects. *)
LEMMA UncoverStep ==
  ASSUME IInv, NEW k \in Commands, command[k].pc \in {"enabling", "disabling"},
         command' = [command EXCEPT ![k].pc = "idle"],
         sensitive' = sensitive \ {command[k].endpoint} \/ sensitive' = sensitive,
         UNCHANGED <<tracked, active>>
  PROVE  IInv'
  <1> DEFINE c == [command[k] EXCEPT !.pc = "idle"]
  <1>1. /\ command'[k] = c /\ DOMAIN command' = Commands
        /\ \A j \in Commands \ {k} : command'[j] = command[j]
    BY DEF IInv
  <1>2. /\ CommandOK(c) /\ c.endpoint = command[k].endpoint /\ c.pc = "idle"
        /\ Protects(command[k]) /\ ~Protects(c) /\ ~Holding(c) /\ ~Holding(command[k])
    <2>1. CommandOK(command[k])
      BY DEF IInv
    <2> QED
      BY <2>1 DEF CommandOK, CommandType, Stages, Protects, Holding
  <1> HIDE DEF c
  <1>3. \A j \in Commands : CommandOK(command'[j])
    BY <1>1, <1>2 DEF IInv
  <1>4. OneProtector'
    BY <1>1, <1>2 DEF IInv, OneProtector
  <1>5. SensitiveDigitsAreRedacted'
    BY <1>1, <1>2 DEF IInv, OneProtector, SensitiveDigitsAreRedacted, Redacted, Protects
  <1>6. OneActionPerEndpoint'
    BY <1>1, <1>2 DEF IInv, OneActionPerEndpoint
  <1> QED
    BY <1>1, <1>3, <1>4, <1>5, <1>6 DEF IInv

(* Cancels reach the commands that hold the claims of the endpoints E. *)
LEMMA CancelStep ==
  ASSUME IInv, NEW E, CancelActions(E), tracked' \subseteq tracked,
         \A e \in tracked' : e \in sensitive => e \in sensitive'
  PROVE  IInv'
  <1> DEFINE hit == {k \in Commands : \E e \in E : active[e] = k}
  <1>1. /\ command' = [k \in Commands |-> IF k \in hit THEN Cancelled(command[k]) ELSE command[k]]
        /\ active' = [e \in Endpoints |->
              IF active[e] \in hit /\ command[active[e]].pc = "collecting" THEN NoCommand
                                                                          ELSE active[e]]
    BY DEF CancelActions
  <1> HIDE DEF hit
  <1>2. ASSUME NEW k \in Commands
        PROVE  /\ GoesOn(command[k], command'[k])
               /\ k \in hit /\ command[k].pc = "collecting" => ~Holding(command'[k])
               /\ ~(k \in hit /\ command[k].pc = "collecting") =>
                     (Holding(command'[k]) <=> Holding(command[k]))
    BY <1>1, CancelledFits DEF IInv, GoesOn
  <1>3. /\ \A k \in Commands : CommandOK(command'[k])
        /\ \A k \in Commands : /\ command'[k].endpoint = command[k].endpoint
                               /\ Protects(command'[k]) => Protects(command[k])
    BY <1>2 DEF GoesOn
  <1>4. OneProtector' /\ SensitiveDigitsAreRedacted'
    BY <1>3 DEF IInv, OneProtector, SensitiveDigitsAreRedacted, Protects, Redacted
  <1>5. active' \in [Endpoints -> Commands \union {NoCommand}]
    BY <1>1 DEF IInv
  <1>6. OneActionPerEndpoint'
    <2>1. ASSUME NEW e \in Endpoints
          PROVE  active'[e] = IF active[e] \in hit /\ command[active[e]].pc = "collecting"
                              THEN NoCommand ELSE active[e]
      BY <1>1
    <2> QED
      BY <2>1, <1>2, <1>3, EndpointAssumption DEF IInv, OneActionPerEndpoint
  <1> QED
    BY <1>1, <1>3, <1>4, <1>5, <1>6 DEF IInv

(* An endpoint is forgotten, and with it its claim and its protection. *)
LEMMA ForgetStep ==
  ASSUME IInv, NEW e \in Endpoints, ForgetEndpoint(e)
  PROVE  IInv'
  <1>1. /\ tracked' = tracked \ {e} /\ sensitive' = sensitive \ {e} /\ command' = command
        /\ active' = [active EXCEPT ![e] = NoCommand]
    BY DEF ForgetEndpoint, SensitiveWithout
  <1>2. \A f \in Endpoints : active'[f] = IF f = e THEN NoCommand ELSE active[f]
    BY <1>1 DEF IInv
  <1>3. OneActionPerEndpoint'
    BY <1>1, <1>2, EndpointAssumption DEF IInv, OneActionPerEndpoint
  <1>4. OneProtector' /\ SensitiveDigitsAreRedacted'
    BY <1>1 DEF IInv, OneProtector, SensitiveDigitsAreRedacted, Redacted
  <1> QED
    BY <1>1, <1>3, <1>4 DEF IInv

-----------------------------------------------------------------------------
LEMMA InitInv == Init => IInv
  BY IdleType, EndpointAssumption
  DEF Init, IInv, OneProtector, SensitiveDigitsAreRedacted, OneActionPerEndpoint, Protects, Holding

(* A command that has just begun. *)
LEMMA FreshFits ==
  ASSUME NEW e \in Endpoints,
         NEW op \in {"gather", "playAndGather", "leaveMessage"}, NEW pc \in Stages,
         op = "leaveMessage" => pc = "startingVad",
         op # "leaveMessage" => pc \in {"creating", "collecting"}
  PROVE  /\ CommandOK(Fresh(op, e, pc))
         /\ Fresh(op, e, pc).op = op /\ Fresh(op, e, pc).endpoint = e
         /\ Fresh(op, e, pc).pc = pc /\ ~Fresh(op, e, pc).sensitive
  BY DEF Fresh, Idle, CommandOK, CommandType, Stages

LEMMA SensitiveFits ==
  ASSUME NEW e \in Endpoints, NEW op \in {"gather", "playAndGather"}
  PROVE  LET c == [Fresh(op, e, "enabling") EXCEPT !.sensitive = TRUE]
         IN  CommandOK(c) /\ c.endpoint = e /\ c.pc = "enabling" /\ c.op = op /\ c.sensitive
  BY DEF Fresh, Idle, CommandOK, CommandType, Stages

LEMMA StartsInv ==
  ASSUME IInv, NEW k \in Commands, CommandStarts(k)
  PROVE  IInv'
  <1>1. ASSUME NEW e \in Endpoints, Gather(k, e)
        PROVE  IInv'
    <2> DEFINE c == Fresh("gather", e, "collecting")
    <2>1. CommandOK(c) /\ c.endpoint = e /\ c.pc = "collecting" /\ ~c.sensitive /\ Holding(c)
      BY FreshFits DEF Stages, Holding
    <2> HIDE DEF c
    <2>2. Start(k, c) /\ MayClaim(e) /\ active' = Claimed(k, e) /\ UNCHANGED <<tracked, sensitive>>
      BY <1>1 DEF Gather, sessionVars, c
    <2> QED
      BY <2>1, <2>2, StartStep
  <1>2. ASSUME NEW e \in Endpoints, PlayAndGather(k, e)
        PROVE  IInv'
    <2> DEFINE c == Fresh("playAndGather", e, "creating")
    <2>1. CommandOK(c) /\ c.endpoint = e /\ c.pc = "creating" /\ ~c.sensitive /\ ~Holding(c)
      BY FreshFits DEF Stages, Holding
    <2> HIDE DEF c
    <2>2. Start(k, c) /\ UNCHANGED <<tracked, sensitive, active>>
      BY <1>2 DEF PlayAndGather, sessionVars, c
    <2> QED
      BY <2>1, <2>2, StartStep
  <1>3. ASSUME NEW e \in Endpoints, NEW op \in {"gather", "playAndGather"},
               SensitiveGather(k, e, op)
        PROVE  IInv'
    <2> DEFINE c == [Fresh(op, e, "enabling") EXCEPT !.sensitive = TRUE]
    <2>1. CommandOK(c) /\ c.endpoint = e /\ c.pc = "enabling" /\ c.op = op /\ c.sensitive
      BY SensitiveFits
    <2> HIDE DEF c
    <2>2. ~Holding(c)
      BY <2>1 DEF Holding
    <2>3. /\ Start(k, c) /\ e \notin sensitive /\ sensitive' = sensitive \union {e}
          /\ UNCHANGED <<tracked, active>>
      BY <1>3 DEF SensitiveGather, MayGather, sessionVars, c
    <2> QED
      BY <2>1, <2>2, <2>3, StartStep
  <1>4. ASSUME NEW e \in Endpoints, LeaveMessage(k, e)
        PROVE  IInv'
    <2> DEFINE c == Fresh("leaveMessage", e, "startingVad")
    <2>1. CommandOK(c) /\ c.endpoint = e /\ c.pc = "startingVad" /\ ~c.sensitive /\ Holding(c)
      BY FreshFits DEF Stages, Holding
    <2> HIDE DEF c
    <2>2. Start(k, c) /\ MayClaim(e) /\ active' = Claimed(k, e) /\ UNCHANGED <<tracked, sensitive>>
      BY <1>4 DEF LeaveMessage, sessionVars, c
    <2> QED
      BY <2>1, <2>2, StartStep
  <1> QED
    BY <1>1, <1>2, <1>3, <1>4 DEF CommandStarts

(* Collect: the claim and the listening begin, or the command ends. *)
LEMMA CollectInv ==
  ASSUME IInv, NEW k \in Commands, NEW c, Collect(k, c), UNCHANGED <<tracked, sensitive>>,
         command[k].pc \in {"enabling", "creating"}, command[k].op # "leaveMessage",
         \/ c = command[k]
         \/ c = [command[k] EXCEPT !.playback = "playing"]
  PROVE  IInv'
  <1>1. CommandOK(command[k]) /\ ~Holding(command[k]) /\ c.endpoint = command[k].endpoint
    BY DEF IInv, Holding, CommandOK, CommandType
  <1>2. CASE MayClaim(c.endpoint) /\ active' = Claimed(k, c.endpoint)
             /\ command' = [command EXCEPT ![k] = [c EXCEPT !.pc = "collecting"]]
    <2> DEFINE d == [c EXCEPT !.pc = "collecting"]
    <2>1. GoesOn(command[k], d) /\ Holding(d) /\ d.endpoint = c.endpoint
      BY <1>1 DEF GoesOn, CommandOK, CommandType, Stages, Protects, Holding
    <2> HIDE DEF d
    <2>2. command' = [command EXCEPT ![k] = d]
      BY <1>2 DEF d
    <2> QED
      BY <1>1, <1>2, <2>1, <2>2, OneStep
  <1>3. CASE command' = [command EXCEPT ![k] = CollectEnded(c)] /\ active' = active
    <2>1. GoesOn(command[k], CollectEnded(c)) /\ ~Holding(CollectEnded(c))
      BY <1>1 DEF GoesOn, CommandOK, CommandType, Stages, Protects, Holding, CollectEnded,
         StopPlayback, AfterOperation
    <2> QED
      BY <1>1, <1>3, <2>1, OneStep
  <1> QED
    BY <1>2, <1>3 DEF Collect

LEMMA GoesOnInv ==
  ASSUME IInv, NEW k \in Commands, CommandGoesOn(k) \/ CommandHears(k)
  PROVE  IInv'
  <1> DEFINE c == command[k]
  <1>0. CommandOK(c) /\ GoesOn(c, c)
    BY DEF IInv, GoesOn
  <1>1. CASE SensitiveOn(k)
    <2>1. CASE c.op = "gather" /\ Collect(k, c)
      BY <1>1, <2>1, CollectInv DEF SensitiveOn, sessionVars
    <2>2. CASE c.op = "playAndGather" /\ command' = [command EXCEPT ![k].pc = "creating"]
               /\ UNCHANGED active
      <3> DEFINE d == [c EXCEPT !.pc = "creating"]
      <3>1. GoesOn(c, d) /\ ~Holding(d) /\ ~Holding(c)
        BY <1>0, <1>1, <2>2
        DEF SensitiveOn, GoesOn, CommandOK, CommandType, Stages, Protects, Holding
      <3> QED
        BY <1>1, <2>2, <3>1, OneStep DEF SensitiveOn, sessionVars
    <2> QED
      BY <1>1, <2>1, <2>2 DEF SensitiveOn
  <1>2. CASE SensitiveOnFails(k) \/ SensitiveOff(k) \/ SensitiveOffFails(k)
    BY <1>2, UncoverStep DEF SensitiveOnFails, SensitiveOff, SensitiveOffFails, sessionVars
  <1>3. CASE FileCreated(k)
    <2> DEFINE d == [c EXCEPT !.playback = "playing"]
    <2>1. CASE c.op = "playAndGather" /\ Collect(k, d)
      BY <1>3, <2>1, CollectInv DEF FileCreated, sessionVars
    <2>2. CASE /\ c.op = "leaveMessage" /\ UNCHANGED active
               /\ command' = [command EXCEPT ![k] = IF d.aborted THEN StopPlayback(d)
                                                    ELSE [d EXCEPT !.pc = "playing"]]
      <3> DEFINE f == IF d.aborted THEN StopPlayback(d) ELSE [d EXCEPT !.pc = "playing"]
      <3>1. GoesOn(c, f) /\ Holding(f) /\ Holding(c)
        BY <1>0, <1>3, <2>2
        DEF FileCreated, GoesOn, CommandOK, CommandType, Stages, Protects, Holding, StopPlayback
      <3> QED
        BY <1>3, <2>2, <3>1, OneStep DEF FileCreated, sessionVars
    <2> QED
      BY <1>3, <2>1, <2>2 DEF FileCreated
  <1>4. CASE FileFails(k)
    <2> DEFINE d == [c EXCEPT !.pc = AfterOperation(c)]
    <2>1. GoesOn(c, d) /\ ~Holding(d)
      BY <1>0, <1>4
      DEF FileFails, AfterOperation, GoesOn, CommandOK, CommandType, Stages, Protects, Holding
    <2> QED
      BY <1>4, <2>1, OneStep DEF FileFails, sessionVars
  <1>5. CASE PlaybackRemoved(k)
    <2>1. PICK outcome \in {"gone", "left"} :
            command' = [command EXCEPT ![k].playback = outcome,
                                       ![k].pc = IF @ = "stopping" THEN AfterOperation(c) ELSE @]
      BY <1>5 DEF PlaybackRemoved
    <2> DEFINE d == [c EXCEPT !.playback = outcome,
                              !.pc = IF @ = "stopping" THEN AfterOperation(c) ELSE @]
    <2>2. command' = [command EXCEPT ![k] = d]
      BY <2>1 DEF IInv
    <2>3. /\ GoesOn(c, d)
          /\ c.pc = "stopping" => ~Holding(d)
          /\ c.pc # "stopping" => (Holding(d) <=> Holding(c))
      <3>1. c.playback = "removing" /\ CommandOK(c)
        BY <1>0, <1>5 DEF PlaybackRemoved
      <3>2. /\ d \in CommandType /\ d.op = c.op /\ d.endpoint = c.endpoint
            /\ d.sensitive = c.sensitive /\ d.playback = outcome
            /\ d.pc = IF c.pc = "stopping" THEN AfterOperation(c) ELSE c.pc
        BY <3>1 DEF AfterOperation, CommandOK, CommandType, Stages
      <3> HIDE DEF d
      <3>3. GoesOn(c, d)
        BY <3>1, <3>2 DEF AfterOperation, GoesOn, CommandOK, CommandType, Stages, Protects
      <3> QED
        BY <3>1, <3>2, <3>3 DEF AfterOperation, CommandOK, CommandType, Stages, Holding
    <2> QED
      BY <1>5, <2>2, <2>3, OneStep DEF PlaybackRemoved, sessionVars
  <1>6. CASE VadStarted(k) \/ VadFails(k)
    <2> DEFINE d == [c EXCEPT !.pc = command'[k].pc]
    <2>1. /\ command' = [command EXCEPT ![k] = d]
          /\ d.pc \in {"listening", "stoppingVad"} /\ c.pc = "startingVad"
          /\ UNCHANGED <<tracked, sensitive, active>>
      BY <1>0, <1>6 DEF VadStarted, VadFails, sessionVars, IInv, CommandOK, CommandType
    <2>2. GoesOn(c, d) /\ Holding(d) /\ Holding(c)
      BY <1>0, <2>1 DEF GoesOn, CommandOK, CommandType, Stages, Protects, Holding
    <2> QED
      BY <2>1, <2>2, OneStep
  <1>7. CASE VadStopped(k)
    <2> DEFINE d == [c EXCEPT !.pc = IF c.message THEN "creating" ELSE "idle"]
    <2>1. /\ GoesOn(c, d)
          /\ c.message => Holding(d) /\ Holding(c)
          /\ ~c.message => ~Holding(d)
      BY <1>0, <1>7 DEF VadStopped, GoesOn, CommandOK, CommandType, Stages, Protects, Holding
    <2> QED
      BY <1>7, <2>1, OneStep DEF VadStopped, sessionVars
  <1>8. CASE Timeout(k)
    <2>1. CASE /\ c.pc = "listening" /\ active' = active
               /\ command' = [command EXCEPT ![k].pc = "stoppingVad"]
      <3> DEFINE d == [c EXCEPT !.pc = "stoppingVad"]
      <3>1. GoesOn(c, d) /\ Holding(d) /\ Holding(c)
        BY <1>0, <2>1 DEF GoesOn, CommandOK, CommandType, Stages, Protects, Holding
      <3> QED
        BY <1>8, <2>1, <3>1, OneStep DEF Timeout, sessionVars
    <2>2. CASE /\ c.pc = "playing" /\ active' = active
               /\ command' = [command EXCEPT ![k] = StopPlayback(@)]
      <3>1. GoesOn(c, StopPlayback(c)) /\ Holding(StopPlayback(c)) /\ Holding(c)
        BY <1>0, <2>2, StopPlaybackFits DEF CommandOK, Holding
      <3> QED
        BY <1>8, <2>2, <3>1, OneStep DEF Timeout, sessionVars
    <2>3. CASE /\ c.pc = "collecting" /\ active' = Released(k)
               /\ command' = [command EXCEPT ![k] = CollectEnded(@)]
      <3>1. GoesOn(c, CollectEnded(c)) /\ ~Holding(CollectEnded(c))
        BY <1>0, <2>3, CollectEndedFits DEF CommandOK
      <3> QED
        BY <1>8, <2>3, <3>1, OneStep DEF Timeout, sessionVars
    <2> QED
      BY <1>8, <2>1, <2>2, <2>3 DEF Timeout
  <1>9. CASE FirstDigit(k)
    <2> DEFINE d == [c EXCEPT !.playback = "removing"]
    <2>1. GoesOn(c, d) /\ (Holding(d) <=> Holding(c))
      BY <1>0 DEF GoesOn, CommandOK, CommandType, Stages, Protects, Holding
    <2> QED
      BY <1>9, <2>1, OneStep DEF FirstDigit, sessionVars
  <1>10. CASE LastDigit(k)
    <2>1. GoesOn(c, CollectEnded(c)) /\ ~Holding(CollectEnded(c))
      BY <1>0, <1>10, CollectEndedFits DEF LastDigit, CommandOK
    <2> QED
      BY <1>10, <2>1, OneStep DEF LastDigit, sessionVars
  <1>11. CASE Terminator(k)
    <2>1. PICK message \in BOOLEAN :
            command' = [command EXCEPT ![k].pc = "stoppingVad", ![k].message = message]
      BY <1>11 DEF Terminator
    <2> DEFINE d == [c EXCEPT !.pc = "stoppingVad", !.message = message]
    <2>2. command' = [command EXCEPT ![k] = d]
      BY <2>1 DEF IInv
    <2>3. GoesOn(c, d) /\ Holding(d) /\ Holding(c)
      BY <1>0, <1>11 DEF Terminator, GoesOn, CommandOK, CommandType, Stages, Protects, Holding
    <2> QED
      BY <1>11, <2>2, <2>3, OneStep DEF Terminator, sessionVars
  <1>12. CASE MessageFinished(k)
    <2>1. GoesOn(c, StopPlayback(c)) /\ Holding(StopPlayback(c)) /\ Holding(c)
      BY <1>0, <1>12, StopPlaybackFits DEF MessageFinished, CommandOK, Holding
    <2> QED
      BY <1>12, <2>1, OneStep DEF MessageFinished, sessionVars
  <1> QED
    BY <1>1, <1>2, <1>3, <1>4, <1>5, <1>6, <1>7, <1>8, <1>9, <1>10, <1>11, <1>12
    DEF CommandGoesOn, CommandHears

LEMMA StepInv == IInv /\ [Next]_vars => IInv'
  <1> SUFFICES ASSUME IInv, [Next]_vars PROVE IInv'
    OBVIOUS
  <1>1. ASSUME NEW k \in Commands, CommandStarts(k) PROVE IInv'
    BY <1>1, StartsInv
  <1>2. ASSUME NEW k \in Commands, CommandGoesOn(k) \/ CommandHears(k) PROVE IInv'
    BY <1>2, GoesOnInv
  <1>3. ASSUME NEW e \in Endpoints, StopMedia(e) PROVE IInv'
    BY <1>3, CancelStep DEF StopMedia
  <1>4. CASE DropSession
    BY <1>4, CancelStep DEF DropSession, IInv
  <1>5. ASSUME NEW e \in Endpoints, EndpointRemoved(e) \/ FarEndRemoved(e) PROVE IInv'
    BY <1>5, ForgetStep DEF EndpointRemoved, FarEndRemoved
  <1>6. CASE \/ \E e \in Endpoints : Unbridge(e) \/ EndpointRemoveFails(e)
             \/ SocketClosed \/ UNCHANGED vars
    <2>1. UNCHANGED <<tracked, active, sensitive, command>>
      BY <1>6 DEF Unbridge, EndpointRemoveFails, SocketClosed, vars
    <2> QED
      BY <2>1 DEF IInv, OneProtector, SensitiveDigitsAreRedacted, Redacted, OneActionPerEndpoint
  <1> QED
    BY <1>1, <1>2, <1>3, <1>4, <1>5, <1>6 DEF Next, Ended

LEMMA Inductive == Spec => []IInv
  BY InitInv, StepInv, PTL DEF Spec

(* The digits of a sensitive gather are redacted from before rtpbridge is    *)
(* asked for sensitive mode until it has been asked to leave it, for any     *)
(* commands that run, conflict, fail or are cancelled meanwhile.             *)
THEOREM DigitsAreRedacted == Spec => []SensitiveDigitsAreRedacted
  <1>1. IInv => SensitiveDigitsAreRedacted
    BY DEF IInv
  <1> QED
    BY <1>1, Inductive, PTL

(* A claim is held by the one command that listens on its endpoint. *)
THEOREM OneActionHoldsEachEndpoint == Spec => []OneActionPerEndpoint
  <1>1. IInv => OneActionPerEndpoint
    BY DEF IInv
  <1> QED
    BY <1>1, Inductive, PTL

(* No prompt or message plays on behind the command that started it. *)
THEOREM PlaybackEnds == Spec => []PlaybackEndsWithItsCommand
  <1>1. IInv => PlaybackEndsWithItsCommand
    BY DEF IInv, CommandOK, PlaybackEndsWithItsCommand
  <1> QED
    BY <1>1, Inductive, PTL

(* What no command is in: the session, its socket, and what is being removed. *)
Around ==
    /\ live \in BOOLEAN
    /\ client \in {"open", "closed"}
    /\ removing \subseteq Endpoints
    /\ sensitive \subseteq tracked
    /\ command = [k \in Commands |-> command[k]]

(* Replacing one command leaves a function of the commands. *)
LEMMA IsFunction ==
  ASSUME command = [k \in Commands |-> command[k]], NEW k, NEW c
  PROVE  LET f == [command EXCEPT ![k] = c] IN f = [j \in Commands |-> f[j]]
  OBVIOUS

LEMMA AroundStep == IInv /\ Around /\ [Next]_vars => Around'
  <1> SUFFICES ASSUME IInv, Around, [Next]_vars PROVE Around'
    OBVIOUS
  <1>1. ASSUME NEW k \in Commands, CommandStarts(k) PROVE Around'
    <2>1. PICK e \in Endpoints :
            \/ Gather(k, e) \/ PlayAndGather(k, e) \/ LeaveMessage(k, e)
            \/ \E op \in {"gather", "playAndGather"} : SensitiveGather(k, e, op)
      BY <1>1 DEF CommandStarts
    <2>2. \A op : [Fresh(op, e, "enabling") EXCEPT !.sensitive = TRUE].endpoint = e
      BY DEF Fresh, Idle
    <2>3. /\ UNCHANGED sessionVars
          /\ sensitive' \subseteq sensitive \union tracked
          /\ \E c : command' = [command EXCEPT ![k] = c]
      BY <2>1, <2>2 DEF Gather, PlayAndGather, SensitiveGather, LeaveMessage, Start
    <2>4. command' = [j \in Commands |-> command'[j]]
      BY <2>3, IsFunction DEF Around
    <2> QED
      BY <2>3, <2>4 DEF sessionVars, Around
  <1>2. ASSUME NEW k \in Commands, CommandGoesOn(k) \/ CommandHears(k) PROVE Around'
    <2>1. /\ UNCHANGED sessionVars
          /\ sensitive' \subseteq sensitive
      BY <1>2 DEF CommandGoesOn, CommandHears, SensitiveOn, SensitiveOnFails, SensitiveOff,
         SensitiveOffFails, FileCreated, FileFails, PlaybackRemoved, VadStarted, VadFails,
         VadStopped, Timeout, FirstDigit, LastDigit, Terminator, MessageFinished
    <2>2. command' = [j \in Commands |-> command'[j]]
      BY <1>2, IsFunction DEF Around, CommandGoesOn, CommandHears, SensitiveOn, Collect,
         SensitiveOnFails, SensitiveOff, SensitiveOffFails, FileCreated, FileFails,
         PlaybackRemoved, VadStarted, VadFails, VadStopped, Timeout, FirstDigit, LastDigit,
         Terminator, MessageFinished
    <2> QED
      BY <2>1, <2>2 DEF sessionVars, Around
  <1>3. ASSUME NEW e \in Endpoints,
               \/ StopMedia(e) \/ Unbridge(e) \/ EndpointRemoved(e)
               \/ EndpointRemoveFails(e) \/ FarEndRemoved(e)
        PROVE  Around'
    BY <1>3 DEF StopMedia, Unbridge, EndpointRemoved, EndpointRemoveFails, FarEndRemoved,
       ForgetEndpoint, SensitiveWithout, CancelActions, Around
  <1>4. CASE DropSession \/ SocketClosed \/ UNCHANGED vars
    BY <1>4 DEF DropSession, SocketClosed, SensitiveWithout, CancelActions, vars, Around
  <1> QED
    BY <1>1, <1>2, <1>3, <1>4 DEF Next, Ended

(* The session, its commands and what they claim have their types: only       *)
(* endpoints the session still has are in sensitive mode.                     *)
THEOREM EndpointTypes ==
  ASSUME Endpoints # {}
  PROVE  Spec => []TypeOK
  <1>1. Init => Around
    BY DEF Init, Around, Idle
  <1>2. Idle.endpoint \in Endpoints
    BY DEF Idle
  <1>3. IInv /\ Around => TypeOK
    <2> SUFFICES ASSUME IInv, Around PROVE TypeOK
      OBVIOUS
    <2>1. \A k \in Commands : CommandOK(command[k])
      BY DEF IInv
    <2> QED
      BY <1>2, <2>1 DEF IInv, Around, CommandOK, CommandType, Stages, TypeOK
  <1> QED
    BY <1>1, <1>3, AroundStep, Inductive, PTL DEF Spec

-----------------------------------------------------------------------------
(* RtpbridgeClient: SocketLossIsNoticed for any set of requests.  Together    *)
(* with the types it is inductive: what keeps it is that a request looks at   *)
(* the socket once more after its await, and that the first of loss and       *)
(* close() decides whether the handler runs.                                  *)

ClientIInv == ClientTypeOK /\ SocketLossIsNoticed

LEMMA ClientInitInv == ClientInit => ClientIInv
  BY DEF ClientInit, ClientIInv, ClientTypeOK, SocketLossIsNoticed

(* One request's step: it becomes pending only on a socket that is open. *)
LEMMA RequestStep ==
  ASSUME ClientIInv, UNCHANGED <<socketVars, handlerVars>>, NEW r \in Requests,
         NEW state \in {"waiting", "pending", "resolved", "rejected"}, Set(r, state),
         state = "pending" => CanSend
  PROVE  ClientIInv'
  BY DEF ClientIInv, ClientTypeOK, SocketLossIsNoticed, Set, CanSend, socketVars, handlerVars

(* Whatever ends the socket rejects what is pending and marks the end. *)
LEMMA LossStep ==
  ASSUME ClientIInv, RejectAllPending, FireCloseHandlers,
         ws' \in {"closing", "closed"}, ready' \in {ready, "rejected"}
  PROVE  ClientIInv'
  <1>1. /\ request' \in [Requests -> {"none", "waiting", "pending", "resolved", "rejected"}]
        /\ \A r \in Requests : request'[r] # "pending"
    BY DEF ClientIInv, ClientTypeOK, RejectAllPending
  <1>2. CASE ended = "no"
    <2>1. /\ ended' = "loss" /\ handlers' = FALSE /\ registered' = registered
          /\ fired' = IF handlers THEN fired + 1 ELSE fired
      BY <1>2 DEF FireCloseHandlers
    <2>2. /\ registered \in BOOLEAN
          /\ fired = 0
          /\ handlers <=> registered
      BY <1>2 DEF ClientIInv, ClientTypeOK, SocketLossIsNoticed
    <2>3. fired' = IF registered THEN 1 ELSE 0
      <3>1. CASE handlers
        BY <2>1, <2>2, <3>1
      <3>2. CASE ~handlers
        BY <2>1, <2>2, <3>2
      <3> QED
        BY <3>1, <3>2
    <2>4. fired' \in {0, 1}
      BY <2>3
    <2>5. handlers' = (registered' /\ ended' = "no")
      BY <2>1
    <2>6. ClientTypeOK'
      BY <1>1, <2>1, <2>2, <2>4, <2>5 DEF ClientIInv, ClientTypeOK
    <2>7. SocketLossIsNoticed'
      BY <1>1, <2>1, <2>3 DEF SocketLossIsNoticed
    <2> QED
      BY <2>6, <2>7 DEF ClientIInv
  <1>3. CASE ended # "no"
    BY <1>1, <1>3 DEF ClientIInv, ClientTypeOK, SocketLossIsNoticed, FireCloseHandlers, handlerVars
  <1> QED
    BY <1>2, <1>3

LEMMA ClientStepInv == ClientIInv /\ [ClientNext]_clientVars => ClientIInv'
  <1> SUFFICES ASSUME ClientIInv, [ClientNext]_clientVars PROVE ClientIInv'
    OBVIOUS
  <1>1. ASSUME NEW r \in Requests, SendRequest(r)
        PROVE  ClientIInv'
    BY <1>1, RequestStep DEF SendRequest
  <1>2. ASSUME NEW r \in Requests, Send(r)
        PROVE  ClientIInv'
    <2>1. CASE CanSend
      BY <1>2, <2>1, RequestStep DEF Send
    <2>2. CASE ~CanSend
      BY <1>2, <2>2, RequestStep DEF Send
    <2> QED
      BY <2>1, <2>2
  <1>3. ASSUME NEW r \in Requests, ReadyFails(r) \/ RequestFails(r)
        PROVE  ClientIInv'
    BY <1>3, RequestStep DEF ReadyFails, RequestFails
  <1>4. ASSUME NEW r \in Requests, Answer(r)
        PROVE  ClientIInv'
    BY <1>4, RequestStep DEF Answer
  <1>5. CASE OnClose
    BY <1>5 DEF OnClose, ClientIInv, ClientTypeOK, SocketLossIsNoticed, socketVars
  <1>6. CASE Open \/ ConnectTimeout
    BY <1>6 DEF Open, ConnectTimeout, ClientIInv, ClientTypeOK, SocketLossIsNoticed, handlerVars
  <1>7. CASE Close
    BY <1>7 DEF Close, ClientIInv, ClientTypeOK, SocketLossIsNoticed
  <1>8. CASE SocketError
    BY <1>8, LossStep DEF SocketError
  <1>9. CASE SocketClose
    BY <1>9, LossStep DEF SocketClose
  <1>10. CASE UNCHANGED clientVars
    BY <1>10 DEF clientVars, socketVars, handlerVars, ClientIInv, ClientTypeOK, SocketLossIsNoticed
  <1> QED
    BY <1>1, <1>2, <1>3, <1>4, <1>5, <1>6, <1>7, <1>8, <1>9, <1>10 DEF ClientNext

(* The loss of the socket leaves no request pending, not even one that was on  *)
(* its way through `await ready`, and reaches the session exactly once, unless *)
(* close() came first.                                                         *)
THEOREM LossIsNoticed == ClientSpec => []SocketLossIsNoticed
  <1>1. ClientSpec => []ClientIInv
    BY ClientInitInv, ClientStepInv, PTL DEF ClientSpec
  <1> QED
    BY <1>1, PTL DEF ClientIInv
=============================================================================
