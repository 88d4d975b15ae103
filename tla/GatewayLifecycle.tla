--------------------------- MODULE GatewayLifecycle ---------------------------
(***************************************************************************)
(* The drain state machine of GatewayLifecycle with the two things that    *)
(* run beside it: the operations that count as pending (HTTP requests,     *)
(* control requests, tracked setup and teardown) and the start-up loop     *)
(* that waits for Drachtio.  The process ends in process.exit(0) when the  *)
(* drain stops or in process.exit(1) when start-up fails.                  *)
(*                                                                         *)
(* A timer is the number of ticks it has left; Tick lets time pass, and    *)
(* never past a timer that is due.                                         *)
(***************************************************************************)
EXTENDS Integers, FiniteSets

CONSTANTS
    Handles,         \* the `finish` closures beginOperation can hand out at once
    MaxResources,    \* bound on calls, reservations and media sessions
    MaxWait,         \* SHUTDOWN_MAX_WAIT_MS
    PollInterval,    \* the 100 ms of the drain poll
    CleanupTimeout,  \* SHUTDOWN_CLEANUP_TIMEOUT_MS
    FirstRetry,      \* initialRetryDelayMs
    LastRetry        \* maxRetryDelayMs

ASSUME LifecycleAssumption ==
    /\ IsFiniteSet(Handles)
    /\ MaxResources \in Nat
    /\ MaxWait \in Nat \ {0}
    /\ PollInterval \in Nat \ {0}
    /\ CleanupTimeout \in Nat \ {0}
    /\ FirstRetry \in Nat \ {0}
    /\ LastRetry \in Nat
    /\ FirstRetry <= LastRetry

VARIABLES
    isDraining, isStopping,
    pendingOperations,
    handle,       \* what became of each finish closure
    resources,    \* options.activeResources()
    pollIn,       \* time to the next drain poll, or Off
    deadlineIn,   \* time to the drain deadline, or Off
    cleanup,      \* options.stop(): "none", "running" or "done"
    cleanupIn,    \* time to the cleanup timeout, or Off
    startup,      \* the start-up loop: "probing", "waiting", "connected" or "failed"
    retryIn,      \* time to the next probe, or Off
    retryDelayMs,
    exitCode,     \* NoCode while the process runs
    forced,       \* the argument of stop()
    waited        \* history: time since the drain began

drainVars   == <<isDraining, isStopping, pollIn, deadlineIn, forced>>
workVars    == <<pendingOperations, handle, resources>>
cleanupVars == <<cleanup, cleanupIn, exitCode>>
startupVars == <<startup, retryIn, retryDelayMs>>
vars == <<drainVars, workVars, cleanupVars, startupVars, waited>>

Off    == -1
NoCode == -1
Alive  == exitCode = NoCode

AssertRunning == ~isStopping

-----------------------------------------------------------------------------
(* Operations and resources. *)

(* beginOperation hands out a finish closure. *)
BeginOperation(h) ==
    /\ Alive
    /\ handle[h] = "free"
    /\ AssertRunning
    /\ handle' = [handle EXCEPT ![h] = "running"]
    /\ pendingOperations' = pendingOperations + 1
    /\ UNCHANGED <<drainVars, resources, cleanupVars, startupVars, waited>>

(* `if (finished) return`: only the first call counts. *)
Finish(h) == IF handle[h] = "running" THEN pendingOperations - 1 ELSE pendingOperations

(* finish is called; `finish` and `close` of one HTTP response both call it. *)
FinishOperation(h) ==
    /\ Alive
    /\ handle[h] \in {"running", "finished"}
    /\ pendingOperations' = Finish(h)
    /\ handle' = [handle EXCEPT ![h] = IF @ = "running" THEN "finished" ELSE "closed"]
    /\ UNCHANGED <<drainVars, resources, cleanupVars, startupVars, waited>>

(* The closure is forgotten; a later request gets a new one. *)
DropHandle(h) ==
    /\ Alive
    /\ handle[h] \in {"finished", "closed"}
    /\ handle' = [handle EXCEPT ![h] = "free"]
    /\ UNCHANGED <<drainVars, pendingOperations, resources, cleanupVars, startupVars, waited>>

(* A call, reservation or media session appears inside a running operation, *)
(* right after its assertRunning.                                           *)
AddResource ==
    /\ Alive
    /\ AssertRunning
    /\ resources < MaxResources
    /\ \E h \in Handles : handle[h] = "running"
    /\ resources' = resources + 1
    /\ UNCHANGED <<drainVars, pendingOperations, handle, cleanupVars, startupVars, waited>>

RemoveResource ==
    /\ Alive
    /\ resources > 0
    /\ resources' = resources - 1
    /\ UNCHANGED <<drainVars, pendingOperations, handle, cleanupVars, startupVars, waited>>

-----------------------------------------------------------------------------
(* Drain, poll, deadline, stop. *)

(* Mutant: every signal starts the drain over. *)
AlwaysDrains == TRUE

(* `if (this.completion) return`: the first request sets the deadline. *)
StartsDrain == ~isDraining

Drain ==
    /\ Alive
    /\ StartsDrain
    /\ isDraining' = TRUE
    /\ pollIn' = PollInterval
    /\ deadlineIn' = MaxWait
    /\ UNCHANGED <<isStopping, forced, workVars, cleanupVars, startupVars, waited>>

(* Mutant: the poll forgets the requests that are still being set up. *)
OnlyResources == resources = 0

IsQuiet == pendingOperations = 0 /\ resources = 0

(* stop(forced): the drain timers are cleared and options.stop() begins. *)
Stop(byDeadline) ==
    /\ ~isStopping
    /\ isStopping' = TRUE
    /\ forced' = byDeadline
    /\ pollIn' = Off
    /\ deadlineIn' = Off
    /\ cleanup' = "running"
    /\ cleanupIn' = CleanupTimeout
    /\ UNCHANGED <<isDraining, workVars, exitCode, startupVars, waited>>

PollBusy ==
    /\ Alive
    /\ pollIn = 0
    /\ ~IsQuiet
    /\ pollIn' = PollInterval
    /\ UNCHANGED <<isDraining, isStopping, deadlineIn, forced, workVars,
                   cleanupVars, startupVars, waited>>

PollQuiet ==
    /\ Alive
    /\ pollIn = 0
    /\ IsQuiet
    /\ Stop(FALSE)

Deadline ==
    /\ Alive
    /\ deadlineIn = 0
    /\ Stop(TRUE)

(* options.stop() settles: hang-ups, media sessions, sockets, HTTP server.  It *)
(* may take for ever: a peer need not answer, nor close its socket.            *)
CleanupDone ==
    /\ Alive
    /\ cleanup = "running"
    /\ cleanup' = "done"
    /\ UNCHANGED <<drainVars, workVars, cleanupIn, exitCode, startupVars, waited>>

(* Mutant: stop() waits for the cleanup alone. *)
NeverTimesOut == FALSE

CleanupTimedOut == cleanupIn = 0

(* Promise.race has a winner, 'stopped' is emitted and index.ts exits with 0. *)
Stopped ==
    /\ Alive
    /\ cleanup = "done" \/ CleanupTimedOut
    /\ exitCode' = 0
    /\ UNCHANGED <<drainVars, workVars, cleanup, cleanupIn, startupVars, waited>>

-----------------------------------------------------------------------------
(* waitForDrachtioEndpoint, started by index.ts beside everything above. *)

ProbeSucceeds ==
    /\ Alive
    /\ startup = "probing"
    /\ startup' = "connected"
    /\ UNCHANGED <<drainVars, workVars, cleanupVars, retryIn, retryDelayMs, waited>>

ProbeFails ==
    /\ Alive
    /\ startup = "probing"
    /\ startup' = "waiting"
    /\ retryIn' = retryDelayMs
    /\ UNCHANGED <<drainVars, workVars, cleanupVars, retryDelayMs, waited>>

Doubled(delay) == IF 2 * delay < LastRetry THEN 2 * delay ELSE LastRetry

(* The loop goes round: assertRunning throws while the gateway stops, and then *)
(* run() rejects and index.ts exits with 1.                                    *)
Retry ==
    /\ Alive
    /\ retryIn = 0
    /\ retryIn' = Off
    /\ retryDelayMs' = Doubled(retryDelayMs)
    /\ \/ AssertRunning /\ startup' = "probing" /\ UNCHANGED exitCode
       \/ ~AssertRunning /\ startup' = "failed" /\ exitCode' = 1
    /\ UNCHANGED <<drainVars, workVars, cleanup, cleanupIn, waited>>

-----------------------------------------------------------------------------
Timers == {pollIn, deadlineIn, cleanupIn, retryIn}

Less(t) == IF t = Off THEN Off ELSE t - 1

(* Time passes while some timer runs and none is due. *)
Tick ==
    /\ Alive
    /\ \E t \in Timers : t # Off
    /\ 0 \notin Timers
    /\ pollIn' = Less(pollIn)
    /\ deadlineIn' = Less(deadlineIn)
    /\ cleanupIn' = Less(cleanupIn)
    /\ retryIn' = Less(retryIn)
    /\ waited' = IF isDraining THEN waited + 1 ELSE waited
    /\ UNCHANGED <<isDraining, isStopping, forced, workVars, cleanup, exitCode,
                   startup, retryDelayMs>>

Exited == ~Alive /\ UNCHANGED vars

Init ==
    /\ isDraining = FALSE
    /\ isStopping = FALSE
    /\ pendingOperations = 0
    /\ handle = [h \in Handles |-> "free"]
    /\ resources = 0
    /\ pollIn = Off
    /\ deadlineIn = Off
    /\ cleanup = "none"
    /\ cleanupIn = Off
    /\ startup = "probing"
    /\ retryIn = Off
    /\ retryDelayMs = FirstRetry
    /\ exitCode = NoCode
    /\ forced = FALSE
    /\ waited = 0

Next ==
    \/ \E h \in Handles : BeginOperation(h) \/ FinishOperation(h) \/ DropHandle(h)
    \/ AddResource
    \/ RemoveResource
    \/ Drain
    \/ PollBusy
    \/ PollQuiet
    \/ Deadline
    \/ CleanupDone
    \/ Stopped
    \/ ProbeSucceeds
    \/ ProbeFails
    \/ Retry
    \/ Tick
    \/ Exited

Spec == Init /\ [][Next]_vars

(* The event loop runs the timers that are due and time goes on; nothing is assumed *)
(* of operations, resources, the cleanup or the probes.                         *)
FairSpec ==
    /\ Spec
    /\ WF_vars(Tick)
    /\ WF_vars(PollBusy \/ PollQuiet)
    /\ WF_vars(Deadline)
    /\ WF_vars(Stopped)
    /\ WF_vars(Retry)

-----------------------------------------------------------------------------
Running == {h \in Handles : handle[h] = "running"}

(* The types, and with them the range each counter keeps to;                 *)
(* pendingOperations is the number of operations begun and not yet finished, *)
(* although finish is called twice for every HTTP response.                  *)
TypeOK ==
    /\ isDraining \in BOOLEAN
    /\ isStopping \in BOOLEAN
    /\ forced \in BOOLEAN
    /\ pendingOperations = Cardinality(Running)
    /\ handle \in [Handles -> {"free", "running", "finished", "closed"}]
    /\ resources \in 0..MaxResources
    /\ pollIn \in {Off} \union 0..PollInterval
    /\ deadlineIn \in {Off} \union 0..MaxWait
    /\ cleanup \in {"none", "running", "done"}
    /\ cleanupIn \in {Off} \union 0..CleanupTimeout
    /\ startup \in {"probing", "waiting", "connected", "failed"}
    /\ retryIn \in {Off} \union 0..LastRetry
    /\ retryDelayMs \in FirstRetry..LastRetry
    /\ exitCode \in {NoCode, 0, 1}
    /\ waited \in Nat

(* A stop that was not forced by the deadline interrupts nobody: there was no *)
(* operation and no resource, and none appears while the cleanup runs.        *)
QuietStopInterruptsNothing ==
    isStopping /\ ~forced => Running = {} /\ resources = 0

(* Whatever requests, resources, signals and peers do, the process is gone     *)
(* SHUTDOWN_MAX_WAIT_MS + SHUTDOWN_CLEANUP_TIMEOUT_MS after the first request  *)
(* to drain: repeated requests keep the original deadline.                     *)
ExitWithinBudget == Alive => waited <= MaxWait + CleanupTimeout

(* Once draining, the process ends, even if no operation ever finishes, no     *)
(* resource is released and the cleanup hangs.                                 *)
DrainEnds == isDraining ~> ~Alive

=============================================================================
