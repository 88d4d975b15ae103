------------------------ MODULE GatewayLifecycleProofs ------------------------
(***************************************************************************)
(* The drain budget, and that a quiet stop interrupts nobody, for any      *)
(* delays, operations and resources.  The budget is an account: while the  *)
(* gateway drains, the time that has passed and the time the deadline has  *)
(* left add up to MaxWait, and once it stops the cleanup timer takes over. *)
(***************************************************************************)
EXTENDS GatewayLifecycle, FiniteSetTheorems, TLAPS

(* What the timers have left of the budget. *)
Account ==
    /\ ~isDraining => waited = 0 /\ ~isStopping /\ pollIn = Off /\ deadlineIn = Off
    /\ isDraining /\ ~isStopping => deadlineIn # Off /\ waited + deadlineIn = MaxWait
    /\ isStopping => /\ deadlineIn = Off /\ pollIn = Off
                     /\ cleanupIn # Off
                     /\ waited + cleanupIn <= MaxWait + CleanupTimeout
    /\ ~isStopping => cleanupIn = Off

(* The inductive invariant. *)
IInv == TypeOK /\ Account /\ QuietStopInterruptsNothing

(* The constants as the provers need them. *)
LEMMA Delays ==
    /\ MaxWait \in Nat /\ MaxWait > 0
    /\ PollInterval \in Nat /\ PollInterval > 0
    /\ CleanupTimeout \in Nat /\ CleanupTimeout > 0
    /\ FirstRetry \in Nat /\ FirstRetry > 0
    /\ LastRetry \in Nat /\ FirstRetry <= LastRetry
  BY LifecycleAssumption

-----------------------------------------------------------------------------
(* The count of the operations that run. *)

LEMMA RunningIsFinite == IsFiniteSet(Running) /\ Cardinality(Running) \in Nat
  BY LifecycleAssumption, FS_Subset, FS_CardinalityType DEF Running

LEMMA QuietMeansIdle == TypeOK /\ IsQuiet => Running = {}
  BY RunningIsFinite, FS_EmptySet DEF TypeOK, IsQuiet

(* A closure that is handed out counts one more. *)
LEMMA BeginCounts ==
  ASSUME TypeOK, NEW h \in Handles, BeginOperation(h)
  PROVE  pendingOperations' = Cardinality(Running')
  <1>1. h \notin Running /\ Running' = Running \union {h}
    BY DEF TypeOK, BeginOperation, Running
  <1>2. Cardinality(Running \union {h}) = Cardinality(Running) + 1
    BY <1>1, RunningIsFinite, FS_AddElement
  <1> QED
    BY <1>1, <1>2 DEF TypeOK, BeginOperation

(* A closure that is called counts once, however often it is called. *)
LEMMA FinishCounts ==
  ASSUME TypeOK, NEW h \in Handles, FinishOperation(h)
  PROVE  pendingOperations' = Cardinality(Running') /\ Running' = Running \ {h}
  <1>1. Running' = Running \ {h}
    BY DEF TypeOK, FinishOperation, Running
  <1>2. CASE h \in Running
    <2>1. Cardinality(Running \ {h}) = Cardinality(Running) - 1
      BY <1>2, RunningIsFinite, FS_RemoveElement
    <2>2. pendingOperations' = pendingOperations - 1
      BY <1>2 DEF FinishOperation, Finish, Running
    <2> QED
      BY <1>1, <2>1, <2>2 DEF TypeOK
  <1>3. CASE h \notin Running
    <2>1. Running \ {h} = Running
      BY <1>3
    <2>2. pendingOperations' = pendingOperations
      BY <1>3 DEF FinishOperation, Finish, Running
    <2> QED
      BY <1>1, <2>1, <2>2 DEF TypeOK
  <1> QED
    BY <1>1, <1>2, <1>3

-----------------------------------------------------------------------------
LEMMA InitInv == Init => IInv
  <1> SUFFICES ASSUME Init PROVE IInv
    OBVIOUS
  <1>1. Running = {}
    BY DEF Init, Running
  <1>2. pendingOperations = Cardinality(Running)
    BY <1>1, FS_EmptySet DEF Init
  <1>3. TypeOK
    <2>1. resources \in 0..MaxResources /\ retryDelayMs \in FirstRetry..LastRetry
      BY LifecycleAssumption, Delays DEF Init
    <2>2. /\ pollIn \in {Off} \union 0..PollInterval
          /\ deadlineIn \in {Off} \union 0..MaxWait
          /\ cleanupIn \in {Off} \union 0..CleanupTimeout
          /\ retryIn \in {Off} \union 0..LastRetry
      BY DEF Init
    <2> QED
      BY <1>2, <2>1, <2>2 DEF Init, TypeOK
  <1>4. Account /\ QuietStopInterruptsNothing
    BY DEF Init, Account, QuietStopInterruptsNothing
  <1> QED
    BY <1>3, <1>4 DEF IInv

(* What stop() leaves, for either argument. *)
StopResult ==
    /\ ~isStopping /\ isStopping' = TRUE
    /\ forced' \in BOOLEAN
    /\ ~forced' => Running = {} /\ resources = 0
    /\ pollIn' = Off /\ deadlineIn' = Off
    /\ cleanup' = "running" /\ cleanupIn' = CleanupTimeout
    /\ UNCHANGED <<isDraining, workVars, exitCode, startupVars, waited>>

(* stop(): the deadline gives way to the cleanup timer within the budget. *)
LEMMA StopStep ==
  ASSUME IInv, isDraining,
         (Stop(FALSE) /\ IsQuiet) \/ Stop(TRUE)
  PROVE  IInv'
  <1>1. ASSUME Stop(FALSE), IsQuiet PROVE StopResult
    <2>1. forced' = FALSE /\ Running = {} /\ resources = 0
      BY <1>1, QuietMeansIdle DEF IInv, Stop, IsQuiet
    <2> QED
      BY <1>1, <2>1 DEF StopResult, Stop
  <1>2. ASSUME Stop(TRUE) PROVE StopResult
    BY <1>2 DEF StopResult, Stop
  <1>3. StopResult
    BY <1>1, <1>2
  <1>4. Running' = Running
    BY <1>3 DEF StopResult, workVars, Running
  <1>5. TypeOK'
    <2>1. cleanupIn' \in {Off} \union 0..CleanupTimeout
      BY <1>3, Delays DEF StopResult
    <2> QED
      BY <1>3, <1>4, <2>1 DEF StopResult, IInv, TypeOK, workVars, startupVars
  <1>6. Account'
    <2>1. waited <= MaxWait
      BY <1>3, Delays DEF StopResult, IInv, TypeOK, Account, Off
    <2> QED
      BY <1>3, <2>1, Delays DEF StopResult, IInv, TypeOK, Account, Off
  <1>7. QuietStopInterruptsNothing'
    BY <1>3, <1>4 DEF StopResult, QuietStopInterruptsNothing, workVars
  <1> QED
    BY <1>5, <1>6, <1>7 DEF IInv

(* The handlers that touch no timer of the drain. *)
LEMMA WorkStep ==
  ASSUME IInv, UNCHANGED <<drainVars, cleanupVars, startupVars, waited>>,
         pendingOperations' = Cardinality(Running'),
         handle' \in [Handles -> {"free", "running", "finished", "closed"}],
         resources' \in 0..MaxResources,
         isStopping => Running' \subseteq Running /\ resources' <= resources
  PROVE  IInv'
  <1>1. TypeOK'
    BY DEF IInv, TypeOK, drainVars, cleanupVars, startupVars
  <1>2. Account'
    BY DEF IInv, Account, drainVars, cleanupVars
  <1>3. QuietStopInterruptsNothing'
    BY DEF IInv, TypeOK, QuietStopInterruptsNothing, drainVars
  <1> QED
    BY <1>1, <1>2, <1>3 DEF IInv

(* The start-up loop, and the end of the process, touch none either. *)
LEMMA StartupStep ==
  ASSUME IInv, UNCHANGED <<drainVars, workVars, cleanupIn, waited>>,
         cleanup' \in {"none", "running", "done"},
         startup' \in {"probing", "waiting", "connected", "failed"},
         retryIn' \in {Off} \union 0..LastRetry,
         retryDelayMs' \in FirstRetry..LastRetry,
         exitCode' \in {NoCode, 0, 1}
  PROVE  IInv'
  <1>1. Running' = Running
    BY DEF workVars, Running
  <1>2. TypeOK'
    BY <1>1 DEF IInv, TypeOK, drainVars, workVars
  <1>3. Account'
    BY DEF IInv, Account, drainVars
  <1>4. QuietStopInterruptsNothing'
    BY <1>1 DEF IInv, QuietStopInterruptsNothing, drainVars, workVars
  <1> QED
    BY <1>2, <1>3, <1>4 DEF IInv

(* Time passes: what `waited` gains the deadline, or the cleanup timer, loses. *)
LEMMA TickStep ==
  ASSUME IInv, Tick
  PROVE  IInv'
  <1>1. Running' = Running
    BY DEF Tick, workVars, Running
  <1>2. /\ \A n \in Nat : \A t \in {Off} \union 0..n : t # 0 => Less(t) \in {Off} \union 0..n
        /\ Less(Off) = Off
        /\ \A n \in Nat : \A t \in 0..n : Less(t) = t - 1
    BY DEF Less, Off
  <1>3. pollIn # 0 /\ deadlineIn # 0 /\ cleanupIn # 0 /\ retryIn # 0
    BY DEF Tick, Timers
  <1>4. TypeOK'
    <2>1. /\ pollIn' \in {Off} \union 0..PollInterval
          /\ deadlineIn' \in {Off} \union 0..MaxWait
          /\ cleanupIn' \in {Off} \union 0..CleanupTimeout
          /\ retryIn' \in {Off} \union 0..LastRetry
      BY <1>2, <1>3, Delays DEF Tick, IInv, TypeOK
    <2>2. waited' \in Nat
      BY DEF Tick, IInv, TypeOK
    <2> QED
      BY <1>1, <2>1, <2>2 DEF Tick, IInv, TypeOK, workVars
  <1>5. Account'
    <2>1. CASE ~isDraining
      BY <2>1, <1>2 DEF Tick, IInv, Account
    <2>2. CASE isDraining /\ ~isStopping
      <3>1. deadlineIn \in 0..MaxWait /\ deadlineIn' = deadlineIn - 1 /\ cleanupIn' = Off
        BY <2>2, <1>2, Delays DEF Tick, IInv, TypeOK, Account
      <3> QED
        BY <2>2, <1>3, <3>1, Delays DEF Tick, IInv, TypeOK, Account, Off
    <2>3. CASE isDraining /\ isStopping
      <3>1. /\ cleanupIn \in 0..CleanupTimeout /\ cleanupIn' = cleanupIn - 1
            /\ deadlineIn' = Off /\ pollIn' = Off
        BY <2>3, <1>2, Delays DEF Tick, IInv, TypeOK, Account
      <3> QED
        BY <2>3, <1>3, <3>1, Delays DEF Tick, IInv, TypeOK, Account, Off
    <2> QED
      BY <2>1, <2>2, <2>3
  <1>6. QuietStopInterruptsNothing'
    BY <1>1 DEF Tick, IInv, QuietStopInterruptsNothing, workVars
  <1> QED
    BY <1>4, <1>5, <1>6 DEF IInv

-----------------------------------------------------------------------------
LEMMA StepInv == IInv /\ [Next]_vars => IInv'
  <1> SUFFICES ASSUME IInv, [Next]_vars PROVE IInv'
    OBVIOUS
  <1>1. ASSUME NEW h \in Handles, BeginOperation(h)
        PROVE  IInv'
    BY <1>1, BeginCounts, WorkStep DEF BeginOperation, AssertRunning, IInv, TypeOK
  <1>2. ASSUME NEW h \in Handles, FinishOperation(h)
        PROVE  IInv'
    <2>1. pendingOperations' = Cardinality(Running') /\ Running' = Running \ {h}
      BY <1>2, FinishCounts DEF IInv
    <2> QED
      BY <1>2, <2>1, WorkStep DEF FinishOperation, IInv, TypeOK
  <1>3. ASSUME NEW h \in Handles, DropHandle(h)
        PROVE  IInv'
    <2>1. Running' = Running
      BY <1>3 DEF DropHandle, Running, IInv, TypeOK
    <2> QED
      BY <1>3, <2>1, WorkStep DEF DropHandle, IInv, TypeOK
  <1>4. CASE AddResource \/ RemoveResource
    <2>1. Running' = Running
      BY <1>4 DEF AddResource, RemoveResource, Running
    <2>2. resources' \in 0..MaxResources /\ (isStopping => resources' <= resources)
      BY <1>4, LifecycleAssumption
      DEF AddResource, RemoveResource, AssertRunning, IInv, TypeOK
    <2> QED
      BY <1>4, <2>1, <2>2, WorkStep DEF AddResource, RemoveResource, IInv, TypeOK
  <1>5. CASE Drain \/ PollBusy
    <2>1. Running' = Running
      BY <1>5 DEF Drain, PollBusy, workVars, Running
    <2>2. TypeOK'
      <3>1. /\ pollIn' \in {Off} \union 0..PollInterval
            /\ deadlineIn' \in {Off} \union 0..MaxWait
        BY <1>5, Delays DEF Drain, PollBusy, IInv, TypeOK
      <3>2. isDraining' \in BOOLEAN /\ isStopping' \in BOOLEAN /\ forced' \in BOOLEAN
        BY <1>5 DEF Drain, PollBusy, IInv, TypeOK
      <3> QED
        BY <1>5, <2>1, <3>1, <3>2
        DEF Drain, PollBusy, workVars, cleanupVars, startupVars, IInv, TypeOK
    <2>3. Account'
      BY <1>5, Delays DEF Drain, StartsDrain, PollBusy, cleanupVars, IInv, TypeOK, Account, Off
    <2>4. QuietStopInterruptsNothing'
      BY <1>5, <2>1 DEF Drain, PollBusy, workVars, IInv, QuietStopInterruptsNothing
    <2> QED
      BY <2>2, <2>3, <2>4 DEF IInv
  <1>6. CASE PollQuiet
    <2>1. isDraining
      BY <1>6 DEF PollQuiet, IInv, Account, Off
    <2> QED
      BY <1>6, <2>1, StopStep DEF PollQuiet
  <1>7. CASE Deadline
    <2>1. isDraining
      BY <1>7 DEF Deadline, IInv, Account, Off
    <2> QED
      BY <1>7, <2>1, StopStep DEF Deadline
  <1>8. CASE CleanupDone \/ Stopped \/ ProbeSucceeds \/ ProbeFails
    <2>1. retryDelayMs \in 0..LastRetry
      BY Delays DEF IInv, TypeOK
    <2> QED
      BY <1>8, <2>1, StartupStep
      DEF CleanupDone, Stopped, ProbeSucceeds, ProbeFails, IInv, TypeOK, drainVars, workVars,
          cleanupVars, startupVars
  <1>9. CASE Retry
    <2>1. Doubled(retryDelayMs) \in FirstRetry..LastRetry
      BY Delays DEF Doubled, IInv, TypeOK
    <2> QED
      BY <1>9, <2>1, StartupStep DEF Retry, IInv, TypeOK, drainVars, workVars
  <1>10. CASE Tick
    BY <1>10, TickStep
  <1>11. CASE UNCHANGED vars
    <2>1. Running' = Running
      BY <1>11 DEF vars, workVars, Running
    <2>2. TypeOK'
      BY <1>11, <2>1 DEF vars, drainVars, workVars, cleanupVars, startupVars, IInv, TypeOK
    <2> QED
      BY <1>11, <2>1, <2>2 DEF vars, drainVars, workVars, cleanupVars, IInv, Account,
         QuietStopInterruptsNothing
  <1> QED
    BY <1>1, <1>2, <1>3, <1>4, <1>5, <1>6, <1>7, <1>8, <1>9, <1>10, <1>11 DEF Next, Exited

LEMMA Inductive == Spec => []IInv
  BY InitInv, StepInv, PTL DEF Spec

(* The process is gone MaxWait + CleanupTimeout after the first request to   *)
(* drain, for any delays, and whatever requests, peers and later signals do. *)
THEOREM ExitIsWithinBudget == Spec => []ExitWithinBudget
  <1>1. IInv => ExitWithinBudget
    BY Delays DEF IInv, TypeOK, Account, ExitWithinBudget, Off
  <1> QED
    BY <1>1, Inductive, PTL

(* A stop before the deadline interrupts no operation and no resource, for   *)
(* any number of them: none was there, and none begins any more.             *)
THEOREM QuietStops == Spec => []QuietStopInterruptsNothing
  <1>1. IInv => QuietStopInterruptsNothing
    BY DEF IInv
  <1> QED
    BY <1>1, Inductive, PTL

(* pendingOperations counts the operations that run, although finish is      *)
(* called more than once for each: the drain neither waits for ever nor      *)
(* stops too early because of a miscount.                                    *)
THEOREM OperationsAreCounted == Spec => [](pendingOperations = Cardinality(Running))
  <1>1. IInv => pendingOperations = Cardinality(Running)
    BY DEF IInv, TypeOK
  <1> QED
    BY <1>1, Inductive, PTL
=============================================================================
