----------------------------- MODULE CallPromise -----------------------------
(***************************************************************************)
(* What the gateway promises about calls, without registry, ids, dialogs or *)
(* owners.  A call is admitted only while the gateway accepts, becomes      *)
(* active at most once, never after it was withdrawn (cancelled, or its     *)
(* owner left) nor after the gateway stopped, and once over stays over.     *)
(***************************************************************************)
CONSTANT Legs

VARIABLES
    mode,       \* what the gateway still does for new and pending calls
    stage,      \* the life of every call
    withdrawn   \* attempts that must not become active any more

vars == <<mode, stage, withdrawn>>

Init ==
    /\ mode = "Accepting"
    /\ stage = [l \in Legs |-> "None"]
    /\ withdrawn = {}

Admit(l) ==
    /\ mode = "Accepting"
    /\ stage[l] = "None"
    /\ stage' = [stage EXCEPT ![l] = "Setup"]
    /\ UNCHANGED <<mode, withdrawn>>

(* Refused, rejected, failed or cancelled before it was active. *)
Abandon(l) ==
    /\ stage[l] \in {"None", "Setup"}
    /\ stage' = [stage EXCEPT ![l] = "Over"]
    /\ UNCHANGED <<mode, withdrawn>>

Activate(l) ==
    /\ mode \in {"Accepting", "Draining"}
    /\ stage[l] = "Setup"
    /\ l \notin withdrawn
    /\ stage' = [stage EXCEPT ![l] = "Active"]
    /\ UNCHANGED <<mode, withdrawn>>

(* A set of active calls ends and a set of pending ones is withdrawn, at    *)
(* once: one hang-up, one cancel, or everything an owner leaves behind.     *)
Release(ended, cancelled) ==
    /\ \A l \in ended : stage[l] = "Active"
    /\ \A l \in cancelled : stage[l] # "Active"
    /\ stage' = [l \in Legs |-> IF l \in ended THEN "Over" ELSE stage[l]]
    /\ withdrawn' = withdrawn \union cancelled
    /\ UNCHANGED mode

Drain ==
    /\ mode = "Accepting"
    /\ mode' = "Draining"
    /\ UNCHANGED <<stage, withdrawn>>

(* Stopping withdraws attempts that are still pending; calls end later. *)
Stop(cancelled) ==
    /\ mode = "Draining"
    /\ mode' = "Stopped"
    /\ \A l \in cancelled : stage[l] # "Active"
    /\ withdrawn' = withdrawn \union cancelled
    /\ UNCHANGED stage

Next ==
    \/ \E l \in Legs : Admit(l) \/ Abandon(l) \/ Activate(l)
    \/ \E ended, cancelled \in SUBSET Legs : Release(ended, cancelled)
    \/ Drain
    \/ \E cancelled \in SUBSET Legs : Stop(cancelled)

Spec == Init /\ [][Next]_vars
=============================================================================
