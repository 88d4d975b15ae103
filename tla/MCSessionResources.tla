-------------------------- MODULE MCSessionResources --------------------------
(* Model checking SessionResources; TLC takes the values from the cfg. *)
EXTENDS SessionResources, TLC
=============================================================================
