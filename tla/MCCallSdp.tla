------------------------------ MODULE MCCallSdp ------------------------------
(* Values for the constants of CallSdp. *)
EXTENDS CallSdp, TLC

(* Call ids are numbers; base b tries b, b+1, b+2, and the lists overlap. *)
MCCandidates == [b \in Bases |-> <<b, b + 1, b + 2>>]
=============================================================================
