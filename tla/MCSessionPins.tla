---------------------------- MODULE MCSessionPins ----------------------------
(* Symmetry for MediaSessions and SessionPins. *)
EXTENDS SessionPins, TLC

Symmetry == Permutations(Sessions) \union Permutations(Endpoints)
                \union Permutations(Calls) \union Permutations(Backends)
=============================================================================
