--------------------------- MODULE MCEndpointCatalog ---------------------------
(* Three sessions, two backends and four catalogue files. *)
EXTENDS EndpointCatalog, TLC

CONSTANTS b1, b2, both, second, stale, broken

(* Files that admit both backends for a while, one for longer, both until just *)
(* after the start, and one that does not parse.                               *)
MCCatalogs ==
    (both   :> [parses |-> TRUE, validUntil |-> 2, accepting |-> {b1, b2}]) @@
    (second :> [parses |-> TRUE, validUntil |-> 3, accepting |-> {b2}]) @@
    (stale  :> [parses |-> TRUE, validUntil |-> 1, accepting |-> {b1}]) @@
    (broken :> [parses |-> FALSE, validUntil |-> 3, accepting |-> {b1, b2}])

Symmetry == Permutations(Users)
=============================================================================
