----------------------------- MODULE MCControlHub -----------------------------
(* Values for the constants of ControlHub: an exact route and a prefix that  *)
(* also matches its destination, and the lists an application registers.     *)
EXTENDS ControlHub, TLC

CONSTANTS exact, prefix, deskPhone, otherPhone

MCMatching == deskPhone :> {exact, prefix} @@ otherPhone :> {prefix}
MCRouteLists == {<<>>, <<exact>>, <<prefix>>, <<exact, prefix>>, <<exact, exact>>}
=============================================================================
