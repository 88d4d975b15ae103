----------------------------- MODULE MCRecordings -----------------------------
(* Model checking Recordings: two requests, two backends that list two files  *)
(* at a time and share one agent slot, and paths that the gateway owns, does  *)
(* not own, leads out with, spells with escapes and cannot decode.            *)
EXTENDS Recordings

CONSTANTS b1, b2

File(name) == Append(Root, name)

Own     == <<"sg", "a">>
Other   == <<"a">>
Broken  == <<"sg", "%">>
Escaped == <<"%sg", "a">>
Outside == <<"%2e", ".", "/", "sg", "a">>

MCBackendOrder == <<b1, b2>>
MCFileOrder    == <<File(Other), File(Own), File(<<"sg", ".">>), File(Broken)>>
MCPathPrefixes == {<<>>, <<"sg">>}
MCStartPaths   == {<<"sg", ".", "/", ".", ".", "/", "sg", "a">>, <<".", ".", "/", "sg", "a">>, Broken}
MCStoredAtFirst == {[b \in Backends |-> IF b = b1 THEN Files \ {File(Broken)} ELSE {File(Own)}],
                    [b \in Backends |-> IF b = b1 THEN {File(Broken)} ELSE {File(Other)}]}

Of(op, backend, path) == [op |-> op, targets |-> <<[backend |-> backend, path |-> path]>>, startsWith |-> <<>>]

MCJobs ==
    {[op |-> "list", targets |-> <<>>, startsWith |-> f] : f \in {<<>>, <<"a">>}}
    \union {Of("download", b1, Own), Of("download", b2, Outside), Of("download", b2, Broken), Of("delete", b1, Own)}
    \union {[op |-> "merge", startsWith |-> <<>>,
              targets |-> <<[backend |-> b1, path |-> Own], [backend |-> b2, path |-> Escaped]>>]}

Symmetry == Permutations(Tasks)
=============================================================================
