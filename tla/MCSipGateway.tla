---------------------------- MODULE MCSipGateway ----------------------------
(* Values for the constants of SipGateway. *)
EXTENDS SipGateway, TLC

(* Call ids are numbers; base b tries b, b+1, b+2.  The candidate lists of    *)
(* bases 1 and 2 overlap, as those of the Call-IDs "x" and "x-2" do.           *)
MCCandidates == [b \in Bases |-> <<b, b + 1, b + 2>>]

Symmetry == Permutations(Legs) \union Permutations(Conns) \union Permutations(Requests)
=============================================================================
