------------------------------- MODULE MCUplink -------------------------------
(* Uplink with two sensors: s1 carries the index of a berth the backend    *)
(* assigns, s2 carries none.                                               *)
EXTENDS Uplink, TLC

CONSTANTS s1, s2, b1, b2, n1

MCFallbackOf == s1 :> b1 @@ s2 :> None
SwapsAsked == {[berth |-> b1, node |-> n1], [berth |-> b2, node |-> NoNode]}
AllAsked == SwapsAsked \cup {NoEntry}

Symmetric == Permutations(Addrs)
=============================================================================
