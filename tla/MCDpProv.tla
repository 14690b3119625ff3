------------------------------- MODULE MCDpProv -------------------------------
(* DpProv with two slots for three addresses, so that the table fills up.  *)
EXTENDS DpProv, TLC

Symmetric == Permutations(Addrs) \cup Permutations(Berths)
=============================================================================
