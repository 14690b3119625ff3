------------------------------ MODULE Addresses ------------------------------
(* The unicast addresses the gateway hands out to sensors: shared by the   *)
(* mesh stack, which assigns them, and the berth table, which is keyed on  *)
(* them.  Address 0 is not one of them.                                    *)
CONSTANT Addrs
=============================================================================
