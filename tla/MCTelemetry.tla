----------------------------- MODULE MCTelemetry ------------------------------
(* Telemetry with two gates: a boat at 300 cm, a report without gates, and *)
(* one whose gates have the bytes of a header.                             *)
EXTENDS Telemetry

Boat == [state |-> 2, distance |-> 300, gates |-> <<258, 7>>]
NoTarget == [state |-> 0, distance |-> 0, gates |-> <<0, 0>>]
Spelled == [state |-> 1, distance |-> 1120, gates |-> <<62452, 61938>>]

MCReports == {Boat, NoTarget, Spelled}
MCBare == {NoTarget}
=============================================================================
