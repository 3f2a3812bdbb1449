--------------------------- MODULE MCTelemetryState ---------------------------
(* TelemetryState with two processes. *)
EXTENDS TelemetryState, TLC

CONSTANTS p1, p2

MCProcs == {p1, p2}
MCOutside == {"garbage", "absent", "malformed", "newer"}
Symmetry == Permutations(MCProcs)
================================================================================
