---------------------------- MODULE MCTimestamps ----------------------------
(* A small instance of Timestamps for TLC.                                  *)
EXTENDS Timestamps

CONSTANTS s1, s2, p1, p2

TwoProcesses == [s \in Sessions |-> IF s = s1 THEN p1 ELSE p2]
=============================================================================
