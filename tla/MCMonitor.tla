----------------------------- MODULE MCMonitor -----------------------------
(* Small instances of Monitor for TLC. *)
EXTENDS Monitor, TLC

CONSTANTS a, b, x    \* names

OldFile == [val |-> 0, stat |-> 0]
EmptyRoot == {[n \in {a, b, x} |-> Absent]}
OneFile == {[n \in {a, b, x} |-> IF n = a THEN OldFile ELSE Absent]}
=============================================================================
