---------------------------- MODULE MCFleetUnits ----------------------------
(* Two names and two projects, for TLC. *)
EXTENDS FleetUnits

CONSTANTS a, b, r1, r2

MCName == {a, b}
MCRoot == {r1, r2}
At(x, y) == [n \in MCName |-> IF n = a THEN x ELSE y]
\* Both, exchanged, one moved, and one project under another name.
MCRegistries == {At(r1, r2), At(r2, r1), At(r2, NoRoot), At(NoRoot, r1)}
=============================================================================
