-------------------------- MODULE MCJournaledWrite --------------------------
(***************************************************************************)
(* Two writers and two contents: enough for a publish between another      *)
(* writer's read and its rename, and for a target that moves on and back.  *)
(***************************************************************************)
EXTENDS JournaledWrite, TLC

CONSTANTS w1, w2, a, b

MCWriter  == {w1, w2}
MCContent == {a, b}

ContentSymmetry == Permutations(MCContent)
=============================================================================
