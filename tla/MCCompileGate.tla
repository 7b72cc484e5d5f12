--------------------------- MODULE MCCompileGate ---------------------------
(* One engine with a gate of its own, or a fleet's gate and one of its units. *)
EXTENDS CompileGate

CONSTANT u1

MCEngine == {u1}
=============================================================================
