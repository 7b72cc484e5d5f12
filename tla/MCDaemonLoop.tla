---------------------------- MODULE MCDaemonLoop ----------------------------
(* The trigger loop on one path and the trigger without one; the cfg gives a  *)
(* one-tick debounce and a back-off of one to three ticks.                  *)
EXTENDS DaemonLoop

CONSTANT p1
=============================================================================
