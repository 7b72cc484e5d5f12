---------------------------- MODULE MCSessionTail ----------------------------
(* Rollouts of one day, for TLC. *)
EXTENDS SessionTail

CONSTANTS x, y

MCDir    == {"year", "month", "day"}
MCParent == [d \in {x, y} \union MCDir |->
               CASE d = "day" -> "month" [] d = "month" -> "year"
                 [] d = "year" -> "sessions" [] OTHER -> "day"]
Both     == {x, y}
Only     == {x}
None     == {}
NamedRow == {"named"}
Mixed    == {"named", "bare"}
OneLife  == [f \in File |-> 1]
TwoLives == [f \in File |-> IF f = x THEN 2 ELSE 1]
OneRow   == OneLife
TwoRows  == [f \in File |-> 2]
=============================================================================
