--------------------------- MODULE MCBriefBackoff ---------------------------
(* Three domains that fail for ever, ahead of the others or among them, and  *)
(* four: Budget * MaxBackoff, which is what it takes to use up every tick.  *)
EXTENDS BriefBackoff

SomeFail == {{1, 2, 3}, {2, 4, 5}, {1, 2, 3, 4}}
=============================================================================
