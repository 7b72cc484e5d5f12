------------------------------ MODULE OwedWork ------------------------------
(***************************************************************************)
(* What the engine's trigger loop promises, without saying how: an         *)
(* accepted trigger is owed a pipeline attempt until an attempt that       *)
(* carries it begins; attempts never overlap; an attempt either happened   *)
(* (its triggers are settled, even if it failed) or was deferred (they are *)
(* all owed again).  Nothing is dropped while the engine is up.            *)
(***************************************************************************)
CONSTANT Item          \* the kinds of trigger the sources can raise

VARIABLES owed,        \* triggers accepted and not yet carried by an attempt
          busy,        \* the triggers the attempt in progress carries
          result,      \* of the last attempt: "ran", or "deferred"
          up           \* FALSE from the start of the shutdown clean-up

vars == <<owed, busy, result, up>>

TypeOK == /\ owed \subseteq Item
          /\ busy \subseteq Item
          /\ result \in {"ran", "deferred"} /\ up \in BOOLEAN

Init == owed \subseteq Item /\ busy = {} /\ result = "ran" /\ up = TRUE

Accept(i) == /\ up
             /\ owed' = owed \union {i}
             /\ UNCHANGED <<busy, result, up>>

\* An attempt takes over some of the owed triggers; one of them that was raised
\* again meanwhile may stay owed.
Begin == /\ up /\ busy = {}
         /\ \E S \in SUBSET owed :
              /\ S # {}
              /\ busy' = S
              /\ \E again \in SUBSET S : owed' = (owed \ S) \union again
         /\ UNCHANGED <<result, up>>

\* The attempt was made: whatever its result, it is not repeated.
Settle == /\ up /\ busy # {}
          /\ busy' = {}
          /\ result' = "ran"
          /\ UNCHANGED <<owed, up>>

\* Someone else holds the compile lock: nothing ran, everything is owed again.
PutBack == /\ up /\ busy # {}
           /\ owed' = owed \union busy
           /\ busy' = {}
           /\ result' = "deferred"
           /\ UNCHANGED up

\* The process leaves; what it still owed is gone with it.
Leave == /\ up
         /\ up' = FALSE
         /\ owed' = {} /\ busy' = {}
         /\ result' \in {"ran", "deferred"}

Next == (\E i \in Item : Accept(i)) \/ Begin \/ Settle \/ PutBack \/ Leave

Spec == Init /\ [][Next]_vars
=============================================================================
