---------------------------- MODULE BriefBackoff ----------------------------
(***************************************************************************)
(* Which charter domains one consolidation tick briefs (engine/daemon.py,  *)
(* _brief_once): cold domains in a fixed rank, a budget of LLM calls per   *)
(* tick, and a back-off of 2, 4, 8, ... ticks for a domain that keeps      *)
(* failing.  Domains are numbered by their rank.                           *)
(***************************************************************************)
EXTENDS Naturals, FiniteSets

CONSTANTS Domains,    \* how many live domains there are
          FailingSets, \* which of them may be those whose brief can never be made
          Budget,     \* brief_budget
          MaxBackoff, \* _BRIEF_MAX_BACKOFF_TICKS
          MaxAbandon, \* bound: how often a pipeline run interrupts a tick
          MaxCool     \* bound: how often a warm brief goes out of date

Domain == 1..Domains

ASSUME BriefAssumption ==
  /\ Domains \in Nat /\ FailingSets \subseteq SUBSET Domain
  /\ Budget \in Nat \ {0} /\ MaxBackoff \in Nat \ {0}
  /\ MaxAbandon \in Nat /\ MaxCool \in Nat

VARIABLES
  failing,   \* the domains whose brief can never be made
  warm,      \* the domains with a digest-valid brief
  delay,     \* of each domain: the back-off its last failure earned, 0 if none
  wait,      \* of each domain: _brief_retry_at minus the tick, 0 if it is past
  todo,      \* the candidates the tick has not come to
  attempted, \* the LLM calls of the tick
  abandons, cools

vars == <<failing, warm, delay, wait, todo, attempted, abandons, cools>>

TypeOK ==
  /\ failing \in FailingSets
  /\ warm \subseteq Domain \ failing
  /\ delay \in [Domain -> 0..MaxBackoff]
  /\ wait \in [Domain -> 0..MaxBackoff]
  /\ todo \subseteq Domain
  /\ attempted \in 0..Budget
  /\ abandons \in 0..MaxAbandon /\ cools \in 0..MaxCool

Init ==
  /\ failing \in FailingSets
  /\ warm = {}
  /\ delay = [d \in Domain |-> 0]
  /\ wait = [d \in Domain |-> 0]
  /\ todo = {} /\ attempted = 0
  /\ abandons = 0 /\ cools = 0

----------------------------------------------------------------------------
\* A tick that is at work on d: d is next in rank and there is budget.
At(d) == d \in todo /\ attempted < Budget /\ \A e \in todo : d <= e

\* A new tick: every back-off is one tick shorter, and those that are over are
\* candidates.
TickStarts ==
  /\ todo = {}
  /\ LET now == [d \in Domain |-> IF wait[d] > 0 THEN wait[d] - 1 ELSE 0]
     IN /\ wait' = now
        /\ todo' = {d \in Domain : now[d] = 0}
  /\ attempted' = 0
  /\ UNCHANGED <<failing, warm, delay, abandons, cools>>

\* Mutant: a failure is not held off.
NoDelay(old) == 0

\* 2^strikes ticks, capped.
Longer(old) ==
  LET doubled == IF old = 0 THEN 2 ELSE 2 * old
  IN IF doubled < MaxBackoff THEN doubled ELSE MaxBackoff

\* A warm brief costs nothing and clears the strikes.
ReadsWarm(d) ==
  /\ At(d) /\ d \in warm
  /\ todo' = todo \ {d}
  /\ delay' = [delay EXCEPT ![d] = 0]
  /\ wait' = [wait EXCEPT ![d] = 0]
  /\ UNCHANGED <<failing, warm, attempted, abandons, cools>>

Succeeds(d) ==
  /\ At(d) /\ d \notin warm \union failing
  /\ attempted' = attempted + 1
  /\ warm' = warm \union {d}
  /\ todo' = todo \ {d}
  /\ delay' = [delay EXCEPT ![d] = 0]
  /\ wait' = [wait EXCEPT ![d] = 0]
  /\ UNCHANGED <<failing, abandons, cools>>

\* A call that was spent in vain: also on a domain that would succeed some day.
Fails(d) ==
  /\ At(d) /\ d \notin warm
  /\ attempted' = attempted + 1
  /\ todo' = todo \ {d}
  /\ delay' = [delay EXCEPT ![d] = Longer(@)]
  /\ wait' = [wait EXCEPT ![d] = delay'[d]]
  /\ UNCHANGED <<failing, warm, abandons, cools>>

\* The budget is spent.
BudgetEnds ==
  /\ todo # {} /\ attempted >= Budget
  /\ todo' = {}
  /\ UNCHANGED <<failing, warm, delay, wait, attempted, abandons, cools>>

\* A pipeline run waits for the gate: nothing was tried, nobody gets a strike.
Abandon ==
  /\ todo # {} /\ attempted < Budget /\ abandons < MaxAbandon
  /\ todo' = {}
  /\ abandons' = abandons + 1
  /\ UNCHANGED <<failing, warm, delay, wait, attempted, cools>>

\* The members of a domain change between two ticks: its brief is out of date.
Cools(d) ==
  /\ todo = {} /\ d \in warm /\ cools < MaxCool
  /\ warm' = warm \ {d}
  /\ cools' = cools + 1
  /\ UNCHANGED <<failing, delay, wait, todo, attempted, abandons>>

Brief(d) == ReadsWarm(d) \/ Succeeds(d) \/ Fails(d)

Next ==
  \/ TickStarts \/ BudgetEnds \/ Abandon
  \/ \E d \in Domain : Brief(d) \/ Cools(d)

\* Ticks keep coming and come to an end; a brief that can be made is made if it
\* is tried again and again.
Fairness ==
  /\ WF_vars(TickStarts) /\ WF_vars(BudgetEnds)
  /\ WF_vars(\E d \in Domain : Brief(d))
  /\ \A d \in Domain : SF_vars(Succeeds(d))

Spec == Init /\ [][Next]_vars /\ Fairness

----------------------------------------------------------------------------
(* Properties *)

\* Those before d in the rank that fail for ever: each takes one call of Budget
\* in MaxBackoff ticks, for good.
Ahead(d) == {e \in failing : e < d}

\* The back-off keeps the failing from starving the others: a domain whose brief
\* can be made gets one, as long as those ahead of it that fail for ever are fewer
\* than the calls of MaxBackoff ticks.  From that number on it may never get one,
\* where the docstring (line 1616) has the pass make progress whatever fails.
WarmableIsWarmed ==
  \A d \in Domain :
    d \notin warm \union failing /\ Cardinality(Ahead(d)) < Budget * MaxBackoff ~> d \in warm
=============================================================================
