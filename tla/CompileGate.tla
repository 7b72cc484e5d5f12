---------------------------- MODULE CompileGate ----------------------------
(***************************************************************************)
(* The compile gate of engine/daemon.py: a semaphore for the pipeline runs *)
(* of an engine and its sleep-cycle consolidation ticks.  A fleet gives all *)
(* its units one gate, of as many permits as --compile-slots says (one by  *)
(* default).  A tick spends LLM calls under the gate; a pipeline run that  *)
(* is blocked on it raises _pipeline_pending, and the tick abandons what is *)
(* left of its budget.  The engine's vault source takes no permit.         *)
(***************************************************************************)
EXTENDS Naturals, FiniteSets

CONSTANTS Unit,          \* the engines that share the gate; one, without a fleet
          Slots,         \* permits of the gate: compile_slots
          Budget,        \* LLM calls of one pre-warm operation (summarize_budget, brief_budget)
          DistillCalls   \* LLM calls of one distill pass; 0 when distill is off

ASSUME GateAssumption ==
  /\ Slots \in Nat \ {0}
  /\ Budget \in Nat /\ DistillCalls \in Nat

VARIABLES
  inside,  \* who has a permit: a unit's "run" or its "tick"
  run,     \* of each unit, where its pipeline run is
  pending, \* _pipeline_pending: "set" or "clear"
  tick,    \* where its consolidation tick is
  call,    \* its LLM call: "none", "decided" to make one, "inflight"
  left,    \* calls left in the budget of the operation the tick is in
  loaded,  \* graph.json as the tick loaded it: "none", "current"; since then another
           \* process has published ("foreign"), the engine's vault source
           \* ("overlaid"), or a pipeline run of the engine ("stale")
  active,  \* activity clock: "recent", or "idle" for consolidate_idle_seconds
  slept,   \* time since the last consolidation: "recent", "idle", "ceiling"
  waited   \* history: LLM calls a blocked pipeline run has waited for, up to 2

runVars  == <<run, pending>>
tickVars == <<tick, call, left, loaded>>
clocks   == <<active, slept>>
vars == <<inside, runVars, tickVars, clocks, waited>>

Warming == {"summarize", "brief"}
InPass  == {"load", "distill"} \union Warming

TypeOK ==
  /\ inside \subseteq Unit \X {"run", "tick"}
  /\ run \in [Unit -> {"none", "asked", "blocked", "owns", "runs", "raised", "leaves"}]
  /\ pending \in [Unit -> {"set", "clear"}]
  /\ tick \in [Unit -> {"sleeps", "due", "release", "stamp"} \union InPass]
  /\ call \in [Unit -> {"none", "decided", "inflight"}]
  /\ left \in [Unit -> 0..(Budget + DistillCalls)]
  /\ loaded \in [Unit -> {"none", "current", "foreign", "overlaid", "stale"}]
  /\ active \in [Unit -> {"recent", "idle"}]
  /\ slept \in [Unit -> {"recent", "idle", "ceiling"}]
  /\ waited \in [Unit -> 0..2]

Init ==
  /\ inside = {}
  /\ run = [u \in Unit |-> "none"]
  /\ pending = [u \in Unit |-> "clear"]
  /\ tick = [u \in Unit |-> "sleeps"]
  /\ call = [u \in Unit |-> "none"]
  /\ left = [u \in Unit |-> 0]
  /\ loaded = [u \in Unit |-> "none"]
  /\ active = [u \in Unit |-> "recent"]
  /\ slept = [u \in Unit |-> "recent"]
  /\ waited = [u \in Unit |-> 0]

----------------------------------------------------------------------------
(* _run_pipeline and _gate_for_pipeline *)

Step(var, u, from, to) == var[u] = from /\ var' = [var EXCEPT ![u] = to]

\* gate.acquire, once there is a permit; gate.release.
Enter(p) == Cardinality(inside) < Slots /\ inside' = inside \union {p}
Leave(p) == inside' = inside \ {p}

\* A trigger is activity, whatever becomes of it.
Trigger(u) ==
  /\ active' = [active EXCEPT ![u] = "recent"]
  /\ active' # active
  /\ UNCHANGED <<inside, runVars, tickVars, slept, waited>>

\* A pipeline run resets the idle clock, then raises the flag.
RunStarts(u) ==
  /\ Step(run, u, "none", "asked")
  /\ active' = [active EXCEPT ![u] = "recent"]
  /\ UNCHANGED <<inside, pending, tickVars, slept, waited>>

InFlight == \E t \in Unit : call[t] = "inflight"

RaiseFlag(u) ==
  /\ Step(run, u, "asked", "blocked")
  /\ pending' = [pending EXCEPT ![u] = "set"]
  /\ waited' = [waited EXCEPT ![u] = IF InFlight THEN 1 ELSE 0]
  /\ UNCHANGED <<inside, tickVars, clocks>>

RunAcquires(u) ==
  /\ Enter(<<u, "run">>)
  /\ Step(run, u, "blocked", "owns")
  /\ UNCHANGED <<pending, tickVars, clocks, waited>>

\* Mutant: the flag is only cleared on the way out.
ClearsLate(u) ==
  /\ Step(run, u, "owns", "runs")
  /\ UNCHANGED <<inside, pending, tickVars, clocks, waited>>

Clears(u) ==
  /\ Step(run, u, "owns", "runs")
  /\ pending' = [pending EXCEPT ![u] = "clear"]
  /\ UNCHANGED <<inside, tickVars, clocks, waited>>

Outdated(u) == IF loaded[u] = "none" THEN "none" ELSE "stale"

\* Mutant: a run that ends keeps the gate.
RunEndsHolding(u) ==
  /\ Step(run, u, "runs", "leaves")
  /\ UNCHANGED <<inside, pending, tickVars, clocks, waited>>

\* The run ends, whether it published a graph, was deferred by compile.lock or
\* failed; leaving the with-block releases the gate.
RunEnds(u) ==
  /\ Step(run, u, "runs", "leaves")
  /\ Leave(<<u, "run">>)
  /\ \E l \in {loaded[u], Outdated(u)} : loaded' = [loaded EXCEPT ![u] = l]
  /\ UNCHANGED <<pending, tick, call, left, clocks, waited>>

\* The second shutdown signal raises SystemExit while the run is blocked.
Interrupted(u) ==
  /\ Step(run, u, "blocked", "raised")
  /\ UNCHANGED <<inside, pending, tickVars, clocks, waited>>

\* The finally clears the flag again.
RunLeaves(u) ==
  /\ run[u] \in {"leaves", "raised"}
  /\ run' = [run EXCEPT ![u] = "none"]
  /\ pending' = [pending EXCEPT ![u] = "clear"]
  /\ UNCHANGED <<inside, tickVars, clocks, waited>>

----------------------------------------------------------------------------
(* _consolidation_tick and _consolidate_once *)

\* IDLE or CEILING, judged before the gate is asked for.
Due(u) ==
  /\ \/ active[u] = "idle" /\ slept[u] # "recent"
     \/ slept[u] = "ceiling"
  /\ Step(tick, u, "sleeps", "due")
  /\ UNCHANGED <<inside, runVars, call, left, loaded, clocks, waited>>

\* Mutant: the consolidation thread does not take the gate.
TickGoesOn(u) ==
  /\ Step(tick, u, "due", "load")
  /\ UNCHANGED <<inside, runVars, call, left, loaded, clocks, waited>>

TickAcquires(u) ==
  /\ Enter(<<u, "tick">>)
  /\ Step(tick, u, "due", "load")
  /\ UNCHANGED <<runVars, call, left, loaded, clocks, waited>>

\* The one graph every operation of the pass reads; or there is none yet.
Load(u) ==
  /\ \/ Step(tick, u, "load", "distill")
        /\ loaded' = [loaded EXCEPT ![u] = "current"]
        /\ left' = [left EXCEPT ![u] = DistillCalls]
     \/ Step(tick, u, "load", "release") /\ UNCHANGED <<loaded, left>>
  /\ UNCHANGED <<inside, runVars, call, clocks, waited>>

\* Distill makes its calls whatever is pending; so would the pre-warm loops
\* if they did not look.
DistillDecides(u) ==
  /\ tick[u] = "distill" /\ left[u] > 0
  /\ Step(call, u, "none", "decided")
  /\ UNCHANGED <<inside, runVars, tick, left, loaded, clocks, waited>>

\* Mutant: the loop does not look at the flag.
WarmDecidesBlindly(u) ==
  /\ tick[u] \in Warming /\ left[u] > 0
  /\ Step(call, u, "none", "decided")
  /\ UNCHANGED <<inside, runVars, tick, left, loaded, clocks, waited>>

\* The top of an iteration of _summarize_once or _brief_once, flag clear.
WarmDecides(u) ==
  /\ tick[u] \in Warming /\ left[u] > 0 /\ pending[u] = "clear"
  /\ Step(call, u, "none", "decided")
  /\ UNCHANGED <<inside, runVars, tick, left, loaded, clocks, waited>>

\* The call itself; every blocked pipeline run waits for it.
CallStarts(u) ==
  /\ Step(call, u, "decided", "inflight")
  /\ waited' = [v \in Unit |-> IF run[v] = "blocked" /\ waited[v] < 2
                               THEN waited[v] + 1 ELSE waited[v]]
  /\ UNCHANGED <<inside, runVars, tick, left, loaded, clocks>>

CallReturns(u) ==
  /\ Step(call, u, "inflight", "none")
  /\ left' = [left EXCEPT ![u] = @ - 1]
  /\ UNCHANGED <<inside, runVars, tick, loaded, clocks, waited>>

NextPhase(p) == CASE p = "distill"   -> "summarize"
                  [] p = "summarize" -> "brief"
                  [] p = "brief"     -> "release"

Advance(u) ==
  /\ tick' = [tick EXCEPT ![u] = NextPhase(@)]
  /\ left' = [left EXCEPT ![u] = IF tick[u] = "brief" THEN 0 ELSE Budget]

\* The flag is set at the top of an iteration: the rest of the budget is abandoned.
Abandon(u) ==
  /\ tick[u] \in Warming /\ call[u] = "none"
  /\ left[u] > 0 /\ pending[u] = "set"
  /\ Advance(u)
  /\ UNCHANGED <<inside, runVars, call, loaded, clocks, waited>>

\* The budget is spent, or nothing is left to warm or to distill.
PhaseEnds(u) ==
  /\ tick[u] \in {"distill"} \union Warming /\ call[u] = "none"
  /\ Advance(u)
  /\ UNCHANGED <<inside, runVars, call, loaded, clocks, waited>>

\* Distill raises; the other operations contain their failures.
DistillRaises(u) ==
  /\ tick[u] = "distill" /\ call[u] # "decided"
  /\ tick' = [tick EXCEPT ![u] = "release"]
  /\ call' = [call EXCEPT ![u] = "none"]
  /\ left' = [left EXCEPT ![u] = 0]
  /\ UNCHANGED <<inside, runVars, loaded, clocks, waited>>

\* Mutant: a pass that ends keeps the gate.
TickKeeps(u) ==
  /\ Step(tick, u, "release", "stamp")
  /\ loaded' = [loaded EXCEPT ![u] = "none"]
  /\ UNCHANGED <<inside, runVars, call, left, clocks, waited>>

TickReleases(u) ==
  /\ Step(tick, u, "release", "stamp")
  /\ Leave(<<u, "tick">>)
  /\ loaded' = [loaded EXCEPT ![u] = "none"]
  /\ UNCHANGED <<runVars, call, left, clocks, waited>>

\* The finally stamps _last_consolidation.
Stamp(u) ==
  /\ Step(tick, u, "stamp", "sleeps")
  /\ slept' = [slept EXCEPT ![u] = "recent"]
  /\ UNCHANGED <<inside, runVars, call, left, loaded, active, waited>>

----------------------------------------------------------------------------
(* Time, and what is outside the engines *)

\* consolidate_idle_seconds without activity.
IdleElapses(u) ==
  /\ active' = [active EXCEPT ![u] = "idle"]
  /\ slept' = [slept EXCEPT ![u] = IF @ = "recent" THEN "idle" ELSE @]
  /\ clocks' # clocks
  /\ UNCHANGED <<inside, runVars, tickVars, waited>>

\* consolidate_max_interval_seconds since the last consolidation, activity or not.
CeilingElapses(u) ==
  /\ slept[u] # "ceiling"
  /\ slept' = [slept EXCEPT ![u] = "ceiling"]
  /\ UNCHANGED <<inside, runVars, tickVars, active, waited>>

\* A compile in another process, which the gate does not hold up.
CliCompiles(u) ==
  /\ Step(loaded, u, "current", "foreign")
  /\ UNCHANGED <<inside, runVars, tick, call, left, clocks, waited>>

\* The vault source of the engine publishes the graph it overlaid, outside the gate.
VaultPublishes(u) ==
  /\ Step(loaded, u, "current", "overlaid")
  /\ UNCHANGED <<inside, runVars, tick, call, left, clocks, waited>>

----------------------------------------------------------------------------
Pipeline(u) ==
  \/ RunAcquires(u) \/ RaiseFlag(u) \/ Clears(u) \/ RunEnds(u) \/ RunLeaves(u)

Consolidation(u) ==
  \/ TickAcquires(u) \/ Load(u) \/ DistillDecides(u) \/ WarmDecides(u)
  \/ CallStarts(u) \/ CallReturns(u) \/ Abandon(u) \/ PhaseEnds(u) \/ DistillRaises(u)
  \/ TickReleases(u) \/ Stamp(u)

Next == \E u \in Unit :
  \/ Trigger(u) \/ RunStarts(u) \/ Pipeline(u) \/ Interrupted(u)
  \/ Due(u) \/ Consolidation(u)
  \/ IdleElapses(u) \/ CeilingElapses(u) \/ CliCompiles(u) \/ VaultPublishes(u)

\* A run and a tick, once begun, go on; LLM calls return (they have timeouts);
\* a waiter gets the semaphore if it is free again and again.
Fairness == \A u \in Unit :
  /\ WF_vars(Pipeline(u)) /\ SF_vars(RunAcquires(u))
  /\ WF_vars(Consolidation(u)) /\ SF_vars(TickAcquires(u))

Spec == Init /\ [][Next]_vars /\ Fairness

----------------------------------------------------------------------------
(* Properties *)

\* With one slot, no pipeline run of an engine publishes a graph while a pass of
\* that engine works on the one it loaded.  (Its vault source may, and so may
\* another process: neither takes the gate.  With two slots its own runs may too,
\* although the tick is said never to overlap a compile, daemon.py:1194.)
PassSeesOneGraph == \A u \in Unit : tick[u] \in InPass => loaded[u] # "stale"

\* A pre-warm budget is only abandoned for a pipeline run of the same engine that
\* is blocked on the gate, or was: it is being torn down, or has this moment got
\* its permit.  The flag never latches.
AbandonedForABlockedRun ==
  [][\A u \in Unit : Abandon(u) => run[u] \in {"blocked", "owns", "raised"}]_vars

\* The pre-warm operations of a tick decide on no further call while a pipeline
\* run of their engine is blocked on the gate.
NoCallWhileBlocked ==
  [][\A u \in Unit : run[u] = "blocked" /\ tick[u] \in Warming /\ call[u] = "none"
                       => call'[u] = "none"]_vars

\* A blocked pipeline run waits out at most one LLM call.
WaitsForOneCall == \A u \in Unit : waited[u] <= 1

\* A pipeline run that asks for the gate gets it.
RunIsServed == \A u \in Unit : run[u] = "blocked" ~> run[u] \in {"runs", "none"}

\* A tick that is due is run and stamped.
TickIsServed == \A u \in Unit : tick[u] = "due" ~> tick[u] = "sleeps"
=============================================================================
