------------------------- MODULE CompileGateProofs -------------------------
(***************************************************************************)
(* What CompileGate guarantees for any units, permits and budgets.          *)
(***************************************************************************)
EXTENDS CompileGate, FiniteSetTheorems, TLAPS

USE GateAssumption

Running == {"owns", "runs"}
Holding == InPass \union {"release"}

\* A call is only made or in flight in an operation that has it in its budget.
CallPaid ==
  \A u \in Unit : call[u] # "none" => left[u] > 0 /\ tick[u] \in {"distill"} \union Warming

Typed == TypeOK /\ CallPaid

\* Who has a permit: the runs and the ticks that are at work in the gate.
GateHeld ==
  \A u \in Unit :
    /\ <<u, "run">> \in inside <=> run[u] \in Running
    /\ <<u, "tick">> \in inside <=> tick[u] \in Holding

\* No more of them than there are permits.
Bounded == IsFiniteSet(inside) /\ Cardinality(inside) <= Slots

\* The permits of the semaphore are neither lost nor given twice: those in use
\* are those of the runs and ticks in the gate, which are never more than Slots.
PermitsInUse == GateHeld /\ Cardinality(inside) <= Slots

\* The flag is up while a run is blocked, and not after it has the gate.
FlagPaired ==
  \A u \in Unit :
    /\ pending[u] = "set" => run[u] \in {"blocked", "owns", "raised"}
    /\ run[u] = "blocked" => pending[u] = "set"

\* A graph is loaded only during a pass.
PassLoaded ==
  \A u \in Unit : loaded[u] # "stale" /\ (loaded[u] # "none" => tick[u] \in Holding)

\* One engine with a gate of its own, and distill off.
SoleEngine == (\A u, v \in Unit : u = v) /\ DistillCalls = 0

\* What a blocked run has waited for, and what it still may have to.
OneCall ==
  \A u \in Unit :
    /\ waited[u] <= 1
    /\ run[u] = "blocked" => pending[u] = "set" /\ (call[u] = "decided" => waited[u] = 0)
    /\ tick[u] = "distill" => left[u] = 0

\* The variables keep their types: every step.
LEMMA TypeStep == Typed /\ [Next]_vars => Typed'
<1> SUFFICES ASSUME Typed, [Next]_vars PROVE Typed'
  OBVIOUS
<1> USE DEF Typed, TypeOK, CallPaid, Step, Enter, Leave, InPass, Warming, runVars, tickVars, clocks
<1>1. ASSUME NEW u \in Unit,
             Trigger(u) \/ RunStarts(u) \/ Pipeline(u) \/ Interrupted(u) \/ Due(u) \/ Consolidation(u)
               \/ IdleElapses(u) \/ CeilingElapses(u) \/ CliCompiles(u) \/ VaultPublishes(u)
      PROVE Typed'
  <2>1. CASE Trigger(u) BY <2>1 DEF Trigger
  <2>2. CASE RunStarts(u) BY <2>2 DEF RunStarts
  <2>3. CASE RunAcquires(u) BY <2>3 DEF RunAcquires
  <2>4. CASE RaiseFlag(u) BY <2>4 DEF RaiseFlag
  <2>5. CASE Clears(u) BY <2>5 DEF Clears
  <2>6. CASE RunEnds(u) BY <2>6 DEF RunEnds, Outdated
  <2>7. CASE RunLeaves(u) BY <2>7 DEF RunLeaves
  <2>8. CASE Interrupted(u) BY <2>8 DEF Interrupted
  <2>9. CASE Due(u) BY <2>9 DEF Due
  <2>10. CASE TickAcquires(u) BY <2>10 DEF TickAcquires
  <2>11. CASE Load(u) BY <2>11 DEF Load
  <2>12. CASE DistillDecides(u) BY <2>12 DEF DistillDecides
  <2>13. CASE WarmDecides(u) BY <2>13 DEF WarmDecides
  <2>14. CASE CallStarts(u) BY <2>14 DEF CallStarts
  <2>15. CASE CallReturns(u) BY <2>15 DEF CallReturns
  <2>16. CASE Abandon(u) BY <2>16 DEF Abandon, Advance, NextPhase
  <2>17. CASE PhaseEnds(u) BY <2>17 DEF PhaseEnds, Advance, NextPhase
  <2>18. CASE DistillRaises(u) BY <2>18 DEF DistillRaises
  <2>19. CASE TickReleases(u) BY <2>19 DEF TickReleases
  <2>20. CASE Stamp(u) BY <2>20 DEF Stamp
  <2>21. CASE IdleElapses(u) BY <2>21 DEF IdleElapses
  <2>22. CASE CeilingElapses(u) BY <2>22 DEF CeilingElapses
  <2>23. CASE CliCompiles(u) BY <2>23 DEF CliCompiles
  <2>24. CASE VaultPublishes(u) BY <2>24 DEF VaultPublishes
  <2> QED
    BY <1>1, <2>1, <2>2, <2>3, <2>4, <2>5, <2>6, <2>7, <2>8, <2>9, <2>10, <2>11, <2>12,
       <2>13, <2>14, <2>15, <2>16, <2>17, <2>18, <2>19, <2>20, <2>21, <2>22, <2>23, <2>24 DEF Pipeline, Consolidation
<1>2. CASE UNCHANGED vars BY <1>2 DEF vars
<1> QED BY <1>1, <1>2 DEF Next

\* Every step keeps the gate with whoever is in it.
LEMMA GateStep == TypeOK /\ GateHeld /\ [Next]_vars => GateHeld'
<1> SUFFICES ASSUME TypeOK, GateHeld, [Next]_vars PROVE GateHeld'
  OBVIOUS
<1> USE DEF TypeOK, GateHeld, Running, Holding, Step, Enter, Leave, InPass, Warming, runVars, tickVars, clocks
<1>1. ASSUME NEW u \in Unit,
             Trigger(u) \/ RunStarts(u) \/ Pipeline(u) \/ Interrupted(u) \/ Due(u) \/ Consolidation(u)
               \/ IdleElapses(u) \/ CeilingElapses(u) \/ CliCompiles(u) \/ VaultPublishes(u)
      PROVE GateHeld'
  <2>1. CASE Trigger(u) BY <2>1 DEF Trigger
  <2>2. CASE RunStarts(u) BY <2>2 DEF RunStarts
  <2>3. CASE RunAcquires(u) BY <2>3 DEF RunAcquires
  <2>4. CASE RaiseFlag(u) BY <2>4 DEF RaiseFlag
  <2>5. CASE Clears(u) BY <2>5 DEF Clears
  <2>6. CASE RunEnds(u) BY <2>6 DEF RunEnds, Outdated
  <2>7. CASE RunLeaves(u) BY <2>7 DEF RunLeaves
  <2>8. CASE Interrupted(u) BY <2>8 DEF Interrupted
  <2>9. CASE Due(u) BY <2>9 DEF Due
  <2>10. CASE TickAcquires(u) BY <2>10 DEF TickAcquires
  <2>11. CASE Load(u)
    <3>1. \E p \in {"distill", "release"} : tick' = [tick EXCEPT ![u] = p]
      BY <2>11 DEF Load
    <3>2. tick[u] = "load" /\ inside' = inside /\ run' = run
      BY <2>11 DEF Load
    <3>3. tick'[u] \in Holding /\ tick[u] \in Holding
      BY <3>1, <3>2
    <3>4. \A v \in Unit \ {u} : tick'[v] = tick[v]
      BY <3>1
    <3>5. \A v \in Unit : tick'[v] \in Holding <=> tick[v] \in Holding
      BY <3>3, <3>4
    <3> HIDE DEF Holding
    <3> QED BY <3>2, <3>5
  <2>12. CASE DistillDecides(u) BY <2>12 DEF DistillDecides
  <2>13. CASE WarmDecides(u) BY <2>13 DEF WarmDecides
  <2>14. CASE CallStarts(u) BY <2>14 DEF CallStarts
  <2>15. CASE CallReturns(u) BY <2>15 DEF CallReturns
  <2>16. CASE Abandon(u) BY <2>16 DEF Abandon, Advance, NextPhase
  <2>17. CASE PhaseEnds(u) BY <2>17 DEF PhaseEnds, Advance, NextPhase
  <2>18. CASE DistillRaises(u) BY <2>18 DEF DistillRaises
  <2>19. CASE TickReleases(u) BY <2>19 DEF TickReleases
  <2>20. CASE Stamp(u) BY <2>20 DEF Stamp
  <2>21. CASE IdleElapses(u) BY <2>21 DEF IdleElapses
  <2>22. CASE CeilingElapses(u) BY <2>22 DEF CeilingElapses
  <2>23. CASE CliCompiles(u) BY <2>23 DEF CliCompiles
  <2>24. CASE VaultPublishes(u) BY <2>24 DEF VaultPublishes
  <2> QED
    BY <1>1, <2>1, <2>2, <2>3, <2>4, <2>5, <2>6, <2>7, <2>8, <2>9, <2>10, <2>11, <2>12,
       <2>13, <2>14, <2>15, <2>16, <2>17, <2>18, <2>19, <2>20, <2>21, <2>22, <2>23, <2>24 DEF Pipeline, Consolidation
<1>2. CASE UNCHANGED vars BY <1>2 DEF vars
<1> QED BY <1>1, <1>2 DEF Next

\* Every step keeps the permits in use within Slots.
LEMMA BoundStep == Bounded /\ [Next]_vars => Bounded'
<1> SUFFICES ASSUME Bounded, [Next]_vars PROVE Bounded'
  OBVIOUS
<1>1. ASSUME NEW p, Enter(p) PROVE Bounded'
  <2>1. Cardinality(inside) \in Nat /\ Slots \in Nat
    BY FS_CardinalityType DEF Bounded
  <2>2. IsFiniteSet(inside') /\ Cardinality(inside') \in {Cardinality(inside), Cardinality(inside) + 1}
    BY <1>1, FS_AddElement DEF Bounded, Enter
  <2> QED
    BY <1>1, <2>1, <2>2 DEF Bounded, Enter
<1>2. ASSUME NEW p, Leave(p) PROVE Bounded'
  <2>1. Cardinality(inside) \in Nat /\ Slots \in Nat
    BY FS_CardinalityType DEF Bounded
  <2>2. IsFiniteSet(inside') /\ Cardinality(inside') \in {Cardinality(inside), Cardinality(inside) - 1}
    BY <1>2, FS_RemoveElement DEF Bounded, Leave
  <2> QED
    BY <2>1, <2>2 DEF Bounded
<1>3. ASSUME inside' = inside PROVE Bounded'
  BY <1>3 DEF Bounded
<1>4. ASSUME NEW u \in Unit, RunAcquires(u) \/ TickAcquires(u) \/ RunEnds(u) \/ TickReleases(u)
      PROVE  Bounded'
  BY <1>1, <1>2, <1>4 DEF RunAcquires, TickAcquires, RunEnds, TickReleases
<1>5. ASSUME NEW u \in Unit,
             \/ Trigger(u) \/ RunStarts(u) \/ RaiseFlag(u) \/ Clears(u) \/ RunLeaves(u)
             \/ Interrupted(u) \/ Due(u) \/ Load(u) \/ DistillDecides(u) \/ WarmDecides(u)
             \/ CallStarts(u) \/ CallReturns(u) \/ Abandon(u) \/ PhaseEnds(u) \/ DistillRaises(u)
             \/ Stamp(u) \/ IdleElapses(u) \/ CeilingElapses(u) \/ CliCompiles(u) \/ VaultPublishes(u)
      PROVE  inside' = inside
  BY <1>5 DEF Trigger, RunStarts, RaiseFlag, Clears, RunLeaves, Interrupted, Due, Load, DistillDecides,
              WarmDecides, CallStarts, CallReturns, Abandon, PhaseEnds, DistillRaises, Stamp,
              IdleElapses, CeilingElapses, CliCompiles, VaultPublishes
<1>6. CASE UNCHANGED vars
  BY <1>3, <1>6 DEF vars
<1> QED
  BY <1>3, <1>4, <1>5, <1>6 DEF Next, Pipeline, Consolidation

\* Of one permit there is one holder.
LEMMA OneInside ==
  ASSUME Bounded, Slots = 1, NEW p \in inside, NEW q \in inside
  PROVE  p = q
<1>1. Cardinality(inside) \in Nat /\ inside # {}
  BY FS_CardinalityType DEF Bounded
<1>2. Cardinality(inside) = 1
  <2>1. Cardinality(inside) # 0
    BY <1>1, FS_EmptySet DEF Bounded
  <2> QED
    BY <1>1, <2>1 DEF Bounded
<1>3. PICK x : inside = {x}
  BY <1>2, FS_Singleton DEF Bounded
<1> QED
  BY <1>3

\* Every step keeps the flag paired with a blocked run.
LEMMA FlagStep == TypeOK /\ FlagPaired /\ [Next]_vars => FlagPaired'
<1> SUFFICES ASSUME TypeOK, FlagPaired, [Next]_vars PROVE FlagPaired'
  OBVIOUS
<1> USE DEF TypeOK, FlagPaired, Step, Enter, Leave, InPass, Warming, runVars, tickVars, clocks
<1>1. ASSUME NEW u \in Unit,
             Trigger(u) \/ RunStarts(u) \/ Pipeline(u) \/ Interrupted(u) \/ Due(u) \/ Consolidation(u)
               \/ IdleElapses(u) \/ CeilingElapses(u) \/ CliCompiles(u) \/ VaultPublishes(u)
      PROVE FlagPaired'
  <2>1. CASE Trigger(u) BY <2>1 DEF Trigger
  <2>2. CASE RunStarts(u) BY <2>2 DEF RunStarts
  <2>3. CASE RunAcquires(u) BY <2>3 DEF RunAcquires
  <2>4. CASE RaiseFlag(u) BY <2>4 DEF RaiseFlag
  <2>5. CASE Clears(u) BY <2>5 DEF Clears
  <2>6. CASE RunEnds(u) BY <2>6 DEF RunEnds, Outdated
  <2>7. CASE RunLeaves(u) BY <2>7 DEF RunLeaves
  <2>8. CASE Interrupted(u) BY <2>8 DEF Interrupted
  <2>9. CASE Due(u) BY <2>9 DEF Due
  <2>10. CASE TickAcquires(u) BY <2>10 DEF TickAcquires
  <2>11. CASE Load(u) BY <2>11 DEF Load
  <2>12. CASE DistillDecides(u) BY <2>12 DEF DistillDecides
  <2>13. CASE WarmDecides(u) BY <2>13 DEF WarmDecides
  <2>14. CASE CallStarts(u) BY <2>14 DEF CallStarts
  <2>15. CASE CallReturns(u) BY <2>15 DEF CallReturns
  <2>16. CASE Abandon(u) BY <2>16 DEF Abandon, Advance, NextPhase
  <2>17. CASE PhaseEnds(u) BY <2>17 DEF PhaseEnds, Advance, NextPhase
  <2>18. CASE DistillRaises(u) BY <2>18 DEF DistillRaises
  <2>19. CASE TickReleases(u) BY <2>19 DEF TickReleases
  <2>20. CASE Stamp(u) BY <2>20 DEF Stamp
  <2>21. CASE IdleElapses(u) BY <2>21 DEF IdleElapses
  <2>22. CASE CeilingElapses(u) BY <2>22 DEF CeilingElapses
  <2>23. CASE CliCompiles(u) BY <2>23 DEF CliCompiles
  <2>24. CASE VaultPublishes(u) BY <2>24 DEF VaultPublishes
  <2> QED
    BY <1>1, <2>1, <2>2, <2>3, <2>4, <2>5, <2>6, <2>7, <2>8, <2>9, <2>10, <2>11, <2>12,
       <2>13, <2>14, <2>15, <2>16, <2>17, <2>18, <2>19, <2>20, <2>21, <2>22, <2>23, <2>24 DEF Pipeline, Consolidation
<1>2. CASE UNCHANGED vars BY <1>2 DEF vars
<1> QED BY <1>1, <1>2 DEF Next

\* In one engine without distill, every step leaves a blocked run at most one call
\* to wait for: one in flight, or one decided on before the flag was up.
LEMMA OneCallStep == Typed /\ OneCall /\ SoleEngine /\ [Next]_vars => OneCall'
<1> SUFFICES ASSUME Typed, OneCall, SoleEngine, [Next]_vars PROVE OneCall'
  OBVIOUS
<1> USE DEF Typed, CallPaid, TypeOK, OneCall, SoleEngine, InFlight, Step, Enter, Leave, InPass, Warming, runVars, tickVars, clocks
<1>1. ASSUME NEW u \in Unit,
             Trigger(u) \/ RunStarts(u) \/ Pipeline(u) \/ Interrupted(u) \/ Due(u) \/ Consolidation(u)
               \/ IdleElapses(u) \/ CeilingElapses(u) \/ CliCompiles(u) \/ VaultPublishes(u)
      PROVE OneCall'
  <2>1. CASE Trigger(u) BY <2>1 DEF Trigger
  <2>2. CASE RunStarts(u) BY <2>2 DEF RunStarts
  <2>3. CASE RunAcquires(u) BY <2>3 DEF RunAcquires
  <2>4. CASE RaiseFlag(u) BY <2>4 DEF RaiseFlag
  <2>5. CASE Clears(u) BY <2>5 DEF Clears
  <2>6. CASE RunEnds(u) BY <2>6 DEF RunEnds, Outdated
  <2>7. CASE RunLeaves(u) BY <2>7 DEF RunLeaves
  <2>8. CASE Interrupted(u) BY <2>8 DEF Interrupted
  <2>9. CASE Due(u) BY <2>9 DEF Due
  <2>10. CASE TickAcquires(u) BY <2>10 DEF TickAcquires
  <2>11. CASE Load(u) BY <2>11 DEF Load
  <2>12. CASE DistillDecides(u) BY <2>12 DEF DistillDecides
  <2>13. CASE WarmDecides(u) BY <2>13 DEF WarmDecides
  <2>14. CASE CallStarts(u) BY <2>14 DEF CallStarts
  <2>15. CASE CallReturns(u) BY <2>15 DEF CallReturns
  <2>16. CASE Abandon(u) BY <2>16 DEF Abandon, Advance, NextPhase
  <2>17. CASE PhaseEnds(u) BY <2>17 DEF PhaseEnds, Advance, NextPhase
  <2>18. CASE DistillRaises(u) BY <2>18 DEF DistillRaises
  <2>19. CASE TickReleases(u) BY <2>19 DEF TickReleases
  <2>20. CASE Stamp(u) BY <2>20 DEF Stamp
  <2>21. CASE IdleElapses(u) BY <2>21 DEF IdleElapses
  <2>22. CASE CeilingElapses(u) BY <2>22 DEF CeilingElapses
  <2>23. CASE CliCompiles(u) BY <2>23 DEF CliCompiles
  <2>24. CASE VaultPublishes(u) BY <2>24 DEF VaultPublishes
  <2> QED
    BY <1>1, <2>1, <2>2, <2>3, <2>4, <2>5, <2>6, <2>7, <2>8, <2>9, <2>10, <2>11, <2>12,
       <2>13, <2>14, <2>15, <2>16, <2>17, <2>18, <2>19, <2>20, <2>21, <2>22, <2>23, <2>24 DEF Pipeline, Consolidation
<1>2. CASE UNCHANGED vars BY <1>2 DEF vars
<1> QED BY <1>1, <1>2 DEF Next

\* With one slot, no pipeline run of the engine replaces the graph of a pass.
LEMMA LoadStep == TypeOK /\ GateHeld /\ Bounded /\ Slots = 1 /\ PassLoaded /\ [Next]_vars => PassLoaded'
<1> SUFFICES ASSUME TypeOK, GateHeld, Bounded, Slots = 1, PassLoaded, [Next]_vars PROVE PassLoaded'
  OBVIOUS
<1>0. \A u \in Unit : run[u] \in Running => tick[u] \notin Holding
  BY OneInside DEF GateHeld
<1> USE DEF TypeOK, PassLoaded, GateHeld, Running, Holding, Step, Enter, Leave, InPass, Warming, runVars, tickVars, clocks
<1>1. ASSUME NEW u \in Unit,
             Trigger(u) \/ RunStarts(u) \/ Pipeline(u) \/ Interrupted(u) \/ Due(u) \/ Consolidation(u)
               \/ IdleElapses(u) \/ CeilingElapses(u) \/ CliCompiles(u) \/ VaultPublishes(u)
      PROVE PassLoaded'
  <2>1. CASE Trigger(u) BY <2>1 DEF Trigger
  <2>2. CASE RunStarts(u) BY <2>2 DEF RunStarts
  <2>3. CASE RunAcquires(u) BY <2>3 DEF RunAcquires
  <2>4. CASE RaiseFlag(u) BY <2>4 DEF RaiseFlag
  <2>5. CASE Clears(u) BY <2>5 DEF Clears
  <2>6. CASE RunEnds(u) BY <1>0, <2>6 DEF RunEnds, Outdated
  <2>7. CASE RunLeaves(u) BY <2>7 DEF RunLeaves
  <2>8. CASE Interrupted(u) BY <2>8 DEF Interrupted
  <2>9. CASE Due(u) BY <2>9 DEF Due
  <2>10. CASE TickAcquires(u) BY <2>10 DEF TickAcquires
  <2>11. CASE Load(u) BY <2>11 DEF Load
  <2>12. CASE DistillDecides(u) BY <2>12 DEF DistillDecides
  <2>13. CASE WarmDecides(u) BY <2>13 DEF WarmDecides
  <2>14. CASE CallStarts(u) BY <2>14 DEF CallStarts
  <2>15. CASE CallReturns(u) BY <2>15 DEF CallReturns
  <2>16. CASE Abandon(u) BY <2>16 DEF Abandon, Advance, NextPhase
  <2>17. CASE PhaseEnds(u) BY <2>17 DEF PhaseEnds, Advance, NextPhase
  <2>18. CASE DistillRaises(u) BY <2>18 DEF DistillRaises
  <2>19. CASE TickReleases(u) BY <2>19 DEF TickReleases
  <2>20. CASE Stamp(u) BY <2>20 DEF Stamp
  <2>21. CASE IdleElapses(u) BY <2>21 DEF IdleElapses
  <2>22. CASE CeilingElapses(u) BY <2>22 DEF CeilingElapses
  <2>23. CASE CliCompiles(u) BY <2>23 DEF CliCompiles
  <2>24. CASE VaultPublishes(u) BY <2>24 DEF VaultPublishes
  <2> QED
    BY <1>1, <2>1, <2>2, <2>3, <2>4, <2>5, <2>6, <2>7, <2>8, <2>9, <2>10, <2>11, <2>12,
       <2>13, <2>14, <2>15, <2>16, <2>17, <2>18, <2>19, <2>20, <2>21, <2>22, <2>23, <2>24 DEF Pipeline, Consolidation
<1>2. CASE UNCHANGED vars BY <1>2 DEF vars
<1> QED BY <1>1, <1>2 DEF Next

----------------------------------------------------------------------------
(* The theorems *)

\* In the initial state the gate is free and every flag clear.
LEMMA InvInit == Init => Typed /\ GateHeld /\ Bounded /\ FlagPaired /\ PassLoaded /\ OneCall
BY FS_EmptySet DEF Init, Typed, CallPaid, TypeOK, OneCall, GateHeld, Bounded, FlagPaired, PassLoaded, Running, Holding, InPass, Warming

\* The variables of CompileGate keep their types.
THEOREM TypeCorrect == Spec => []TypeOK
BY InvInit, TypeStep, PTL DEF Spec, Typed

\* In a fleet of any size, with any number of slots, the permits in use are those
\* of the runs and ticks at work in the gate, and never more than there are: no
\* interrupted run, failed pass or abandoned budget keeps one, so a blocked run
\* finds a permit free or Slots others at work.
THEOREM GateIsNeverLost == Spec => []PermitsInUse
<1>1. Typed /\ GateHeld /\ Bounded /\ [Next]_vars => (Typed /\ GateHeld /\ Bounded)'
  BY TypeStep, GateStep, BoundStep DEF Typed
<1>2. GateHeld /\ Bounded => PermitsInUse
  BY DEF Bounded, PermitsInUse
<1> QED BY InvInit, <1>1, <1>2, PTL DEF Spec

\* In a fleet of any size whose gate has one slot, no pass has its graph replaced
\* by a pipeline run of its own engine.
THEOREM OneGraphPerPass == Slots = 1 => (Spec => []PassSeesOneGraph)
<1> SUFFICES ASSUME Slots = 1 PROVE Spec => []PassSeesOneGraph
  OBVIOUS
<1>1. Typed /\ GateHeld /\ Bounded /\ PassLoaded /\ [Next]_vars
        => (Typed /\ GateHeld /\ Bounded /\ PassLoaded)'
  BY TypeStep, GateStep, BoundStep, LoadStep DEF Typed
<1>2. PassLoaded => PassSeesOneGraph
  BY DEF PassLoaded, PassSeesOneGraph
<1> QED BY InvInit, <1>1, <1>2, PTL DEF Spec

\* The flag never latches: a budget is abandoned only for a run of the same
\* engine that is blocked on the gate, was interrupted there or has just entered.
THEOREM FlagNeverLatches == Spec => AbandonedForABlockedRun
<1>1. Typed /\ FlagPaired /\ [Next]_vars => (Typed /\ FlagPaired)'
  BY TypeStep, FlagStep DEF Typed
<1>2. FlagPaired => \A u \in Unit : Abandon(u) => run[u] \in {"blocked", "owns", "raised"}
  BY DEF FlagPaired, Abandon
<1> QED BY InvInit, <1>1, <1>2, PTL DEF Spec, AbandonedForABlockedRun

\* However long a run is blocked, the pre-warm operations of its engine decide on
\* no further call.
THEOREM BlockedRunStopsCalls == Spec => NoCallWhileBlocked
<1>1. Typed /\ FlagPaired /\ [Next]_vars => (Typed /\ FlagPaired)'
  BY TypeStep, FlagStep DEF Typed
<1> DEFINE Quiet == \A u \in Unit : run[u] = "blocked" /\ tick[u] \in Warming /\ call[u] = "none"
                                     => call'[u] = "none"
<1>2. Typed /\ FlagPaired /\ [Next]_vars => Quiet
  <2> SUFFICES ASSUME Typed, FlagPaired, [Next]_vars,
                      NEW v \in Unit, run[v] = "blocked", tick[v] \in Warming, call[v] = "none"
               PROVE call'[v] = "none"
    OBVIOUS
  <2> USE DEF Typed, TypeOK, FlagPaired, Warming, Step, tickVars
  <2>1. CASE UNCHANGED vars BY <2>1 DEF vars
  <2>2. ASSUME NEW u \in Unit, DistillDecides(u) \/ WarmDecides(u) \/ CallStarts(u) \/ CallReturns(u) \/ DistillRaises(u)
        PROVE call'[v] = "none"
    BY <2>2 DEF DistillDecides, WarmDecides, CallStarts, CallReturns, DistillRaises
  <2>3. ASSUME NEW u \in Unit, Trigger(u) \/ RunStarts(u) \/ Pipeline(u) \/ Interrupted(u) \/ Due(u)
                 \/ IdleElapses(u) \/ CeilingElapses(u) \/ CliCompiles(u) \/ VaultPublishes(u)
        PROVE call' = call
    BY <2>3 DEF Trigger, RunStarts, Pipeline, RunAcquires, RaiseFlag, Clears, RunEnds, RunLeaves,
                Interrupted, Due, IdleElapses, CeilingElapses, CliCompiles, VaultPublishes
  <2>4. ASSUME NEW u \in Unit, TickAcquires(u) \/ Load(u) \/ Abandon(u) \/ PhaseEnds(u) \/ TickReleases(u) \/ Stamp(u)
        PROVE call' = call
    BY <2>4 DEF TickAcquires, Load, Abandon, PhaseEnds, TickReleases, Stamp
  <2> QED BY <2>1, <2>2, <2>3, <2>4 DEF Next, Consolidation
<1> QED BY InvInit, <1>1, <1>2, PTL DEF Spec, NoCallWhileBlocked

\* In one engine without distill, whatever its budgets, a blocked pipeline run
\* waits out at most one LLM call.
THEOREM OneCallAtMost == SoleEngine => (Spec => []WaitsForOneCall)
<1> SUFFICES ASSUME SoleEngine PROVE Spec => []WaitsForOneCall
  OBVIOUS
<1>1. Typed /\ OneCall /\ [Next]_vars => (Typed /\ OneCall)'
  BY TypeStep, OneCallStep DEF Typed
<1>2. OneCall => WaitsForOneCall
  BY DEF OneCall, WaitsForOneCall
<1> QED BY InvInit, <1>1, <1>2, PTL DEF Spec
=============================================================================
