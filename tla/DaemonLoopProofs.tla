-------------------------- MODULE DaemonLoopProofs --------------------------
(* Proofs about DaemonLoop, for every set of paths and every debounce and     *)
(* back-off length.                                                           *)
EXTENDS DaemonLoop, TLAPS

\* At most two signals count; a handled one is no longer in the pipe.
SignalsBounded == stopRequests + sigPending <= 2

\* What the drain loop has taken from the queue has a task that will run it: no
\* coalesced burst and no deferred attempt leaves a trigger pending that only the
\* next trigger would wake.
NothingStranded == pc \in {"loop", "leave"} /\ pending # {} => task = "waiting"

\* The shutdown, and a run(once=True) from its attempt on.
Closing == \/ pc \in {"leave", "await", "decide", "cleanup", "exited"}
           \/ pc = "run" /\ (runKind = "final" \/ Once)

Stage == [at \in PC |-> CASE at = "loop"  -> 0 [] at = "leave"   -> 1 [] at = "await"  -> 2
                         [] at = "decide" -> 3 [] at = "run"     -> 4 [] at = "cleanup" -> 5
                         [] at = "exited" -> 6]

\* A shutdown that has begun only goes forward: it makes one final attempt at the
\* most, deferred or not, and never returns to the drain loop.
ShutdownAdvances == [][Closing => Closing' /\ (pc' # pc => Stage[pc] < Stage[pc'])]_vars

\* A task in flight, or a run it started, carries at least one trigger.
WorkIsReal ==
  /\ task = "waiting" /\ pc \in {"loop", "leave", "run"} => pending # {}
  /\ pc = "run" => pending # {}
  /\ pc = "run" /\ runKind = "task" => task = "waiting"

\* What the task has waited and what it still has to wait make up the back-off.
BackoffAccounted == sinceDefer + deferLeft >= deferDelay

IInv == /\ TypeOK
        /\ SignalsBounded
        /\ WorkIsReal
        /\ NothingStranded
        /\ CarriesTheUnion
        /\ BackoffAccounted

LEMMA DoubledBounded ==
  ASSUME NEW d \in 0..DeferMax
  PROVE  Doubled(d) \in 0..DeferMax
BY DaemonLoopAssumption DEF Doubled

LEMMA InitIInv == Init => IInv
<1>. SUFFICES ASSUME Init PROVE IInv
  OBVIOUS
<1>1. stop \in BOOLEAN
  BY DEF Init
<1>2. TypeOK
  BY <1>1, DaemonLoopAssumption DEF Init, TypeOK, PC, Item, Once
<1>3. SignalsBounded /\ BackoffAccounted
  BY DaemonLoopAssumption DEF Init, SignalsBounded, BackoffAccounted
<1>4. WorkIsReal /\ NothingStranded /\ CarriesTheUnion
  BY DEF Init, WorkIsReal, NothingStranded, CarriesTheUnion
<1>. QED
  BY <1>2, <1>3, <1>4 DEF IInv

LEMMA NextTypeOK == IInv /\ [Next]_vars => TypeOK' /\ SignalsBounded'
<1>. SUFFICES ASSUME IInv, [Next]_vars
              PROVE  TypeOK' /\ SignalsBounded'
  OBVIOUS
<1>. USE DaemonLoopAssumption
     DEF IInv, TypeOK, SignalsBounded, PC, deferVars, stopVars, taskVars, runVars
<1>1. CASE \E i \in Item : Enqueue(i)
  BY <1>1 DEF Enqueue
<1>2. CASE RequestStop
  BY <1>2 DEF RequestStop
<1>3. CASE SignalArrives
  BY <1>3 DEF SignalArrives
<1>4. CASE StopNow
  BY <1>4 DEF StopNow
<1>5. CASE HandleSignal
  BY <1>5 DEF HandleSignal
<1>6. CASE Burst
  BY <1>6 DEF Burst, Coalesced
<1>7. CASE StopNoticed
  BY <1>7 DEF StopNoticed, Coalesced
<1>8. CASE TaskCancelled
  BY <1>8 DEF TaskCancelled
<1>9. CASE \E i \in Item : PutNowait(i)
  BY <1>9 DEF PutNowait
<1>10. CASE TaskRuns \/ FinalRun \/ NoFinalRun
  BY <1>10 DEF TaskRuns, FinalRun, NoFinalRun
<1>11. CASE RunCompletes \/ RunRaises
  BY <1>11 DEF RunCompletes, RunRaises, Consume, AfterRun, Once
<1>12. CASE RunDeferred
  <2>1. Doubled(deferDelay) \in 0..DeferMax
    BY DoubledBounded
  <2>. QED
    BY <1>12, <2>1 DEF RunDeferred, AfterRun, Once
<1>13. CASE CleanUp
  BY <1>13 DEF CleanUp
<1>14. CASE Tick
  BY <1>14 DEF Tick
<1>15. CASE UNCHANGED vars
  BY <1>15 DEF vars
<1>. QED
  BY <1>1, <1>2, <1>3, <1>4, <1>5, <1>6, <1>7, <1>8, <1>9, <1>10, <1>11, <1>12,
     <1>13, <1>14, <1>15
  DEF Next, Environment, LoopThread, RunEnds

LEMMA NextTask ==
  IInv /\ [Next]_vars =>
    WorkIsReal' /\ NothingStranded' /\ CarriesTheUnion' /\ BackoffAccounted'
<1>. SUFFICES ASSUME IInv, [Next]_vars
              PROVE  WorkIsReal' /\ NothingStranded' /\ CarriesTheUnion' /\ BackoffAccounted'
  OBVIOUS
<1>. USE DaemonLoopAssumption
     DEF IInv, TypeOK, WorkIsReal, NothingStranded, CarriesTheUnion, BackoffAccounted, PC,
         deferVars, stopVars, taskVars, runVars
<1>1. CASE \E i \in Item : Enqueue(i)
  BY <1>1 DEF Enqueue
<1>2. CASE RequestStop \/ SignalArrives \/ StopNow \/ HandleSignal
  BY <1>2 DEF RequestStop, SignalArrives, StopNow, HandleSignal
<1>3. CASE Burst
  BY <1>3 DEF Burst, Coalesced
<1>4. CASE StopNoticed
  BY <1>4 DEF StopNoticed, Coalesced
<1>5. CASE TaskCancelled
  BY <1>5 DEF TaskCancelled
<1>6. CASE \E i \in Item : PutNowait(i)
  BY <1>6 DEF PutNowait
<1>7. CASE TaskRuns \/ FinalRun \/ NoFinalRun
  BY <1>7 DEF TaskRuns, FinalRun, NoFinalRun
<1>8. CASE RunCompletes \/ RunRaises
  BY <1>8 DEF RunCompletes, RunRaises, Consume, AfterRun, Once
<1>9. CASE RunDeferred
  <2>1. Doubled(deferDelay) \in 0..DeferMax
    BY DoubledBounded
  <2>. QED
    BY <1>9, <2>1 DEF RunDeferred, AfterRun, Once
<1>10. CASE CleanUp
  BY <1>10 DEF CleanUp
<1>11. CASE Tick
  BY <1>11 DEF Tick
<1>12. CASE UNCHANGED vars
  BY <1>12 DEF vars
<1>. QED
  BY <1>1, <1>2, <1>3, <1>4, <1>5, <1>6, <1>7, <1>8, <1>9, <1>10, <1>11, <1>12
  DEF Next, Environment, LoopThread, RunEnds

LEMMA Inductive == Spec => []IInv
<1>1. IInv /\ [Next]_vars => IInv'
  BY NextTypeOK, NextTask DEF IInv
<1>. QED
  BY InitIInv, <1>1, PTL DEF Spec

(***************************************************************************)
(* The loop's variables keep their types, whatever the constants: in       *)
(* particular the back-off stays under its ceiling and at most two signals *)
(* are ever counted.                                                       *)
(***************************************************************************)
THEOREM TypeCorrect == Spec => []TypeOK
<1>1. IInv => TypeOK
  BY DEF IInv
<1>. QED
  BY Inductive, <1>1, PTL

(***************************************************************************)
(* The debounce task in flight always carries the whole union of what is   *)
(* pending, for every set of paths.                                        *)
(***************************************************************************)
THEOREM TaskCarriesTheUnion == Spec => []CarriesTheUnion
<1>1. IInv => CarriesTheUnion
  BY DEF IInv
<1>. QED
  BY Inductive, <1>1, PTL

(***************************************************************************)
(* Whatever is pending has a waiting task while the drain loop goes on, so *)
(* a deferred attempt or a cancelled debounce never leaves a trigger to    *)
(* wait for the next one: for every set of paths.                          *)
(***************************************************************************)
THEOREM PendingHasATask == Spec => []NothingStranded
<1>1. IInv => NothingStranded
  BY DEF IInv
<1>. QED
  BY Inductive, <1>1, PTL

(***************************************************************************)
(* However many signals arrive and attempts are deferred, a shutdown goes  *)
(* forward and makes at most one more attempt.                             *)
(***************************************************************************)
THEOREM ShutdownIsShort == Spec => ShutdownAdvances
<1>1. IInv /\ [Next]_vars => [Closing => Closing' /\ (pc' # pc => Stage[pc] < Stage[pc'])]_vars
  <2>. SUFFICES ASSUME IInv, Next, Closing
                PROVE  Closing' /\ (pc' # pc => Stage[pc] < Stage[pc'])
    OBVIOUS
  <2>. USE DEF Closing, Once, deferVars, stopVars, taskVars, runVars
  <2>1. CASE UNCHANGED <<mode, pc, runKind>>
    BY <2>1
  <2>2. CASE (\E i \in Item : Enqueue(i) \/ PutNowait(i)) \/ RequestStop \/ SignalArrives \/ HandleSignal \/ Tick
    BY <2>1, <2>2 DEF Enqueue, PutNowait, RequestStop, SignalArrives, HandleSignal, Tick
  <2>3. CASE StopNow
    BY <2>3 DEF StopNow, Stage, PC, IInv, TypeOK
  <2>4. CASE Burst \/ TaskRuns
    BY <2>4 DEF Burst, TaskRuns
  <2>5. CASE StopNoticed \/ TaskCancelled \/ FinalRun \/ NoFinalRun \/ CleanUp
    BY <2>5 DEF StopNoticed, TaskCancelled, FinalRun, NoFinalRun, CleanUp, Stage, PC
  <2>6. CASE RunEnds
    BY <2>6 DEF RunEnds, RunCompletes, RunRaises, RunDeferred, Consume, AfterRun, Stage, PC
  <2>. QED
    BY <2>2, <2>3, <2>4, <2>5, <2>6 DEF Next, Environment, LoopThread
<1>. QED
  BY Inductive, <1>1, PTL DEF Spec, ShutdownAdvances

(***************************************************************************)
(* No task attempt cuts a back-off short, for every back-off ladder.       *)
(***************************************************************************)
THEOREM BackoffAlwaysServed == Spec => BackoffServed
<1>1. IInv /\ [Next]_vars => [TaskRuns /\ ~Once => sinceDefer >= deferDelay]_vars
  BY DEF IInv, TypeOK, BackoffAccounted, TaskRuns, BackoffOver, Once
<1>. QED
  BY Inductive, <1>1, PTL DEF Spec, BackoffServed

----------------------------------------------------------------------------
(* Refinement of OwedWork *)

LEMMA PromiseInit == Init => Promise!Init
BY DEF Init, Promise!Init, Up, Running, Item

LEMMA PromiseStep == IInv /\ [Next]_vars => [Promise!Next]_(Promise!vars)
<1>. SUFFICES ASSUME IInv, [Next]_vars
              PROVE  Promise!Next \/ UNCHANGED Promise!vars
  OBVIOUS
<1>. USE DEF Promise!vars, Up, Running, RunPaths, deferVars, stopVars, taskVars, runVars
<1>1. ASSUME NEW i \in Item, Enqueue(i)
      PROVE  Promise!Accept(i)
  BY <1>1 DEF Enqueue, Promise!Accept
<1>2. CASE RequestStop \/ SignalArrives \/ HandleSignal
  BY <1>2 DEF RequestStop, SignalArrives, HandleSignal
<1>3. CASE StopNow \/ NoFinalRun
  BY <1>3 DEF StopNow, NoFinalRun, Promise!Next, Promise!Leave, IInv, TypeOK
<1>4. CASE Burst \/ StopNoticed
  BY <1>4 DEF Burst, StopNoticed, Coalesced
<1>5. CASE TaskCancelled
  BY <1>5 DEF TaskCancelled
<1>6. CASE \E i \in Item : PutNowait(i)
  BY <1>6 DEF PutNowait
<1>7. CASE TaskRuns \/ FinalRun
  <2>1. RunPaths' = pending /\ pending # {} /\ Up /\ Up' /\ ~Running /\ Running'
    BY <1>7 DEF TaskRuns, FinalRun, IInv, WorkIsReal, CarriesTheUnion
  <2>2. posted' = posted /\ queue' = queue /\ result' = result
    BY <1>7 DEF TaskRuns, FinalRun
  <2>. DEFINE O == posted \union queue \union pending
              again == pending \intersect (posted \union queue)
  <2>3. pending \in SUBSET O /\ again \in SUBSET pending
    OBVIOUS
  <2>4. posted \union queue = (O \ pending) \union again
    OBVIOUS
  <2>. HIDE DEF O, again
  <2>. QED
    BY <2>1, <2>2, <2>3, <2>4 DEF Promise!Next, Promise!Begin, O
<1>8. CASE RunCompletes \/ RunRaises
  <2>1. Running /\ RunPaths = pending /\ pending # {}
    BY <1>8 DEF RunCompletes, RunRaises, Consume, IInv, WorkIsReal, CarriesTheUnion
  <2>2. CASE AfterRun = "cleanup"
    BY <1>8, <2>1, <2>2 DEF RunCompletes, RunRaises, Consume, Promise!Next, Promise!Leave
  <2>3. CASE AfterRun = "loop"
    BY <1>8, <2>1, <2>3 DEF RunCompletes, RunRaises, Consume, Promise!Next, Promise!Settle
  <2>. QED
    BY <2>2, <2>3 DEF AfterRun
<1>9. CASE RunDeferred
  <2>1. Running /\ RunPaths = pending /\ pending # {}
    BY <1>9 DEF RunDeferred, IInv, WorkIsReal, CarriesTheUnion
  <2>2. CASE AfterRun = "cleanup"
    BY <1>9, <2>1, <2>2 DEF RunDeferred, Promise!Next, Promise!Leave
  <2>3. CASE AfterRun = "loop"
    BY <1>9, <2>1, <2>3 DEF RunDeferred, Promise!Next, Promise!PutBack
  <2>. QED
    BY <2>2, <2>3 DEF AfterRun
<1>10. CASE CleanUp
  BY <1>10 DEF CleanUp
<1>11. CASE Tick
  BY <1>11 DEF Tick
<1>12. CASE UNCHANGED vars
  BY <1>12 DEF vars
<1>. QED
  BY <1>1, <1>2, <1>3, <1>4, <1>5, <1>6, <1>7, <1>8, <1>9, <1>10, <1>11, <1>12
  DEF Next, Environment, LoopThread, RunEnds, Promise!Next

(***************************************************************************)
(* The trigger loop implements OwedWork: for every set of paths, no        *)
(* interleaving of source threads, bursts, cancellations, deferrals and    *)
(* stops loses an accepted trigger while the engine is up.                 *)
(***************************************************************************)
THEOREM LoopKeepsPromise == Spec => KeepsPromise
BY PromiseInit, PromiseStep, Inductive, PTL DEF Spec, KeepsPromise, Promise!Spec
=============================================================================
