----------------------------- MODULE DaemonLoop -----------------------------
(***************************************************************************)
(* The trigger loop of one engine (engine/daemon.py): source threads post  *)
(* triggers onto the asyncio queue, the drain loop coalesces bursts into   *)
(* one debounced task, the task runs the pipeline on the loop thread,      *)
(* a run that finds the compile lock held is deferred behind a doubling    *)
(* back-off, and a shutdown drains what is left into one final run.        *)
(*                                                                         *)
(* The loop thread is the only writer of everything but posted, stop and   *)
(* sigPending; its program counter pc says which synchronous stretch of    *)
(* code it is in, and an action is a stretch without an await.             *)
(***************************************************************************)
EXTENDS Naturals

CONSTANTS Path,        \* source paths a trigger can name
          NoPath,      \* stands for a trigger with no changed_paths
          Debounce,    \* the debounce sleep, in ticks
          DeferStart,  \* DEFER_BACKOFF_START, in ticks
          DeferMax     \* DEFER_BACKOFF_MAX, in ticks

ASSUME DaemonLoopAssumption ==
  /\ NoPath \notin Path
  /\ Debounce \in Nat
  /\ DeferStart \in Nat \ {0}
  /\ DeferMax \in Nat
  /\ DeferStart <= DeferMax

Item == Path \union {NoPath}

VARIABLES
  mode,         \* "once": run(once=True), one bounded drain; else "service"
  pc,           \* where the loop thread is
  stop,         \* _stop_event
  stopRequests, \* _stop_requests: shutdown signals handled
  sigPending,   \* signals in the wake-up pipe, not yet handled by the loop
  posted,       \* triggers past enqueue's guard whose put_nowait has not run
  queue,        \* the asyncio queue
  pending,      \* pending_paths / run_pending of _drain_loop
  task,         \* the debounce task
  carried,      \* the paths the debounce task was created with
  runKind,      \* who called _run_pipeline last
  result,       \* what the last _run_pipeline reported
  debounceLeft, \* what remains of the task's debounce sleep
  deferLeft,    \* _defer_until - now
  deferDelay,   \* _defer_delay
  sinceDefer    \* history: ticks since the last deferral, saturating

deferVars == <<deferLeft, deferDelay, sinceDefer>>
stopVars  == <<stop, stopRequests, sigPending>>
taskVars  == <<task, carried, debounceLeft>>
runVars   == <<runKind, result>>
vars == <<mode, pc, stopVars, posted, queue, pending, taskVars, runVars, deferVars>>

PC == {"loop", "leave", "await", "decide", "run", "cleanup", "exited"}

TypeOK ==
  /\ mode \in {"once", "service"} /\ stop \in BOOLEAN
  /\ pc \in PC
  /\ stopRequests \in 0..2 /\ sigPending \in 0..2
  /\ posted \subseteq Item /\ queue \subseteq Item
  /\ pending \subseteq Item /\ carried \subseteq Item
  /\ task \in {"none", "waiting"}
  /\ runKind \in {"task", "final"} /\ result \in {"ran", "deferred"}
  /\ debounceLeft \in 0..Debounce
  /\ deferLeft \in 0..DeferMax /\ deferDelay \in 0..DeferMax
  /\ sinceDefer \in 0..DeferMax

Once == mode = "once"

\* once=True starts with the single manual trigger already in its task.
Init ==
  /\ mode \in {"once", "service"}
  /\ pc = "loop"
  /\ stop = FALSE /\ stopRequests = 0 /\ sigPending = 0
  /\ posted = {} /\ queue = {}
  /\ pending = IF Once THEN {NoPath} ELSE {}
  /\ carried = pending
  /\ task = IF Once THEN "waiting" ELSE "none"
  /\ debounceLeft = IF Once THEN Debounce ELSE 0
  /\ runKind = "task" /\ result = "ran"
  /\ deferLeft = 0 /\ deferDelay = 0 /\ sinceDefer = DeferMax

----------------------------------------------------------------------------
(* Source threads and signals *)

\* enqueue: dropped once the stop event is set; otherwise handed to the loop.
Enqueue(i) ==
  /\ ~Once /\ ~stop /\ pc \notin {"cleanup", "exited"}
  /\ posted' = posted \union {i}
  /\ UNCHANGED <<mode, pc, stopVars, queue, pending, taskVars, runVars, deferVars>>

\* The fleet stops a unit from another thread.
RequestStop ==
  /\ ~Once /\ ~stop /\ pc # "exited"
  /\ stop' = TRUE
  /\ UNCHANGED <<mode, pc, stopRequests, sigPending, posted, queue, pending,
                 taskVars, runVars, deferVars>>

\* A signal before the first one was handled waits in the wake-up pipe.
SignalArrives ==
  /\ ~Once /\ pc \notin {"cleanup", "exited"}
  /\ stopRequests = 0 /\ sigPending < 2
  /\ sigPending' = sigPending + 1
  /\ UNCHANGED <<mode, pc, stop, stopRequests, posted, queue, pending,
                 taskVars, runVars, deferVars>>

\* _handle_signal, delivered by the loop and so only where the loop turns.
HandleSignal ==
  /\ pc \in {"loop", "await"}
  /\ sigPending > 0
  /\ sigPending' = sigPending - 1
  /\ stopRequests' = stopRequests + 1
  /\ stop' = TRUE
  /\ UNCHANGED <<mode, pc, posted, queue, pending, taskVars, runVars, deferVars>>

\* _stop_now: the handler installed by the first signal raises SystemExit in
\* whatever the main thread is running, which unwinds straight to run's finally.
StopNow ==
  /\ stopRequests > 0 /\ pc \notin {"cleanup", "exited"}
  /\ pc' = "cleanup"
  /\ UNCHANGED <<mode, stopVars, posted, queue, pending, taskVars, runVars, deferVars>>

----------------------------------------------------------------------------
(* The drain loop *)

\* The loop runs a callback posted by call_soon_threadsafe.
PutNowait(i) ==
  /\ pc \in {"loop", "await"}
  /\ i \in posted
  /\ posted' = posted \ {i}
  /\ queue' = queue \union {i}
  /\ UNCHANGED <<mode, pc, stopVars, pending, taskVars, runVars, deferVars>>

\* Mutant: the new burst replaces what the cancelled debounce carried.
CoalescedLosing == queue

\* pending_paths.extend: what is owed is the union of what was and the burst.
Coalesced == pending \union queue

\* Mutant: the new task is created with the burst's own paths only.
BurstOwnPathsOnly ==
  /\ pc = "loop" /\ ~Once /\ queue # {}
  /\ pending' = Coalesced /\ queue' = {}
  /\ task' = "waiting" /\ carried' = queue /\ debounceLeft' = Debounce
  /\ pc' = IF stop THEN "leave" ELSE "loop"
  /\ UNCHANGED <<mode, stopVars, posted, runVars, deferVars>>

\* A trigger is there: take the whole burst, cancel the debounce in flight,
\* and schedule a fresh one that carries the union.
Burst ==
  /\ pc = "loop" /\ ~Once
  /\ queue # {}
  /\ pending' = Coalesced
  /\ queue' = {}
  /\ task' = "waiting"
  /\ carried' = Coalesced
  /\ debounceLeft' = Debounce
  /\ pc' = IF stop THEN "leave" ELSE "loop"
  /\ UNCHANGED <<mode, stopVars, posted, runVars, deferVars>>

\* _drain_loop's finally: absorb the queue, cancel the debounce; awaiting the
\* cancelled task lets the loop turn once more.
StopNoticed ==
  /\ ~Once
  /\ \/ pc = "leave"
     \/ pc = "loop" /\ stop
  /\ pending' = Coalesced
  /\ queue' = {}
  /\ pc' = IF task = "waiting" THEN "await" ELSE "decide"
  /\ UNCHANGED <<mode, stopVars, posted, taskVars, runVars, deferVars>>

TaskCancelled ==
  /\ pc = "await"
  /\ task' = "none" /\ carried' = {} /\ debounceLeft' = 0
  /\ pc' = "decide"
  /\ UNCHANGED <<mode, stopVars, posted, queue, pending, runVars, deferVars>>

----------------------------------------------------------------------------
(* _debounce_and_run and _run_pipeline *)

Tick ==
  /\ pc # "exited"
  /\ debounceLeft > 0 \/ deferLeft > 0
  /\ debounceLeft' = IF debounceLeft > 0 THEN debounceLeft - 1 ELSE 0
  /\ deferLeft' = IF deferLeft > 0 THEN deferLeft - 1 ELSE 0
  /\ sinceDefer' = IF sinceDefer < DeferMax THEN sinceDefer + 1 ELSE DeferMax
  /\ UNCHANGED <<mode, pc, stopVars, posted, queue, pending, task, carried,
                 runVars, deferDelay>>

\* Mutant: a re-scheduled task attempts at once.
BackoffOverForgotten == TRUE

\* Every attempt waits out what an earlier one deferred to; a once run does not.
BackoffOver == deferLeft = 0 \/ Once

\* The debounce is over and so is any deferral an earlier attempt left behind.
TaskRuns ==
  /\ pc = "loop" /\ task = "waiting"
  /\ debounceLeft = 0
  /\ BackoffOver
  /\ pc' = "run" /\ runKind' = "task"
  /\ UNCHANGED <<result, mode, stopVars, posted, queue, pending, taskVars, deferVars>>

\* The shutdown's last run, unless a second signal asked to skip it.
FinalRun ==
  /\ pc = "decide"
  /\ pending # {} /\ stopRequests < 2
  /\ pc' = "run" /\ runKind' = "final"
  /\ UNCHANGED <<result, mode, stopVars, posted, queue, pending, taskVars, deferVars>>

NoFinalRun ==
  /\ pc = "decide"
  /\ pending = {} \/ stopRequests > 1
  /\ pc' = "cleanup"
  /\ UNCHANGED <<mode, stopVars, posted, queue, pending, taskVars, runVars, deferVars>>

\* Mutant: a shutdown retries its final run.
AfterRunRetrying == IF Once THEN "cleanup" ELSE IF runKind = "final" THEN "decide" ELSE "loop"

\* Where the loop thread goes once _run_pipeline has returned or raised.
AfterRun == IF runKind = "final" \/ Once THEN "cleanup" ELSE "loop"

\* The attempt is over: consume the triggers and end the task.
Consume ==
  /\ pc = "run"
  /\ pending' = {}
  /\ task' = "none" /\ carried' = {} /\ debounceLeft' = 0
  /\ result' = "ran"
  /\ pc' = AfterRun
  /\ UNCHANGED <<mode, stopVars, posted, queue, runKind>>

\* The pipeline ran (a failed step included): the back-off is cleared.
RunCompletes == Consume /\ deferLeft' = 0 /\ deferDelay' = 0 /\ UNCHANGED sinceDefer

\* The pipeline raised before or outside its steps: the back-off is kept.
RunRaises == Consume /\ UNCHANGED deferVars

Doubled(d) == IF d = 0 THEN DeferStart
              ELSE IF 2 * d < DeferMax THEN 2 * d ELSE DeferMax

\* Mutant: a deferred attempt counts as an attempt and ends the task.
RunDeferredConsuming ==
  /\ pc = "run" /\ deferDelay' = Doubled(deferDelay) /\ deferLeft' = Doubled(deferDelay)
  /\ sinceDefer' = 0 /\ result' = "deferred" /\ pc' = AfterRun
  /\ pending' = {} /\ task' = "none" /\ carried' = {} /\ debounceLeft' = 0
  /\ UNCHANGED <<mode, stopVars, posted, queue, runKind>>

\* Mutant: a deferred attempt ends the task but leaves its paths pending.
RunDeferredEndingTask ==
  /\ pc = "run" /\ deferDelay' = Doubled(deferDelay) /\ deferLeft' = Doubled(deferDelay)
  /\ sinceDefer' = 0 /\ result' = "deferred" /\ pc' = AfterRun
  /\ task' = "none" /\ carried' = {} /\ debounceLeft' = 0
  /\ UNCHANGED <<mode, stopVars, posted, queue, pending, runKind>>

\* CompileLockHeldError: _defer, and the task loops round with the same paths.
\* A final or a once run is not retried.
RunDeferred ==
  /\ pc = "run"
  /\ deferDelay' = Doubled(deferDelay)
  /\ deferLeft' = Doubled(deferDelay)
  /\ sinceDefer' = 0
  /\ result' = "deferred"
  /\ pc' = AfterRun
  /\ UNCHANGED <<mode, stopVars, posted, queue, pending, taskVars, runKind>>

\* run's finally: the loop is closed and the process leaves.
CleanUp ==
  /\ pc = "cleanup"
  /\ pc' = "exited"
  /\ stop' = TRUE
  /\ posted' = {} /\ queue' = {} /\ pending' = {}
  /\ task' = "none" /\ carried' = {} /\ debounceLeft' = 0
  /\ UNCHANGED <<mode, stopRequests, sigPending, runVars, deferVars>>

----------------------------------------------------------------------------
Environment == (\E i \in Item : Enqueue(i)) \/ RequestStop \/ SignalArrives \/ StopNow

RunEnds == RunCompletes \/ RunRaises \/ RunDeferred

LoopThread ==
  \/ HandleSignal \/ Burst \/ StopNoticed \/ TaskCancelled
  \/ \E i \in Item : PutNowait(i)
  \/ TaskRuns \/ FinalRun \/ NoFinalRun \/ RunEnds \/ CleanUp

Next == Environment \/ LoopThread \/ Tick

Spec == Init /\ [][Next]_vars

(***************************************************************************)
(* Fairness.  asyncio's ready queue is first-in first-out, so whatever is  *)
(* ready when a pipeline run returns control (a posted callback, the drain *)
(* coroutine whose get or time-out fired, a signal) runs before the next   *)
(* run starts: strong fairness, since each run disables them for a while.  *)
(* _run_pipeline returns (a compile waits a bounded time for the lock) and *)
(* time passes: weak fairness.  Nothing is assumed of signals and sources. *)
(***************************************************************************)
Fairness ==
  /\ WF_vars(Tick) /\ WF_vars(TaskRuns) /\ WF_vars(RunEnds) /\ WF_vars(TaskCancelled)
  /\ WF_vars(FinalRun \/ NoFinalRun) /\ WF_vars(CleanUp)
  /\ SF_vars(HandleSignal) /\ SF_vars(Burst) /\ SF_vars(StopNoticed)
  /\ \A i \in Item : SF_vars(PutNowait(i))

FairSpec == Spec /\ Fairness

----------------------------------------------------------------------------
(* Properties *)

(***************************************************************************)
(* A debounce task that may still run carries exactly what is pending: a   *)
(* burst that cancels a debounce never drops the paths the cancelled task  *)
(* carried, and consuming them all after a run forgets no newer one        *)
(* (daemon.py, _drain_loop and its _consume).                              *)
(***************************************************************************)
CarriesTheUnion ==
  task = "waiting" /\ (pc \in {"loop", "leave"} \/ (pc = "run" /\ runKind = "task"))
    => carried = pending

(***************************************************************************)
(* No attempt of the debounce task starts before the whole back-off earned *)
(* by the last deferral has passed, whatever bursts cancelled and          *)
(* re-scheduled the task in between (daemon.py, _debounce_and_run).        *)
(***************************************************************************)
BackoffServed == [][TaskRuns /\ ~Once => sinceDefer >= deferDelay]_vars

(***************************************************************************)
(* The loop keeps the promise of OwedWork: a trigger accepted by enqueue   *)
(* is in the loop's callbacks, in the queue or pending until an attempt    *)
(* carries it; a deferred attempt gives everything back; attempts never    *)
(* overlap.                                                                *)
(***************************************************************************)
Up       == pc \notin {"cleanup", "exited"}
Running  == pc = "run"
RunPaths == IF runKind = "task" THEN carried ELSE pending

Promise == INSTANCE OwedWork WITH
  owed <- IF ~Up THEN {}
          ELSE posted \union queue \union (IF Running THEN {} ELSE pending),
  busy <- IF Running THEN RunPaths ELSE {},
  result <- result,
  up   <- Up

KeepsPromise == Promise!Spec

(***************************************************************************)
(* Once the sources are quiet and the compile lock stops being found held, *)
(* everything accepted has been carried by an attempt, or the engine is    *)
(* on its way out.  Without the quiet the debounce can be re-scheduled     *)
(* for ever (daemon.py, _drain_loop and _debounce_and_run).                *)
(***************************************************************************)
QuietlyServed ==
  /\ <>[][~\E i \in Item : Enqueue(i)]_vars
  /\ <>[][~RunDeferred]_vars
  => <>[](~Up \/ (posted \union queue \union pending = {}))

(***************************************************************************)
(* A stop that was asked for ends the process, even when every attempt     *)
(* finds the compile lock held (daemon.py, _drain_loop's finally).         *)
(***************************************************************************)
StopTerminates == stop ~> pc = "exited"
=============================================================================
