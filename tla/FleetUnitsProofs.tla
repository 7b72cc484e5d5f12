-------------------------- MODULE FleetUnitsProofs --------------------------
(* The fleet runs one engine per project, for any names and projects. *)
EXTENDS FleetUnits, FiniteSetTheorems, TLAPS

\* No two names of one registry stand for the same project.
Distinct(map) == \A m, n \in Name : map[m] = map[n] /\ map[m] # NoRoot => m = n
OneNameEach   == \A map \in Registries : Distinct(map)

Going == pc \notin {"leaves", "exited"}

\* The names a loop has left are those of units, or of projects to be started.
LeftNamed ==
  /\ pc \in {"stops", "ends"} => todo \subseteq Placed(units)
  /\ pc \in {"begins", "once"} => todo \subseteq Placed(desired)

\* reconcile stops every unit that is not desired before it starts one, and the
\* end of the run stops them all.
Reconciled ==
  /\ pc = "stops" => \A n \in Name \ todo : units[n] \in {NoRoot, desired[n]}
  /\ pc = "begins" => \A n \in todo : units[n] = NoRoot
  /\ pc = "begins" => \A n \in Name \ todo : units[n] = desired[n]
  /\ pc = "ends" => \A n \in Name \ todo : units[n] = NoRoot

\* Two units have two projects.
Apart == Distinct(units) /\ Distinct(desired)

\* A thread that runs is that of a unit, or the one of a once-run.
ThreadsKnown ==
  /\ mode = "once" => pc \in {"reads", "once", "exited"} /\ signals = 0
  /\ mode = "service" => pc # "once"
  /\ \A t \in Thread : Alive(t) /\ Going =>
       IF mode = "service" THEN units[t[1]] = t[2]
       ELSE pc = "once" /\ t[1] \in todo /\ desired[t[1]] = t[2]
  /\ mode = "once" => \A t, u \in Thread : Alive(t) /\ Alive(u) => t = u

\* A pidfile of the fleet is that of a thread that runs.
Recorded ==
  Going => \A r \in Root : pidfile[r] \in Thread =>
             pidfile[r][2] = r /\ thread[pidfile[r]] \in {"up", "removes"}

\* A pidfile names the engine that runs, and no engine runs without one.
Claimed ==
  Going =>
    /\ \A t \in Thread : thread[t] \in {"up", "removes"} => pidfile[t[2]] = t
    /\ \A r \in others :
         /\ pidfile[r] = Other
         /\ \A t \in Thread : t[2] = r => thread[t] \notin {"writes", "up", "removes"}

\* The fleet's pidfile goes when all is over.
ReleasedLast ==
  /\ fleetfile = "none" => ~Going
  /\ pc = "leaves" => signals = 2
  /\ NothingLeftBehind

Inv  == TypeOK /\ LeftNamed /\ Reconciled /\ ThreadsKnown /\ Recorded /\ ReleasedLast
IInv == Inv /\ Apart /\ Claimed

\* A pass of reconcile leaves the units of the registry it read, and no thread
\* but theirs goes on, however units died while it ran.
ReconcileFollows ==
  [][Sleeps => /\ units = desired
               /\ \A t \in Thread : Alive(t) => desired[t[1]] = t[2]]_vars

-----------------------------------------------------------------------------
\* The variables keep their types: every step.
LEMMA TypeStep ==
  ASSUME TypeOK, LeftNamed, [Next]_vars PROVE TypeOK'
<1> USE FleetAssumption DEF TypeOK, LeftNamed, Running, Thread, Placed, Of, Moves, world, mainVars
<1>1. CASE Reads BY <1>1 DEF Reads, Desired
<1>2. CASE Stopped BY <1>2 DEF Stopped
<1>3. CASE Sleeps \/ Waits \/ Wakes \/ Raises BY <1>3 DEF Sleeps, Waits, Wakes, Raises, Goes, Nowhere
<1>4. CASE AsksAll BY <1>4 DEF AsksAll
<1>5. CASE Releases BY <1>5 DEF Releases
<1>6. CASE Exits BY <1>6 DEF Exits
<1>7. ASSUME NEW n \in Name, Keeps(n) PROVE TypeOK' BY <1>7 DEF Keeps, Looking
<1>8. ASSUME NEW n \in Name, Asks(n) PROVE TypeOK' BY <1>8 DEF Asks, Looking
<1>9. ASSUME NEW n \in Name, Stops(n) PROVE TypeOK' BY <1>9 DEF Stops
<1>10. ASSUME NEW n \in Name, Begins(n) PROVE TypeOK' BY <1>10 DEF Begins
<1>11. ASSUME NEW n \in Name, OnceBegins(n) PROVE TypeOK' BY <1>11 DEF OnceBegins
<1>12. ASSUME NEW n \in Name, OnceEnds(n) PROVE TypeOK' BY <1>12 DEF OnceEnds
<1>13. CASE RequestStop BY <1>13 DEF RequestStop
<1>14. CASE FirstSignal BY <1>14 DEF FirstSignal
<1>15. CASE StopNow BY <1>15 DEF StopNow
<1>16. ASSUME NEW t \in Thread, Looks(t) PROVE TypeOK' BY <1>16 DEF Looks
<1>17. ASSUME NEW t \in Thread, Writes(t) PROVE TypeOK' BY <1>17 DEF Writes
<1>18. ASSUME NEW t \in Thread, Ends(t) PROVE TypeOK' BY <1>18 DEF Ends
<1>19. ASSUME NEW t \in Thread, Removes(t) PROVE TypeOK' BY <1>19 DEF Removes
<1>20. ASSUME NEW t \in Thread, Dies(t) PROVE TypeOK' BY <1>20 DEF Dies
<1>21. ASSUME NEW r \in Root, OtherStarts(r) PROVE TypeOK' BY <1>21 DEF OtherStarts
<1>22. ASSUME NEW r \in Root, OtherEnds(r) PROVE TypeOK' BY <1>22 DEF OtherEnds
<1>23. CASE Edit BY <1>23 DEF Edit
<1>24. CASE UNCHANGED vars BY <1>24 DEF vars
<1> QED
  BY <1>1, <1>2, <1>3, <1>4, <1>5, <1>6, <1>7, <1>8, <1>9, <1>10, <1>11, <1>12, <1>13, <1>14,
     <1>15, <1>16, <1>17, <1>18, <1>19, <1>20, <1>21, <1>22, <1>23, <1>24
  DEF Next, Main, Unit, World

\* A loop has names left that it can work on.
LEMMA LeftStep ==
  ASSUME TypeOK, LeftNamed, [Next]_vars PROVE LeftNamed'
<1> USE FleetAssumption DEF TypeOK, LeftNamed, Placed, world, mainVars
<1>1. CASE Reads BY <1>1 DEF Reads, Desired
<1>2. CASE Stopped BY <1>2 DEF Stopped
<1>3. CASE Sleeps \/ Waits \/ Wakes \/ Raises BY <1>3 DEF Sleeps, Waits, Wakes, Raises, Goes, Nowhere
<1>4. CASE AsksAll BY <1>4 DEF AsksAll
<1>5. CASE Releases BY <1>5 DEF Releases
<1>6. CASE Exits BY <1>6 DEF Exits
<1>7. ASSUME NEW n \in Name, Keeps(n) PROVE LeftNamed' BY <1>7 DEF Keeps, Looking
<1>8. ASSUME NEW n \in Name, Asks(n) PROVE LeftNamed' BY <1>8 DEF Asks, Looking
<1>9. ASSUME NEW n \in Name, Stops(n) PROVE LeftNamed' BY <1>9 DEF Stops
<1>10. ASSUME NEW n \in Name, Begins(n) PROVE LeftNamed' BY <1>10 DEF Begins
<1>11. ASSUME NEW n \in Name, OnceBegins(n) PROVE LeftNamed' BY <1>11 DEF OnceBegins
<1>12. ASSUME NEW n \in Name, OnceEnds(n) PROVE LeftNamed' BY <1>12 DEF OnceEnds
<1>13. CASE RequestStop BY <1>13 DEF RequestStop
<1>14. CASE FirstSignal BY <1>14 DEF FirstSignal
<1>15. CASE StopNow BY <1>15 DEF StopNow
<1>16. ASSUME NEW t \in Thread, Looks(t) PROVE LeftNamed' BY <1>16 DEF Looks
<1>17. ASSUME NEW t \in Thread, Writes(t) PROVE LeftNamed' BY <1>17 DEF Writes
<1>18. ASSUME NEW t \in Thread, Ends(t) PROVE LeftNamed' BY <1>18 DEF Ends
<1>19. ASSUME NEW t \in Thread, Removes(t) PROVE LeftNamed' BY <1>19 DEF Removes
<1>20. ASSUME NEW t \in Thread, Dies(t) PROVE LeftNamed' BY <1>20 DEF Dies
<1>21. ASSUME NEW r \in Root, OtherStarts(r) PROVE LeftNamed' BY <1>21 DEF OtherStarts
<1>22. ASSUME NEW r \in Root, OtherEnds(r) PROVE LeftNamed' BY <1>22 DEF OtherEnds
<1>23. CASE Edit BY <1>23 DEF Edit
<1>24. CASE UNCHANGED vars BY <1>24 DEF vars
<1> QED
  BY <1>1, <1>2, <1>3, <1>4, <1>5, <1>6, <1>7, <1>8, <1>9, <1>10, <1>11, <1>12, <1>13, <1>14,
     <1>15, <1>16, <1>17, <1>18, <1>19, <1>20, <1>21, <1>22, <1>23, <1>24
  DEF Next, Main, Unit, World

-----------------------------------------------------------------------------
Threads == \/ \E t \in Thread : Unit(t) \/ Dies(t)
           \/ \E r \in Root : OtherStarts(r) \/ OtherEnds(r)

\* Every unit that stays is desired, and all are stopped in the end: every step.
LEMMA ReconciledStep ==
  ASSUME TypeOK, LeftNamed, Reconciled, [Next]_vars PROVE Reconciled'
<1> USE FleetAssumption DEF TypeOK, LeftNamed, Reconciled, Placed, mainVars, world
<1>1. CASE Reads BY <1>1 DEF Reads
<1>2. CASE Stopped BY <1>2 DEF Stopped
<1>3. CASE Sleeps \/ Waits \/ Wakes \/ Raises
  BY <1>3 DEF Sleeps, Waits, Wakes, Raises, Goes, Nowhere
<1>4. CASE AsksAll BY <1>4 DEF AsksAll
<1>5. CASE Releases \/ Exits \/ StopNow BY <1>5 DEF Releases, Exits, StopNow
<1>6. ASSUME NEW n \in Name, Keeps(n) PROVE Reconciled' BY <1>6 DEF Keeps, Looking
<1>7. ASSUME NEW n \in Name, Stops(n) PROVE Reconciled' BY <1>7 DEF Stops
<1>8. ASSUME NEW n \in Name, Begins(n) PROVE Reconciled' BY <1>8 DEF Begins
<1>9. ASSUME NEW n \in Name, OnceEnds(n) PROVE Reconciled' BY <1>9 DEF OnceEnds
<1>10. CASE RequestStop \/ FirstSignal BY <1>10 DEF RequestStop, FirstSignal
<1>11. CASE UNCHANGED <<pc, desired, todo, units>> BY <1>11
<1>12. CASE (\E n \in Name : Asks(n) \/ OnceBegins(n)) \/ Threads \/ Edit \/ UNCHANGED vars
  BY <1>11, <1>12
  DEF Asks, OnceBegins, Threads, Unit, Looks, Writes, Ends, Removes, Dies, OtherStarts, OtherEnds,
      Edit, vars
<1> QED
  BY <1>1, <1>2, <1>3, <1>4, <1>5, <1>6, <1>7, <1>8, <1>9, <1>10, <1>12
  DEF Next, Main, World, Threads

\* Two units have two projects: every step.
LEMMA ApartStep ==
  ASSUME OneNameEach, TypeOK, Reconciled, Apart, [Next]_vars PROVE Apart'
<1> USE FleetAssumption DEF TypeOK, Reconciled, Apart, Distinct, mainVars, world
<1>1. CASE Reads
  <2>1. Distinct(Desired) BY DEF Desired, OneNameEach
  <2> QED BY <1>1, <2>1 DEF Reads
<1>2. CASE Sleeps \/ Waits \/ Wakes \/ Raises
  BY <1>2 DEF Sleeps, Waits, Wakes, Raises, Goes, Nowhere
<1>3. ASSUME NEW n \in Name, Stops(n) PROVE Apart' BY <1>3 DEF Stops
<1>4. ASSUME NEW n \in Name, Begins(n) PROVE Apart' BY <1>4 DEF Begins
<1>5. CASE UNCHANGED <<desired, units>> BY <1>5
<1>6. CASE \/ Stopped \/ AsksAll \/ Releases \/ Exits \/ StopNow \/ RequestStop \/ FirstSignal
           \/ \E n \in Name : Keeps(n) \/ Asks(n) \/ OnceBegins(n) \/ OnceEnds(n)
  BY <1>5, <1>6 DEF Stopped, AsksAll, Releases, Exits, StopNow, RequestStop, FirstSignal, Keeps,
                    Asks, OnceBegins, OnceEnds
<1>7. CASE Threads \/ Edit \/ UNCHANGED vars
  BY <1>5, <1>7
  DEF Threads, Unit, Looks, Writes, Ends, Removes, Dies, OtherStarts, OtherEnds, Edit, vars
<1> QED BY <1>1, <1>2, <1>3, <1>4, <1>6, <1>7 DEF Next, Main, World, Threads

\* A thread that runs belongs to a unit: every step.
LEMMA ThreadsStep ==
  ASSUME TypeOK, LeftNamed, Reconciled, ThreadsKnown, [Next]_vars PROVE ThreadsKnown'
<1> USE FleetAssumption DEF TypeOK, LeftNamed, Reconciled, ThreadsKnown, Going, Alive, Running,
                            Thread, Placed, Of, Moves, mainVars, world
<1>1. CASE Reads BY <1>1 DEF Reads, Desired
<1>2. CASE Stopped BY <1>2 DEF Stopped
<1>3. CASE Sleeps \/ Waits \/ Wakes \/ Raises
  BY <1>3 DEF Sleeps, Waits, Wakes, Raises, Goes, Nowhere
<1>4. CASE AsksAll BY <1>4 DEF AsksAll
<1>5. CASE Releases BY <1>5 DEF Releases
<1>6. CASE Exits BY <1>6 DEF Exits
<1>7. ASSUME NEW n \in Name, Keeps(n) PROVE ThreadsKnown' BY <1>7 DEF Keeps, Looking
<1>8. ASSUME NEW n \in Name, Asks(n) PROVE ThreadsKnown' BY <1>8 DEF Asks, Looking
<1>9. ASSUME NEW n \in Name, Stops(n) PROVE ThreadsKnown' BY <1>9 DEF Stops
<1>10. ASSUME NEW n \in Name, Begins(n) PROVE ThreadsKnown' BY <1>10 DEF Begins
<1>11. ASSUME NEW n \in Name, OnceBegins(n) PROVE ThreadsKnown' BY <1>11 DEF OnceBegins
<1>12. ASSUME NEW n \in Name, OnceEnds(n) PROVE ThreadsKnown' BY <1>12 DEF OnceEnds
<1>13. CASE RequestStop \/ FirstSignal BY <1>13 DEF RequestStop, FirstSignal
<1>14. CASE StopNow BY <1>14 DEF StopNow
<1>15. ASSUME NEW t \in Thread, Looks(t) \/ Writes(t) \/ Ends(t) \/ Removes(t) \/ Dies(t)
       PROVE ThreadsKnown'
  <2>1. /\ Alive(t) /\ UNCHANGED <<mode, mainVars>>
        /\ \A u \in Thread : u # t => thread'[u] = thread[u]
    BY <1>15 DEF Looks, Writes, Ends, Removes, Dies
  <2> QED BY <2>1
<1>16. CASE (\E r \in Root : OtherStarts(r) \/ OtherEnds(r)) \/ Edit \/ UNCHANGED vars
  BY <1>16 DEF OtherStarts, OtherEnds, Edit, vars
<1> QED
  BY <1>1, <1>2, <1>3, <1>4, <1>5, <1>6, <1>7, <1>8, <1>9, <1>10, <1>11, <1>12, <1>13, <1>14,
     <1>15, <1>16
  DEF Next, Main, Unit, World

\* A pidfile of the fleet is that of a thread that runs: every step.
LEMMA RecordedStep ==
  ASSUME TypeOK, Reconciled, ThreadsKnown, Recorded, [Next]_vars PROVE Recorded'
<1> SUFFICES ASSUME Going' PROVE Recorded'
  BY DEF Recorded
<1> USE FleetAssumption DEF TypeOK, Recorded, Running, Thread, Moves, mainVars, world
<1>1. CASE UNCHANGED <<thread, pidfile>> /\ Going BY <1>1
<1>2. CASE Reads \/ Stopped \/ Sleeps \/ Waits \/ Wakes \/ Raises \/ AsksAll
  BY <1>1, <1>2 DEF Reads, Stopped, Sleeps, Waits, Wakes, Raises, AsksAll, Goes, Going
<1>3. CASE Releases \/ Exits \/ StopNow
  BY <1>3 DEF Releases, Exits, StopNow, Going
<1>4. ASSUME NEW n \in Name, Keeps(n) \/ Asks(n) \/ Stops(n) \/ OnceEnds(n) PROVE Recorded'
  BY <1>1, <1>4 DEF Keeps, Asks, Stops, OnceEnds, Looking, Going
<1>5. ASSUME NEW n \in Name, Begins(n) PROVE Recorded'
  <2>1. ~Alive(<<n, desired[n]>>) \/ <<n, desired[n]>> \notin Thread
    BY <1>5 DEF Begins, ThreadsKnown, Reconciled, Alive, Going
  <2> QED BY <1>5, <2>1 DEF Begins, Going, Alive
<1>6. ASSUME NEW n \in Name, OnceBegins(n) PROVE Recorded'
  BY <1>6 DEF OnceBegins, Going
<1>7. CASE RequestStop \/ FirstSignal BY <1>1, <1>7 DEF RequestStop, FirstSignal, Going
<1>8. ASSUME NEW t \in Thread, Looks(t) \/ Ends(t) \/ Dies(t) PROVE Recorded'
  BY <1>8 DEF Looks, Ends, Dies, Going
<1>9. ASSUME NEW t \in Thread, Writes(t) PROVE Recorded' BY <1>9 DEF Writes, Going
<1>10. ASSUME NEW t \in Thread, Removes(t) PROVE Recorded' BY <1>10 DEF Removes, Going
<1>11. ASSUME NEW r \in Root, OtherStarts(r) \/ OtherEnds(r) PROVE Recorded'
  BY <1>11 DEF OtherStarts, OtherEnds, Going
<1>12. CASE Edit \/ UNCHANGED vars BY <1>1, <1>12 DEF Edit, vars, Going
<1> QED
  BY <1>2, <1>3, <1>4, <1>5, <1>6, <1>7, <1>8, <1>9, <1>10, <1>11, <1>12
  DEF Next, Main, Unit, World

\* Two threads that run have two projects.
LEMMA OnePerRoot ==
  ASSUME TypeOK, Apart, ThreadsKnown, Going,
         NEW t \in Thread, NEW u \in Thread, Alive(t), Alive(u), t[2] = u[2]
  PROVE t = u
<1> USE FleetAssumption DEF TypeOK, Thread
<1>1. CASE mode = "once" BY <1>1 DEF ThreadsKnown
<1>2. CASE mode = "service"
  <2>1. units[t[1]] = t[2] /\ units[u[1]] = u[2] BY <1>2 DEF ThreadsKnown
  <2>2. t[1] = u[1] BY <2>1 DEF Apart, Distinct
  <2> QED BY <2>2
<1> QED BY <1>1, <1>2

\* A pidfile names the engine that runs: every step.
LEMMA ClaimedStep ==
  ASSUME TypeOK, Reconciled, Apart, ThreadsKnown, Recorded, Claimed, [Next]_vars PROVE Claimed'
<1> SUFFICES ASSUME Going' PROVE Claimed'
  BY DEF Claimed
<1> DEFINE Keeping == UNCHANGED <<thread, pidfile, others>>
<1> USE FleetAssumption DEF TypeOK, Claimed, Running, Thread, Moves, mainVars, world
<1>1. CASE Keeping /\ Going BY <1>1
<1>2. CASE Reads \/ Stopped \/ Sleeps \/ Waits \/ Wakes \/ Raises \/ AsksAll
  BY <1>1, <1>2 DEF Reads, Stopped, Sleeps, Waits, Wakes, Raises, AsksAll, Goes, Going
<1>3. CASE Releases \/ Exits \/ StopNow
  BY <1>3 DEF Releases, Exits, StopNow, Going
<1>4. ASSUME NEW n \in Name, Keeps(n) \/ Asks(n) \/ Stops(n) \/ OnceEnds(n) PROVE Claimed'
  BY <1>1, <1>4 DEF Keeps, Asks, Stops, OnceEnds, Looking, Going
<1>5. ASSUME NEW n \in Name, Begins(n) PROVE Claimed'
  <2>1. ~Alive(<<n, desired[n]>>) \/ <<n, desired[n]>> \notin Thread
    BY <1>5 DEF Begins, ThreadsKnown, Reconciled, Alive, Going
  <2> QED BY <1>5, <2>1 DEF Begins, Going, Alive
<1>6. ASSUME NEW n \in Name, OnceBegins(n) PROVE Claimed'
  BY <1>6 DEF OnceBegins, Going
<1>7. CASE RequestStop \/ FirstSignal BY <1>1, <1>7 DEF RequestStop, FirstSignal, Going
<1>8. ASSUME NEW t \in Thread, Looks(t) PROVE Claimed'
  BY <1>8 DEF Looks, JudgedAlive, Going
<1>9. ASSUME NEW t \in Thread, Writes(t) PROVE Claimed'
  <2>1. Alive(t) /\ Going BY <1>9 DEF Writes, Alive, Going
  <2>2. ASSUME NEW u \in Thread, u # t, Alive(u) PROVE u[2] # t[2]
    BY <2>1, <2>2, OnePerRoot
  <2>3. \A r \in others : r # t[2] BY <1>9, <2>1 DEF Writes
  <2> QED BY <1>9, <2>1, <2>2, <2>3 DEF Writes, Alive
<1>10. ASSUME NEW t \in Thread, Ends(t) \/ Dies(t) PROVE Claimed'
  BY <1>10 DEF Ends, Dies, Going
<1>11. ASSUME NEW t \in Thread, Removes(t) PROVE Claimed'
  <2>1. Alive(t) /\ Going BY <1>11 DEF Removes, Alive, Going
  <2>2. ASSUME NEW u \in Thread, u # t, Alive(u) PROVE u[2] # t[2]
    BY <2>1, <2>2, OnePerRoot
  <2>3. \A r \in others : r # t[2] BY <1>11, <2>1 DEF Removes
  <2> QED BY <1>11, <2>1, <2>2, <2>3 DEF Removes, Alive
<1>12. ASSUME NEW r \in Root, OtherStarts(r) PROVE Claimed'
  BY <1>12 DEF OtherStarts, JudgedAlive, Going
<1>13. ASSUME NEW r \in Root, OtherEnds(r) PROVE Claimed'
  BY <1>13 DEF OtherEnds, Going
<1>14. CASE Edit \/ UNCHANGED vars BY <1>1, <1>14 DEF Edit, vars, Going
<1> QED
  BY <1>2, <1>3, <1>4, <1>5, <1>6, <1>7, <1>8, <1>9, <1>10, <1>11, <1>12, <1>13, <1>14
  DEF Next, Main, Unit, World

\* The fleet's pidfile goes when all is over: every step.
LEMMA ReleasedStep ==
  ASSUME TypeOK, Reconciled, ThreadsKnown, Recorded, ReleasedLast, [Next]_vars
  PROVE ReleasedLast'
<1> USE FleetAssumption DEF TypeOK, ReleasedLast, NothingLeftBehind, Alive, Running, Thread, Going,
                            mainVars, world
<1>1. CASE Releases
  <2>1. \A t \in Thread : ~Alive(t) BY <1>1 DEF Releases, Reconciled, ThreadsKnown
  <2>2. \A r \in Root : pidfile[r] \notin Thread BY <1>1, <2>1 DEF Releases, Recorded
  <2> QED BY <1>1, <2>1, <2>2 DEF Releases
<1>2. CASE StopNow BY <1>2 DEF StopNow
<1>3. CASE Exits BY <1>3 DEF Exits
<1>4. CASE \/ Reads \/ Stopped \/ Sleeps \/ Waits \/ Wakes \/ Raises \/ AsksAll \/ RequestStop
           \/ FirstSignal
  BY <1>4 DEF Reads, Stopped, Sleeps, Waits, Wakes, Raises, AsksAll, Goes, RequestStop, FirstSignal
<1>5. ASSUME NEW n \in Name, Keeps(n) \/ Asks(n) \/ Stops(n) \/ Begins(n) \/ OnceBegins(n)
                             \/ OnceEnds(n)
      PROVE ReleasedLast'
  BY <1>5 DEF Keeps, Asks, Stops, Begins, OnceBegins, OnceEnds, Looking
<1>6. CASE pc # "exited" /\ (Threads \/ Edit)
  BY <1>6 DEF Threads, Unit, Looks, Writes, Ends, Removes, Dies, OtherStarts, OtherEnds, Edit
<1>7. CASE UNCHANGED vars BY <1>7 DEF vars
<1> QED BY <1>1, <1>2, <1>3, <1>4, <1>5, <1>6, <1>7 DEF Next, Main, Unit, World, Threads

-----------------------------------------------------------------------------
\* What holds at the start.
LEMMA Starting == Init => IInv
<1> SUFFICES ASSUME Init PROVE IInv
  OBVIOUS
<1> USE FleetAssumption DEF Init, Nowhere, Thread, Running
<1>1. TypeOK BY DEF TypeOK
<1>2. LeftNamed /\ Reconciled /\ Apart BY DEF LeftNamed, Reconciled, Apart, Distinct
<1>3. ThreadsKnown BY DEF ThreadsKnown, Alive
<1>4. Recorded /\ Claimed BY DEF Recorded, Claimed
<1>5. ReleasedLast BY DEF ReleasedLast, NothingLeftBehind, Going
<1> QED BY <1>1, <1>2, <1>3, <1>4, <1>5 DEF IInv, Inv

\* What holds whatever the registries are, and what holds when their names have
\* projects of their own, at every step.
LEMMA InvStep == Inv /\ [Next]_vars => Inv'
BY TypeStep, LeftStep, ReconciledStep, ThreadsStep, RecordedStep, ReleasedStep DEF Inv

LEMMA IInvStep == OneNameEach /\ IInv /\ [Next]_vars => IInv'
BY InvStep, ApartStep, ClaimedStep DEF IInv, Inv

\* One engine per project is a consequence.
LEMMA OneIsUp == IInv => OneEnginePerProject
<1> SUFFICES ASSUME IInv, Going, NEW r \in Root
             PROVE LET up == {t \in Thread : t[2] = r /\ thread[t] \in {"up", "removes"}} IN
                   /\ Cardinality(up) + Cardinality(others \intersect {r}) <= 1
                   /\ \A t \in up : pidfile[r] = t
                   /\ r \in others => pidfile[r] = Other
  BY DEF OneEnginePerProject, Going
<1> DEFINE up == {t \in Thread : t[2] = r /\ thread[t] \in {"up", "removes"}}
<1> USE DEF IInv, Inv
<1>1. \A t, u \in up : t = u BY OnePerRoot DEF Alive, Running
<1>2. up = {} \/ \E t \in up : up = {t} BY <1>1
<1>3. Cardinality(up) \in {0, 1} BY <1>2, FS_EmptySet, FS_Singleton
<1>4. r \in others => up = {} BY DEF Claimed
<1>5. others \intersect {r} = IF r \in others THEN {r} ELSE {} OBVIOUS
<1>6. Cardinality(up) + Cardinality(others \intersect {r}) <= 1
  <2>1. CASE r \in others
    <3>1. Cardinality(up) = 0 BY <1>4, <2>1, FS_EmptySet
    <3>2. Cardinality(others \intersect {r}) = 1 BY <1>5, <2>1, FS_Singleton
    <3> QED BY <3>1, <3>2
  <2>2. CASE r \notin others
    <3>1. Cardinality(others \intersect {r}) = 0 BY <1>5, <2>2, FS_EmptySet
    <3> QED BY <1>3, <3>1
  <2> QED BY <2>1, <2>2
<1>7. (\A t \in up : pidfile[r] = t) /\ (r \in others => pidfile[r] = Other) BY DEF Claimed
<1> QED BY <1>6, <1>7

-----------------------------------------------------------------------------
\* The fleet's variables keep their types, for any registries.
THEOREM TypeCorrect == Spec => []TypeOK
<1>1. Init => Inv BY Starting DEF IInv
<1>2. Inv => TypeOK BY DEF Inv
<1> QED BY <1>1, <1>2, InvStep, PTL DEF Spec

\* When the fleet's pidfile is released without a second signal, no unit runs and
\* none has left a pidfile: for any registries, even those in which two names
\* stand for one project, however units die and signals arrive.
THEOREM UnitsEndFirst == Spec => []NothingLeftBehind
<1>1. Init => Inv BY Starting DEF IInv
<1>2. Inv => NothingLeftBehind BY DEF Inv, ReleasedLast
<1> QED BY <1>1, <1>2, InvStep, PTL DEF Spec

\* When a pass of reconcile is over, its units are those of the registry as it
\* read it, and the thread of a unit that was dropped, or that moved to another
\* project, has ended: for any registries.
THEOREM RegistryIsReconciled == Spec => ReconcileFollows
<1>1. Init => Inv BY Starting DEF IInv
<1>2. ASSUME Inv, Sleeps
      PROVE units = desired /\ \A t \in Thread : Alive(t) => desired[t[1]] = t[2]
  <2>1. pc = "begins" /\ todo = {} BY <1>2 DEF Sleeps, Goes
  <2>2. \A n \in Name : units[n] = desired[n] BY <1>2, <2>1 DEF Inv, Reconciled
  <2>3. units = desired BY <1>2, <2>2 DEF Inv, TypeOK
  <2>4. mode = "service" BY <1>2, <2>1 DEF Inv, ThreadsKnown, TypeOK
  <2>5. \A t \in Thread : Alive(t) => units[t[1]] = t[2]
    BY <1>2, <2>1, <2>4 DEF Inv, ThreadsKnown, Going
  <2> QED BY <2>3, <2>5
<1> QED BY <1>1, <1>2, InvStep, PTL DEF Spec, ReconcileFollows

\* One engine runs on a project and its pidfile names it, for any names and
\* projects and any number of edits, if no registry gives two names one project.
THEOREM OneEngineEach == OneNameEach => (Spec => []OneEnginePerProject)
<1> SUFFICES ASSUME OneNameEach PROVE Spec => []OneEnginePerProject
  OBVIOUS
<1>1. IInv /\ [Next]_vars => IInv' BY IInvStep
<1> QED BY <1>1, Starting, OneIsUp, PTL DEF Spec
=============================================================================
