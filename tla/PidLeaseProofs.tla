--------------------------- MODULE PidLeaseProofs ---------------------------
(***************************************************************************)
(* One engine at a time until a gap opens, for any number of processes on  *)
(* any hosts; what a stop removes stays removed, and what beats in time    *)
(* keeps its lease, whatever else happens.                                 *)
(***************************************************************************)
EXTENDS PidLease, TLAPS

USE LeaseAssumption

Judged  == {"reclaims", "retries", "fills", "writes"}
Locking == {"creates", "reclaims", "retries", "fills", "unlinks"}
Live    == {"up", "hurries", "drops"}

\* The fleet's starts and removals exclude each other; daemons take no lock.
LockHeld ==
  \A p \in Proc :
    /\ pc[p] \in Locking => kind = "fleet" /\ mutex = p
    /\ pc[p] = "drops" /\ kind = "fleet" => mutex = p
    /\ pc[p] = "writes" => kind = "daemon"

\* What does not run does not beat, and what starts is not in the pidfile.
Unborn ==
  \A p \in Proc :
    /\ pc[p] \in Absent \union Starting => beat[p] = "off"
    /\ pc[p] \in Starting => by # p

\* A stop that waits for its heartbeat leaves none, and what has removed its record
\* has no renewal in hand.
Stopped ==
  amiss \intersect {"slow", "hurry"} = {} =>
    \A p \in Proc :
      /\ pc[p] \in {"removes", "unlinks", "exits"} => beat[p] = "off"
      /\ pc[p] = "dies" => beat[p] # "renews"
      /\ pc[p] \in {"exits", "gone", "dies", "cut"} => by # p

\* A beat is due before the lease of a recorded engine is over.
InTime ==
  amiss \intersect {"misses", "read", "slow", "once"} = {} =>
    \A p \in Proc : pc[p] = "up" /\ by = p =>
      /\ lease >= 1
      /\ beat[p] = "waits" => lease >= 2
      /\ beat[p] = "off" => kind = "fleet" /\ p \in Once

Local == TypeOK /\ LockHeld /\ Unborn /\ Stopped /\ InTime

\* An engine that has not removed its pidfile is in it, and its beats are in time.
BeatsInTime ==
  \A p \in Proc :
    /\ pc[p] \in Live => by = p /\ lease >= 1
    /\ pc[p] \in Live /\ beat[p] = "off" => pc[p] = "up" /\ kind = "fleet" /\ p \in Once
    /\ pc[p] \in Live /\ beat[p] = "waits" => lease >= 2
    /\ beat[p] \in {"due", "renews"} /\ pc[p] # "dies" => by = p /\ lease >= 1
    /\ beat[p] # "off" => pc[p] \in {"stops", "dies"} \union Live

\* Whoever found the pidfile stale or missing is the only engine about.
FoundNobody ==
  \A p, q \in Proc :
    pc[p] \in Judged =>
      /\ pc[q] \notin Live
      /\ beat[q] \in {"due", "renews"} => pc[q] = "dies"
      /\ kind = "daemon" => pc[q] \notin {"stops", "removes"}

\* What the pidfile holds at the steps that rely on it.
FileKnown ==
  \A p \in Proc :
    /\ pc[p] = "fills" => by = "empty"
    /\ pc[p] = "retries" => by = NoFile
    /\ pc[p] = "unlinks" => by = p

\* Daemons start one at a time, on this host, and keep their record to the end.
DaemonsInTurn ==
  kind = "daemon" =>
    /\ \A p, q \in Proc : pc[p] \in Starting /\ pc[q] \in Starting => p = q
    /\ \A p \in Proc : Running(p) => p \notin Remote
    /\ by \in Proc => by \notin Remote
    /\ \A p \in Proc : pc[p] \in {"stops", "removes"} => by = p

Orderly == BeatsInTime /\ FoundNobody /\ FileKnown /\ DaemonsInTurn

Inv == Local /\ (amiss = {} => Orderly)

\* The variables keep their types: every step.
LEMMA TypeStep == TypeOK /\ [Next]_vars => TypeOK'
<1> SUFFICES ASSUME TypeOK, [Next]_vars PROVE TypeOK'
  OBVIOUS
<1> USE DEF TypeOK, Absent, Starting, Leaving, Hurried, LeaseBeats, Goto, Gaps
<1>1. CASE Tick BY <1>1 DEF Tick, Beating
<1>2. ASSUME NEW p \in Proc, Start(p) \/ Beat(p) \/ End(p) PROVE TypeOK'
  <2>1. CASE Launch(p) BY <2>1 DEF Launch, Notes
  <2>2. CASE Look(p) BY <2>2 DEF Look, MayJudgeAlive, JudgedAlive, SameHost
  <2>3. CASE Write(p) BY <2>3 DEF Write, Starts, Record
  <2>4. CASE Take(p) BY <2>4 DEF Take
  <2>5. CASE Create(p) BY <2>5 DEF Create
  <2>6. CASE Refuse(p) BY <2>6 DEF Refuse, Released
  <2>7. CASE FindStale(p) BY <2>7 DEF FindStale, JudgedAlive, SameHost
  <2>8. CASE Reclaim(p) BY <2>8 DEF Reclaim
  <2>9. CASE Fill(p) BY <2>9 DEF Fill, Starts, Record, Released
  <2>10. CASE BeatReads(p) BY <2>10 DEF BeatReads
  <2>11. CASE BeatReadFails(p) BY <2>11 DEF BeatReadFails, Notes
  <2>12. CASE BeatWrites(p) BY <2>12 DEF BeatWrites, Record
  <2>13. CASE BeatWriteFails(p) BY <2>13 DEF BeatWriteFails, Notes
  <2>14. CASE BeatEnds(p) BY <2>14 DEF BeatEnds
  <2>15. CASE Stop(p) BY <2>15 DEF Stop
  <2>16. CASE JoinBeat(p) BY <2>16 DEF JoinBeat, Notes
  <2>17. CASE DaemonRemoves(p) BY <2>17 DEF DaemonRemoves
  <2>18. CASE FleetRemoves(p)
    <3>1. pc' \in [Proc -> Absent \union Starting \union {"up"} \union Leaving \union Hurried]
      BY <2>18 DEF FleetRemoves
    <3>2. mutex' \in Proc \union {Nobody}
      BY <2>18 DEF FleetRemoves
    <3>3. amiss' \in {amiss, amiss \union {}, amiss \union {"namesake"}, amiss \union {"hurry"}}
      BY <2>18, Zenon DEF FleetRemoves, Notes
    <3> QED BY <2>18, <3>1, <3>2, <3>3 DEF FleetRemoves
  <2>19. CASE Unlinks(p) BY <2>19 DEF Unlinks, Released
  <2>20. CASE Exit(p) BY <2>20 DEF Exit
  <2>21. CASE Kill(p) BY <2>21 DEF Kill, Released
  <2>22. CASE StopNow(p) BY <2>22 DEF StopNow
  <2>23. CASE HurriedLook(p)
    <3>1. pc' \in [Proc -> Absent \union Starting \union {"up"} \union Leaving \union Hurried]
      BY <2>23 DEF HurriedLook
    <3>2. mutex' \in Proc \union {Nobody}
      BY <2>23 DEF HurriedLook
    <3>3. amiss' \in {amiss, amiss \union {}, amiss \union {"namesake"}, amiss \union {"hurry"}}
      BY <2>23, Zenon DEF HurriedLook, Notes
    <3> QED BY <2>23, <3>1, <3>2, <3>3 DEF HurriedLook
  <2>24. CASE HurriedUnlink(p) BY <2>24 DEF HurriedUnlink, Released, Notes
  <2> QED
    BY <1>2, <2>1, <2>2, <2>3, <2>4, <2>5, <2>6, <2>7, <2>8, <2>9, <2>10, <2>11, <2>12,
       <2>13, <2>14, <2>15, <2>16, <2>17, <2>18, <2>19, <2>20, <2>21, <2>22, <2>23, <2>24
    DEF Start, Beat, End
<1>3. CASE UNCHANGED vars BY <1>3 DEF vars
<1> QED BY <1>1, <1>2, <1>3 DEF Next

\* Every step keeps the pidfile lock with the fleet that is in it.
LEMMA LockStep == TypeOK /\ LockHeld /\ [Next]_vars => LockHeld'
<1> SUFFICES ASSUME TypeOK, LockHeld, [Next]_vars PROVE LockHeld'
  OBVIOUS
<1> USE DEF TypeOK, Absent, Starting, Leaving, Hurried, LeaseBeats, Goto, LockHeld, Locking
<1>1. CASE Tick BY <1>1 DEF Tick, Beating
<1>2. ASSUME NEW p \in Proc, Start(p) \/ Beat(p) \/ End(p) PROVE LockHeld'
  <2>1. CASE Launch(p) BY <2>1 DEF Launch, Notes
  <2>2. CASE Look(p) BY <2>2 DEF Look, MayJudgeAlive, JudgedAlive, SameHost
  <2>3. CASE Write(p) BY <2>3 DEF Write, Starts, Record
  <2>4. CASE Take(p) BY <2>4 DEF Take
  <2>5. CASE Create(p) BY <2>5 DEF Create
  <2>6. CASE Refuse(p) BY <2>6 DEF Refuse, Released
  <2>7. CASE FindStale(p) BY <2>7 DEF FindStale, JudgedAlive, SameHost
  <2>8. CASE Reclaim(p) BY <2>8 DEF Reclaim
  <2>9. CASE Fill(p) BY <2>9 DEF Fill, Starts, Record, Released
  <2>10. CASE BeatReads(p) BY <2>10 DEF BeatReads
  <2>11. CASE BeatReadFails(p) BY <2>11 DEF BeatReadFails, Notes
  <2>12. CASE BeatWrites(p) BY <2>12 DEF BeatWrites, Record
  <2>13. CASE BeatWriteFails(p) BY <2>13 DEF BeatWriteFails, Notes
  <2>14. CASE BeatEnds(p) BY <2>14 DEF BeatEnds
  <2>15. CASE Stop(p) BY <2>15 DEF Stop
  <2>16. CASE JoinBeat(p) BY <2>16 DEF JoinBeat, Notes
  <2>17. CASE DaemonRemoves(p) BY <2>17 DEF DaemonRemoves
  <2>18. CASE FleetRemoves(p) BY <2>18 DEF FleetRemoves, ReadsOwnPid, Notes
  <2>19. CASE Unlinks(p) BY <2>19 DEF Unlinks, Released
  <2>20. CASE Exit(p) BY <2>20 DEF Exit
  <2>21. CASE Kill(p) BY <2>21 DEF Kill, Released
  <2>22. CASE StopNow(p) BY <2>22 DEF StopNow
  <2>23. CASE HurriedLook(p) BY <2>23 DEF HurriedLook, ReadsOwnPid, Notes
  <2>24. CASE HurriedUnlink(p) BY <2>24 DEF HurriedUnlink, Released, Notes
  <2> QED
    BY <1>2, <2>1, <2>2, <2>3, <2>4, <2>5, <2>6, <2>7, <2>8, <2>9, <2>10, <2>11, <2>12,
       <2>13, <2>14, <2>15, <2>16, <2>17, <2>18, <2>19, <2>20, <2>21, <2>22, <2>23, <2>24
    DEF Start, Beat, End
<1>3. CASE UNCHANGED vars BY <1>3 DEF vars
<1> QED BY <1>1, <1>2, <1>3 DEF Next

\* A process is recorded by its own start and its own beats alone.
LEMMA UnbornStep == TypeOK /\ Unborn /\ [Next]_vars => Unborn'
<1> SUFFICES ASSUME TypeOK, Unborn, [Next]_vars PROVE Unborn'
  OBVIOUS
<1> USE DEF TypeOK, Absent, Starting, Leaving, Hurried, LeaseBeats, Goto, Unborn, Running
<1>1. CASE Tick BY <1>1 DEF Tick, Beating
<1>2. ASSUME NEW p \in Proc, Start(p) \/ Beat(p) \/ End(p) PROVE Unborn'
  <2>1. CASE Launch(p) BY <2>1 DEF Launch, Notes
  <2>2. CASE Look(p) BY <2>2 DEF Look, MayJudgeAlive, JudgedAlive, SameHost
  <2>3. CASE Write(p) BY <2>3 DEF Write, Starts, Record
  <2>4. CASE Take(p) BY <2>4 DEF Take
  <2>5. CASE Create(p) BY <2>5 DEF Create
  <2>6. CASE Refuse(p) BY <2>6 DEF Refuse, Released
  <2>7. CASE FindStale(p) BY <2>7 DEF FindStale, JudgedAlive, SameHost
  <2>8. CASE Reclaim(p) BY <2>8 DEF Reclaim
  <2>9. CASE Fill(p) BY <2>9 DEF Fill, Starts, Record, Released
  <2>10. CASE BeatReads(p) BY <2>10 DEF BeatReads
  <2>11. CASE BeatReadFails(p) BY <2>11 DEF BeatReadFails, Notes
  <2>12. CASE BeatWrites(p) BY <2>12 DEF BeatWrites, Record
  <2>13. CASE BeatWriteFails(p) BY <2>13 DEF BeatWriteFails, Notes
  <2>14. CASE BeatEnds(p) BY <2>14 DEF BeatEnds
  <2>15. CASE Stop(p) BY <2>15 DEF Stop
  <2>16. CASE JoinBeat(p) BY <2>16 DEF JoinBeat, Notes
  <2>17. CASE DaemonRemoves(p) BY <2>17 DEF DaemonRemoves
  <2>18. CASE FleetRemoves(p) BY <2>18 DEF FleetRemoves, ReadsOwnPid, Notes
  <2>19. CASE Unlinks(p) BY <2>19 DEF Unlinks, Released
  <2>20. CASE Exit(p) BY <2>20 DEF Exit
  <2>21. CASE Kill(p) BY <2>21 DEF Kill, Released
  <2>22. CASE StopNow(p) BY <2>22 DEF StopNow
  <2>23. CASE HurriedLook(p) BY <2>23 DEF HurriedLook, ReadsOwnPid, Notes
  <2>24. CASE HurriedUnlink(p) BY <2>24 DEF HurriedUnlink, Released, Notes
  <2> QED
    BY <1>2, <2>1, <2>2, <2>3, <2>4, <2>5, <2>6, <2>7, <2>8, <2>9, <2>10, <2>11, <2>12,
       <2>13, <2>14, <2>15, <2>16, <2>17, <2>18, <2>19, <2>20, <2>21, <2>22, <2>23, <2>24
    DEF Start, Beat, End
<1>3. CASE UNCHANGED vars BY <1>3 DEF vars
<1> QED BY <1>1, <1>2, <1>3 DEF Next

\* No step that waits for the heartbeat leaves a renewal that writes the record back.
LEMMA StoppedStep == TypeOK /\ Unborn /\ Stopped /\ [Next]_vars => Stopped'
<1> SUFFICES ASSUME TypeOK, Unborn, Stopped, [Next]_vars PROVE Stopped'
  OBVIOUS
<1> USE DEF TypeOK, Absent, Starting, Leaving, Hurried, LeaseBeats, Goto, Unborn, Stopped
<1>1. CASE Tick BY <1>1 DEF Tick, Beating
<1>2. ASSUME NEW p \in Proc, Start(p) \/ Beat(p) \/ End(p) PROVE Stopped'
  <2>1. CASE Launch(p) BY <2>1 DEF Launch, Notes
  <2>2. CASE Look(p) BY <2>2 DEF Look, MayJudgeAlive, JudgedAlive, SameHost
  <2>3. CASE Write(p) BY <2>3 DEF Write, Starts, Record
  <2>4. CASE Take(p) BY <2>4 DEF Take
  <2>5. CASE Create(p) BY <2>5 DEF Create
  <2>6. CASE Refuse(p) BY <2>6 DEF Refuse, Released
  <2>7. CASE FindStale(p) BY <2>7 DEF FindStale, JudgedAlive, SameHost
  <2>8. CASE Reclaim(p) BY <2>8 DEF Reclaim
  <2>9. CASE Fill(p) BY <2>9 DEF Fill, Starts, Record, Released
  <2>10. CASE BeatReads(p) BY <2>10 DEF BeatReads
  <2>11. CASE BeatReadFails(p) BY <2>11 DEF BeatReadFails, Notes
  <2>12. CASE BeatWrites(p) BY <2>12 DEF BeatWrites, Record
  <2>13. CASE BeatWriteFails(p) BY <2>13 DEF BeatWriteFails, Notes
  <2>14. CASE BeatEnds(p) BY <2>14 DEF BeatEnds
  <2>15. CASE Stop(p) BY <2>15 DEF Stop
  <2>16. CASE JoinBeat(p) BY <2>16 DEF JoinBeat, Notes
  <2>17. CASE DaemonRemoves(p) BY <2>17 DEF DaemonRemoves
  <2>18. CASE FleetRemoves(p) BY <2>18 DEF FleetRemoves, ReadsOwnPid, Notes
  <2>19. CASE Unlinks(p) BY <2>19 DEF Unlinks, Released
  <2>20. CASE Exit(p) BY <2>20 DEF Exit
  <2>21. CASE Kill(p) BY <2>21 DEF Kill, Released
  <2>22. CASE StopNow(p) BY <2>22 DEF StopNow
  <2>23. CASE HurriedLook(p) BY <2>23 DEF HurriedLook, ReadsOwnPid, Notes
  <2>24. CASE HurriedUnlink(p) BY <2>24 DEF HurriedUnlink, Released, Notes
  <2> QED
    BY <1>2, <2>1, <2>2, <2>3, <2>4, <2>5, <2>6, <2>7, <2>8, <2>9, <2>10, <2>11, <2>12,
       <2>13, <2>14, <2>15, <2>16, <2>17, <2>18, <2>19, <2>20, <2>21, <2>22, <2>23, <2>24
    DEF Start, Beat, End
<1>3. CASE UNCHANGED vars BY <1>3 DEF vars
<1> QED BY <1>1, <1>2, <1>3 DEF Next

\* Every step keeps the beats of a recorded engine ahead of its lease.
LEMMA TimeStep == TypeOK /\ Unborn /\ InTime /\ [Next]_vars => InTime'
<1> SUFFICES ASSUME TypeOK, Unborn, InTime, [Next]_vars PROVE InTime'
  OBVIOUS
<1> USE DEF TypeOK, Absent, Starting, Leaving, Hurried, LeaseBeats, Goto, Unborn, InTime
<1>1. CASE Tick BY <1>1 DEF Tick, Beating
<1>2. ASSUME NEW p \in Proc, Start(p) \/ Beat(p) \/ End(p) PROVE InTime'
  <2>1. CASE Launch(p) BY <2>1 DEF Launch, Notes
  <2>2. CASE Look(p) BY <2>2 DEF Look, MayJudgeAlive, JudgedAlive, SameHost
  <2>3. CASE Write(p) BY <2>3 DEF Write, Starts, Record
  <2>4. CASE Take(p) BY <2>4 DEF Take
  <2>5. CASE Create(p) BY <2>5 DEF Create
  <2>6. CASE Refuse(p) BY <2>6 DEF Refuse, Released
  <2>7. CASE FindStale(p) BY <2>7 DEF FindStale, JudgedAlive, SameHost
  <2>8. CASE Reclaim(p) BY <2>8 DEF Reclaim
  <2>9. CASE Fill(p) BY <2>9 DEF Fill, Starts, Record, Released
  <2>10. CASE BeatReads(p) BY <2>10 DEF BeatReads
  <2>11. CASE BeatReadFails(p) BY <2>11 DEF BeatReadFails, Notes
  <2>12. CASE BeatWrites(p) BY <2>12 DEF BeatWrites, Record
  <2>13. CASE BeatWriteFails(p) BY <2>13 DEF BeatWriteFails, Notes
  <2>14. CASE BeatEnds(p) BY <2>14 DEF BeatEnds
  <2>15. CASE Stop(p) BY <2>15 DEF Stop
  <2>16. CASE JoinBeat(p) BY <2>16 DEF JoinBeat, Notes
  <2>17. CASE DaemonRemoves(p) BY <2>17 DEF DaemonRemoves
  <2>18. CASE FleetRemoves(p) BY <2>18 DEF FleetRemoves, ReadsOwnPid, Notes
  <2>19. CASE Unlinks(p) BY <2>19 DEF Unlinks, Released
  <2>20. CASE Exit(p) BY <2>20 DEF Exit
  <2>21. CASE Kill(p) BY <2>21 DEF Kill, Released
  <2>22. CASE StopNow(p) BY <2>22 DEF StopNow
  <2>23. CASE HurriedLook(p) BY <2>23 DEF HurriedLook, ReadsOwnPid, Notes
  <2>24. CASE HurriedUnlink(p) BY <2>24 DEF HurriedUnlink, Released, Notes
  <2> QED
    BY <1>2, <2>1, <2>2, <2>3, <2>4, <2>5, <2>6, <2>7, <2>8, <2>9, <2>10, <2>11, <2>12,
       <2>13, <2>14, <2>15, <2>16, <2>17, <2>18, <2>19, <2>20, <2>21, <2>22, <2>23, <2>24
    DEF Start, Beat, End
<1>3. CASE UNCHANGED vars BY <1>3 DEF vars
<1> QED BY <1>1, <1>2, <1>3 DEF Next

\* No step closes a gap.
LEMMA GapsStay == [Next]_vars => amiss \subseteq amiss'
BY DEF Next, vars, Tick, Start, Beat, End, Notes, Launch, Look, Write, Take, Create, Refuse,
       FindStale, Reclaim, Fill, BeatReads, BeatReadFails, BeatWrites, BeatWriteFails, BeatEnds,
       Stop, JoinBeat, DaemonRemoves, FleetRemoves, Unlinks, Exit, Kill, StopNow, HurriedLook,
       HurriedUnlink

\* Every step that opens no gap keeps the engines in the pidfile and their beats in time.
LEMMA BeatStep == Local /\ Orderly /\ amiss = {} /\ amiss' = {} /\ [Next]_vars => BeatsInTime'
<1> SUFFICES ASSUME Local, Orderly, amiss = {}, amiss' = {}, [Next]_vars PROVE BeatsInTime'
  OBVIOUS
<1> USE DEF TypeOK, Absent, Starting, Leaving, Hurried, LeaseBeats, Goto, Local, Orderly, LockHeld, Unborn, Stopped, BeatsInTime, FoundNobody, FileKnown,
           DaemonsInTurn, Locking, Judged, Live, Running
<1>1. CASE Tick BY <1>1 DEF Tick, Beating
<1>2. ASSUME NEW p \in Proc, Start(p) \/ Beat(p) \/ End(p) PROVE BeatsInTime'
  <2>1. CASE Launch(p) BY <2>1 DEF Launch, Notes
  <2>2. CASE Look(p) BY <2>2 DEF Look, MayJudgeAlive, JudgedAlive, SameHost
  <2>3. CASE Write(p) BY <2>3 DEF Write, Starts, Record
  <2>4. CASE Take(p) BY <2>4 DEF Take
  <2>5. CASE Create(p) BY <2>5 DEF Create
  <2>6. CASE Refuse(p) BY <2>6 DEF Refuse, Released
  <2>7. CASE FindStale(p) BY <2>7 DEF FindStale, JudgedAlive, SameHost
  <2>8. CASE Reclaim(p) BY <2>8 DEF Reclaim
  <2>9. CASE Fill(p) BY <2>9 DEF Fill, Starts, Record, Released
  <2>10. CASE BeatReads(p) BY <2>10 DEF BeatReads
  <2>11. CASE BeatReadFails(p) BY <2>11 DEF BeatReadFails, Notes
  <2>12. CASE BeatWrites(p) BY <2>12 DEF BeatWrites, Record
  <2>13. CASE BeatWriteFails(p) BY <2>13 DEF BeatWriteFails, Notes
  <2>14. CASE BeatEnds(p) BY <2>14 DEF BeatEnds
  <2>15. CASE Stop(p) BY <2>15 DEF Stop
  <2>16. CASE JoinBeat(p) BY <2>16 DEF JoinBeat, Notes
  <2>17. CASE DaemonRemoves(p) BY <2>17 DEF DaemonRemoves
  <2>18. CASE FleetRemoves(p) BY <2>18 DEF FleetRemoves, ReadsOwnPid, Notes
  <2>19. CASE Unlinks(p) BY <2>19 DEF Unlinks, Released
  <2>20. CASE Exit(p) BY <2>20 DEF Exit
  <2>21. CASE Kill(p) BY <2>21 DEF Kill, Released
  <2>22. CASE StopNow(p) BY <2>22 DEF StopNow
  <2>23. CASE HurriedLook(p) BY <2>23 DEF HurriedLook, ReadsOwnPid, Notes
  <2>24. CASE HurriedUnlink(p) BY <2>24 DEF HurriedUnlink, Released, Notes
  <2> QED
    BY <1>2, <2>1, <2>2, <2>3, <2>4, <2>5, <2>6, <2>7, <2>8, <2>9, <2>10, <2>11, <2>12,
       <2>13, <2>14, <2>15, <2>16, <2>17, <2>18, <2>19, <2>20, <2>21, <2>22, <2>23, <2>24
    DEF Start, Beat, End
<1>3. CASE UNCHANGED vars BY <1>3 DEF vars
<1> QED BY <1>1, <1>2, <1>3 DEF Next

\* No step that opens no gap starts an engine behind the back of one that found nobody.
LEMMA FoundStep == Local /\ Orderly /\ amiss = {} /\ amiss' = {} /\ [Next]_vars => FoundNobody'
<1> SUFFICES ASSUME Local, Orderly, amiss = {}, amiss' = {}, [Next]_vars PROVE FoundNobody'
  OBVIOUS
<1> USE DEF TypeOK, Absent, Starting, Leaving, Hurried, LeaseBeats, Goto, Local, Orderly, LockHeld, Unborn, Stopped, BeatsInTime, FoundNobody, FileKnown,
           DaemonsInTurn, Locking, Judged, Live, Running
<1>1. CASE Tick BY <1>1 DEF Tick, Beating
<1>2. ASSUME NEW p \in Proc, Start(p) \/ Beat(p) \/ End(p) PROVE FoundNobody'
  <2>1. CASE Launch(p) BY <2>1 DEF Launch, Notes
  <2>2. CASE Look(p) BY <2>2 DEF Look, MayJudgeAlive, JudgedAlive, SameHost
  <2>3. CASE Write(p) BY <2>3 DEF Write, Starts, Record
  <2>4. CASE Take(p) BY <2>4 DEF Take
  <2>5. CASE Create(p) BY <2>5 DEF Create
  <2>6. CASE Refuse(p) BY <2>6 DEF Refuse, Released
  <2>7. CASE FindStale(p) BY <2>7 DEF FindStale, JudgedAlive, SameHost
  <2>8. CASE Reclaim(p) BY <2>8 DEF Reclaim
  <2>9. CASE Fill(p) BY <2>9 DEF Fill, Starts, Record, Released
  <2>10. CASE BeatReads(p) BY <2>10 DEF BeatReads
  <2>11. CASE BeatReadFails(p) BY <2>11 DEF BeatReadFails, Notes
  <2>12. CASE BeatWrites(p) BY <2>12 DEF BeatWrites, Record
  <2>13. CASE BeatWriteFails(p) BY <2>13 DEF BeatWriteFails, Notes
  <2>14. CASE BeatEnds(p) BY <2>14 DEF BeatEnds
  <2>15. CASE Stop(p) BY <2>15 DEF Stop
  <2>16. CASE JoinBeat(p) BY <2>16 DEF JoinBeat, Notes
  <2>17. CASE DaemonRemoves(p) BY <2>17 DEF DaemonRemoves
  <2>18. CASE FleetRemoves(p) BY <2>18 DEF FleetRemoves, ReadsOwnPid, Notes
  <2>19. CASE Unlinks(p) BY <2>19 DEF Unlinks, Released
  <2>20. CASE Exit(p) BY <2>20 DEF Exit
  <2>21. CASE Kill(p) BY <2>21 DEF Kill, Released
  <2>22. CASE StopNow(p) BY <2>22 DEF StopNow
  <2>23. CASE HurriedLook(p) BY <2>23 DEF HurriedLook, ReadsOwnPid, Notes
  <2>24. CASE HurriedUnlink(p) BY <2>24 DEF HurriedUnlink, Released, Notes
  <2> QED
    BY <1>2, <2>1, <2>2, <2>3, <2>4, <2>5, <2>6, <2>7, <2>8, <2>9, <2>10, <2>11, <2>12,
       <2>13, <2>14, <2>15, <2>16, <2>17, <2>18, <2>19, <2>20, <2>21, <2>22, <2>23, <2>24
    DEF Start, Beat, End
<1>3. CASE UNCHANGED vars BY <1>3 DEF vars
<1> QED BY <1>1, <1>2, <1>3 DEF Next

\* No such step changes the pidfile behind the back of one that relies on it.
LEMMA FileStep == Local /\ Orderly /\ amiss = {} /\ amiss' = {} /\ [Next]_vars => FileKnown'
<1> SUFFICES ASSUME Local, Orderly, amiss = {}, amiss' = {}, [Next]_vars PROVE FileKnown'
  OBVIOUS
<1> USE DEF TypeOK, Absent, Starting, Leaving, Hurried, LeaseBeats, Goto, Local, Orderly, LockHeld, Unborn, Stopped, BeatsInTime, FoundNobody, FileKnown,
           DaemonsInTurn, Locking, Judged, Live, Running
<1>1. CASE Tick BY <1>1 DEF Tick, Beating
<1>2. ASSUME NEW p \in Proc, Start(p) \/ Beat(p) \/ End(p) PROVE FileKnown'
  <2>1. CASE Launch(p) BY <2>1 DEF Launch, Notes
  <2>2. CASE Look(p) BY <2>2 DEF Look, MayJudgeAlive, JudgedAlive, SameHost
  <2>3. CASE Write(p) BY <2>3 DEF Write, Starts, Record
  <2>4. CASE Take(p) BY <2>4 DEF Take
  <2>5. CASE Create(p) BY <2>5 DEF Create
  <2>6. CASE Refuse(p) BY <2>6 DEF Refuse, Released
  <2>7. CASE FindStale(p) BY <2>7 DEF FindStale, JudgedAlive, SameHost
  <2>8. CASE Reclaim(p) BY <2>8 DEF Reclaim
  <2>9. CASE Fill(p) BY <2>9 DEF Fill, Starts, Record, Released
  <2>10. CASE BeatReads(p) BY <2>10 DEF BeatReads
  <2>11. CASE BeatReadFails(p) BY <2>11 DEF BeatReadFails, Notes
  <2>12. CASE BeatWrites(p) BY <2>12 DEF BeatWrites, Record
  <2>13. CASE BeatWriteFails(p) BY <2>13 DEF BeatWriteFails, Notes
  <2>14. CASE BeatEnds(p) BY <2>14 DEF BeatEnds
  <2>15. CASE Stop(p) BY <2>15 DEF Stop
  <2>16. CASE JoinBeat(p) BY <2>16 DEF JoinBeat, Notes
  <2>17. CASE DaemonRemoves(p) BY <2>17 DEF DaemonRemoves
  <2>18. CASE FleetRemoves(p) BY <2>18 DEF FleetRemoves, ReadsOwnPid, Notes
  <2>19. CASE Unlinks(p) BY <2>19 DEF Unlinks, Released
  <2>20. CASE Exit(p) BY <2>20 DEF Exit
  <2>21. CASE Kill(p) BY <2>21 DEF Kill, Released
  <2>22. CASE StopNow(p) BY <2>22 DEF StopNow
  <2>23. CASE HurriedLook(p) BY <2>23 DEF HurriedLook, ReadsOwnPid, Notes
  <2>24. CASE HurriedUnlink(p) BY <2>24 DEF HurriedUnlink, Released, Notes
  <2> QED
    BY <1>2, <2>1, <2>2, <2>3, <2>4, <2>5, <2>6, <2>7, <2>8, <2>9, <2>10, <2>11, <2>12,
       <2>13, <2>14, <2>15, <2>16, <2>17, <2>18, <2>19, <2>20, <2>21, <2>22, <2>23, <2>24
    DEF Start, Beat, End
<1>3. CASE UNCHANGED vars BY <1>3 DEF vars
<1> QED BY <1>1, <1>2, <1>3 DEF Next

\* Daemons keep starting in turn and keep their records.
LEMMA TurnStep == Local /\ Orderly /\ amiss = {} /\ amiss' = {} /\ [Next]_vars => DaemonsInTurn'
<1> SUFFICES ASSUME Local, Orderly, amiss = {}, amiss' = {}, [Next]_vars PROVE DaemonsInTurn'
  OBVIOUS
<1> USE DEF TypeOK, Absent, Starting, Leaving, Hurried, LeaseBeats, Goto, Local, Orderly, LockHeld, Unborn, Stopped, BeatsInTime, FoundNobody, FileKnown,
           DaemonsInTurn, Locking, Judged, Live, Running
<1>1. CASE Tick BY <1>1 DEF Tick, Beating
<1>2. ASSUME NEW p \in Proc, Start(p) \/ Beat(p) \/ End(p) PROVE DaemonsInTurn'
  <2>1. CASE Launch(p) BY <2>1 DEF Launch, Notes
  <2>2. CASE Look(p) BY <2>2 DEF Look, MayJudgeAlive, JudgedAlive, SameHost
  <2>3. CASE Write(p) BY <2>3 DEF Write, Starts, Record
  <2>4. CASE Take(p) BY <2>4 DEF Take
  <2>5. CASE Create(p) BY <2>5 DEF Create
  <2>6. CASE Refuse(p) BY <2>6 DEF Refuse, Released
  <2>7. CASE FindStale(p) BY <2>7 DEF FindStale, JudgedAlive, SameHost
  <2>8. CASE Reclaim(p) BY <2>8 DEF Reclaim
  <2>9. CASE Fill(p) BY <2>9 DEF Fill, Starts, Record, Released
  <2>10. CASE BeatReads(p) BY <2>10 DEF BeatReads
  <2>11. CASE BeatReadFails(p) BY <2>11 DEF BeatReadFails, Notes
  <2>12. CASE BeatWrites(p) BY <2>12 DEF BeatWrites, Record
  <2>13. CASE BeatWriteFails(p) BY <2>13 DEF BeatWriteFails, Notes
  <2>14. CASE BeatEnds(p) BY <2>14 DEF BeatEnds
  <2>15. CASE Stop(p) BY <2>15 DEF Stop
  <2>16. CASE JoinBeat(p) BY <2>16 DEF JoinBeat, Notes
  <2>17. CASE DaemonRemoves(p) BY <2>17 DEF DaemonRemoves
  <2>18. CASE FleetRemoves(p) BY <2>18 DEF FleetRemoves, ReadsOwnPid, Notes
  <2>19. CASE Unlinks(p) BY <2>19 DEF Unlinks, Released
  <2>20. CASE Exit(p) BY <2>20 DEF Exit
  <2>21. CASE Kill(p) BY <2>21 DEF Kill, Released
  <2>22. CASE StopNow(p) BY <2>22 DEF StopNow
  <2>23. CASE HurriedLook(p) BY <2>23 DEF HurriedLook, ReadsOwnPid, Notes
  <2>24. CASE HurriedUnlink(p) BY <2>24 DEF HurriedUnlink, Released, Notes
  <2> QED
    BY <1>2, <2>1, <2>2, <2>3, <2>4, <2>5, <2>6, <2>7, <2>8, <2>9, <2>10, <2>11, <2>12,
       <2>13, <2>14, <2>15, <2>16, <2>17, <2>18, <2>19, <2>20, <2>21, <2>22, <2>23, <2>24
    DEF Start, Beat, End
<1>3. CASE UNCHANGED vars BY <1>3 DEF vars
<1> QED BY <1>1, <1>2, <1>3 DEF Next

----------------------------------------------------------------------------
(* The theorems *)

\* Before anything starts the invariant holds.
LEMMA InvInit == Init => Inv
BY DEF Init, Inv, Local, Orderly, TypeOK, LockHeld, Unborn, Stopped, InTime, BeatsInTime, FoundNobody,
       FileKnown, DaemonsInTurn, Absent, Starting, Leaving, Locking, Judged, Live, LeaseBeats, Running

\* Every step keeps it.
LEMMA InvStep == Inv /\ [Next]_vars => Inv'
<1> SUFFICES ASSUME Inv, [Next]_vars PROVE Inv'
  OBVIOUS
<1>1. Local'
  BY TypeStep, LockStep, UnbornStep, StoppedStep, TimeStep DEF Inv, Local
<1>2. ASSUME amiss' = {} PROVE Orderly'
  <2>1. amiss = {} BY <1>2, GapsStay
  <2> QED BY <1>2, <2>1, BeatStep, FoundStep, FileStep, TurnStep DEF Inv, Orderly
<1> QED BY <1>1, <1>2 DEF Inv

\* The variables of PidLease keep their types, whatever starts together or fails.
THEOREM TypeCorrect == Spec => []TypeOK
<1>1. Inv => TypeOK
  BY DEF Inv, Local
<1> QED BY InvInit, InvStep, <1>1, PTL DEF Spec

\* Until a gap opens one engine runs, for any processes, pids and hosts.
THEOREM OneEngineRuns == Spec => []OneEngine
<1>1. Inv => OneEngine
  BY DEF Inv, Orderly, BeatsInTime, Live, OneEngine
<1> QED BY InvInit, InvStep, <1>1, PTL DEF Spec

\* Until a gap opens an engine that runs is the one its pidfile names: nothing that
\* ends slowly, is cut short or beats late takes the record away.
THEOREM PidfileNamesTheEngine == Spec => []RunningIsRecorded
<1>1. Inv => RunningIsRecorded
  BY DEF Inv, Orderly, BeatsInTime, Live, RunningIsRecorded
<1> QED BY InvInit, InvStep, <1>1, PTL DEF Spec

\* The lease of a recorded engine that runs has not expired, one failed renewal in a
\* row allowed, whatever namesakes, hurried stops or starts at once do to others.
THEOREM LeaseOutlivesOneMiss == Spec => []LeaseHeld
<1>1. Inv => LeaseHeld
  BY DEF Inv, Local, InTime, LeaseHeld, TypeOK, LeaseBeats
<1> QED BY InvInit, InvStep, <1>1, PTL DEF Spec

\* A pidfile that its owner removed is not written again by the owner's beat, if the
\* stop waited for the beat or none was in hand, whatever else goes wrong.
THEOREM RemovedStaysRemoved == Spec => []CleanExit
<1>1. Inv => CleanExit
  BY DEF Inv, Local, Stopped, CleanExit
<1> QED BY InvInit, InvStep, <1>1, PTL DEF Spec
=============================================================================
