------------------------------ MODULE PidLease ------------------------------
(***************************************************************************)
(* Who runs the engine: the pidfile of a project's daemon and that of the  *)
(* fleet (engine/daemon.py, engine/fleet.py), and the lease in it that a   *)
(* heartbeat thread renews (engine/pidlock.py).  A daemon looks and then   *)
(* writes; a fleet does both under a flock.  A process here is one         *)
(* incarnation, which the recorded pid and start time identify.            *)
(*                                                                         *)
(* The code's protection has gaps that it accepts or does not notice.  A   *)
(* step that opens one is a step like any other, and `amiss' remembers it: *)
(*   "together"  two daemons start at once: each looks before either writes*)
(*   "misses"    two renewals in a row could not be written                *)
(*   "read"      a beat could not read its record, and the thread ends     *)
(*   "slow"      a beat takes longer than the time between two, or than    *)
(*               the stop that waits for it                                *)
(*   "once"      a fleet's once-run, which does not beat, outlives a lease *)
(*   "hurry"     a fleet told to stop now ends with a renewal in hand      *)
(*   "namesake"  a fleet that ends finds its pid in the record of a fleet  *)
(*               of another host, and removes it                           *)
(* The properties say what holds until then, each naming its own gaps.     *)
(***************************************************************************)
EXTENDS Naturals

CONSTANTS Proc,    \* the processes that may start
          Remote,  \* those that run on another host, which shares the home directory
          Once,    \* those started with --once
          PidOf,   \* the pid of each process
          NoFile,  \* there is no pidfile
          Nobody   \* the pidfile lock is free

\* A pid names one process of a host, but the hosts number theirs on their own.
ASSUME LeaseAssumption ==
  /\ Remote \subseteq Proc /\ Once \subseteq Proc
  /\ NoFile \notin Proc \union {"empty"} /\ Nobody \notin Proc
  /\ "empty" \notin Proc
  /\ \A p, q \in Proc : PidOf[p] = PidOf[q] /\ (p \in Remote <=> q \in Remote) => p = q

VARIABLES
  kind,   \* "daemon" or "fleet": which of the two engines this is about
  by,     \* the process the pidfile records, "empty", or NoFile
  lease,  \* the beats until lease_expires of the record, 0 when it has passed
  mutex,  \* holder of the fleet's pidfile lock
  pc,     \* of each process; "dead" after a kill
  beat,   \* of each process, its heartbeat: "off", "waits", "due", "renews"
  amiss   \* the gaps that have opened

vars == <<kind, by, lease, mutex, pc, beat, amiss>>

\* The heartbeat renews at a third of lease_ttl.
LeaseBeats == 3

Absent   == {"none", "refused", "gone", "dead", "cut"}
Starting == {"looks", "writes", "creates", "reclaims", "retries", "fills"}
Leaving  == {"stops", "removes", "unlinks", "exits"}
Hurried  == {"hurries", "drops", "dies"}
Gaps     == {"together", "misses", "read", "slow", "once", "hurry", "namesake"}

TypeOK ==
  /\ kind \in {"daemon", "fleet"}
  /\ by \in Proc \union {"empty", NoFile}
  /\ lease \in 0..LeaseBeats
  /\ mutex \in Proc \union {Nobody}
  /\ pc \in [Proc -> Absent \union Starting \union {"up"} \union Leaving \union Hurried]
  /\ beat \in [Proc -> {"off", "waits", "due", "renews"}]
  /\ amiss \subseteq Gaps

Init ==
  /\ kind \in {"daemon", "fleet"}
  /\ by = NoFile /\ lease = 0 /\ mutex = Nobody
  /\ pc = [p \in Proc |-> "none"]
  /\ beat = [p \in Proc |-> "off"]
  /\ amiss = {}

Goto(p, from, to) == pc[p] = from /\ pc' = [pc EXCEPT ![p] = to]

Running(p) == pc[p] \notin Absent

SameHost(p, q) == p \in Remote <=> q \in Remote

\* owner_is_alive: the process table of this host, or the lease of another one.
\* A record that was not filled in yet names nobody.
JudgedAlive(p) ==
  /\ by \in Proc
  /\ IF SameHost(p, by) THEN Running(by) ELSE lease > 0

\* The pid of a dead owner may belong to a process that cannot be told apart
\* from it: a start time that cannot be read, or the same command line.
MayJudgeAlive(p) == JudgedAlive(p) \/ (by \in Proc /\ SameHost(p, by))

\* The gaps that a step opens.
Notes(gap, opens) == amiss' = amiss \union (IF opens THEN {gap} ELSE {})

Record(p) == by' = p /\ lease' = LeaseBeats

\* The engine runs.  A once-run of the fleet has no heartbeat.
Starts(p, from) ==
  /\ Goto(p, from, "up")
  /\ beat' = [beat EXCEPT ![p] = IF kind = "fleet" /\ p \in Once THEN "off" ELSE "waits"]

----------------------------------------------------------------------------
(* Daemon._write_pidfile: look, then write *)

\* A process starts; the daemons of other hosts have pidfiles of their own.
Launch(p) ==
  /\ kind = "daemon" => p \notin Remote
  /\ by # p
  /\ pc[p] \in Absent
  /\ pc' = [pc EXCEPT ![p] = "looks"]
  /\ Notes("together", kind = "daemon" /\ \E q \in Proc : pc[q] \in Starting)
  /\ UNCHANGED <<kind, by, lease, mutex, beat>>

\* Mutant: a live owner does not stop a start.
LookUnimpressed(p) ==
  /\ kind = "daemon"
  /\ Goto(p, "looks", "writes")
  /\ UNCHANGED <<kind, by, lease, mutex, beat, amiss>>

Look(p) ==
  /\ kind = "daemon"
  /\ \/ MayJudgeAlive(p) /\ Goto(p, "looks", "refused")
     \/ ~JudgedAlive(p) /\ Goto(p, "looks", "writes")
  /\ UNCHANGED <<kind, by, lease, mutex, beat, amiss>>

Write(p) ==
  /\ Starts(p, "writes")
  /\ Record(p)
  /\ UNCHANGED <<kind, mutex, amiss>>

----------------------------------------------------------------------------
(* FleetSupervisor._write_pidfile: the same under a flock, with O_EXCL *)

\* Mutant: the pidfile lock is not taken.
TakeNothing(p) ==
  /\ kind = "fleet"
  /\ Goto(p, "looks", "creates")
  /\ UNCHANGED <<kind, by, lease, mutex, beat, amiss>>

Take(p) ==
  /\ kind = "fleet"
  /\ mutex = Nobody /\ mutex' = p
  /\ Goto(p, "looks", "creates")
  /\ UNCHANGED <<kind, by, lease, beat, amiss>>

\* O_CREAT | O_EXCL, on the first attempt or after a reclaim.
Create(p) ==
  /\ by = NoFile /\ by' = "empty"
  /\ Goto(p, "creates", "fills") \/ Goto(p, "retries", "fills")
  /\ UNCHANGED <<kind, lease, mutex, beat, amiss>>

Released(p) == IF mutex = p THEN Nobody ELSE mutex

\* The file exists: a live owner, or a second attempt that fails again.
Refuse(p) ==
  /\ by # NoFile
  /\ \/ MayJudgeAlive(p) /\ Goto(p, "creates", "refused")
     \/ Goto(p, "retries", "refused")
  /\ mutex' = Released(p)
  /\ UNCHANGED <<kind, by, lease, beat, amiss>>

\* The file exists and is stale, or was never filled in.
FindStale(p) ==
  /\ by # NoFile /\ ~JudgedAlive(p)
  /\ Goto(p, "creates", "reclaims")
  /\ UNCHANGED <<kind, by, lease, mutex, beat, amiss>>

Reclaim(p) ==
  /\ Goto(p, "reclaims", "retries")
  /\ by' = NoFile
  /\ UNCHANGED <<kind, lease, mutex, beat, amiss>>

\* The record is written to the file that was created, if it is still that one.
Fill(p) ==
  /\ Starts(p, "fills")
  /\ IF by = "empty" THEN Record(p) ELSE UNCHANGED <<by, lease, amiss>>
  /\ mutex' = Released(p)
  /\ UNCHANGED <<kind, amiss>>

----------------------------------------------------------------------------
(* LeaseHeartbeat and renew *)

\* A heartbeat thread is about and has not been told to stop.
Beating(p) == pc[p] \in {"up"} \union Hurried

\* A third of the ttl passes, which is longer than a beat takes.
Tick ==
  /\ lease' = IF lease > 0 THEN lease - 1 ELSE 0
  /\ beat' = [p \in Proc |-> IF beat[p] = "waits" /\ Beating(p) THEN "due" ELSE beat[p]]
  /\ amiss' = amiss
       \union (IF \E p \in Proc : beat[p] \in {"due", "renews"} THEN {"slow"} ELSE {})
       \union (IF lease <= 1 /\ \E p \in Once : kind = "fleet" /\ pc[p] = "up"
               THEN {"once"} ELSE {})
  /\ UNCHANGED <<kind, by, mutex, pc>>

\* A beat renews only a record that it reads as this process's own (renew compares
\* the pid and the host); else the thread returns.
BeatReads(p) ==
  /\ beat[p] = "due"
  /\ beat' = [beat EXCEPT ![p] = IF by = p THEN "renews" ELSE "off"]
  /\ UNCHANGED <<kind, by, lease, mutex, pc, amiss>>

\* read_owner turns an error into a missing record.
BeatReadFails(p) ==
  /\ beat[p] = "due"
  /\ beat' = [beat EXCEPT ![p] = "off"]
  /\ Notes("read", TRUE)
  /\ UNCHANGED <<kind, by, lease, mutex, pc>>

\* Mutant: the record is written with the expiry it had.
BeatWritesOldLease(p) ==
  /\ beat[p] = "renews"
  /\ beat' = [beat EXCEPT ![p] = "waits"]
  /\ by' = p
  /\ UNCHANGED <<kind, lease, mutex, pc, amiss>>

\* It is written as a new file over whatever the pidfile is by then.
BeatWrites(p) ==
  /\ beat[p] = "renews"
  /\ beat' = [beat EXCEPT ![p] = "waits"]
  /\ Record(p)
  /\ UNCHANGED <<kind, mutex, pc, amiss>>

\* An error in journaled_write: the next beat tries again.  With one beat left the
\* beat before this one failed as well.
BeatWriteFails(p) ==
  /\ beat[p] = "renews"
  /\ beat' = [beat EXCEPT ![p] = "waits"]
  /\ Notes("misses", lease < LeaseBeats - 1)
  /\ UNCHANGED <<kind, by, lease, mutex, pc>>

\* The stop event ends the wait.
BeatEnds(p) ==
  /\ beat[p] = "waits" /\ pc[p] \in Leaving
  /\ beat' = [beat EXCEPT ![p] = "off"]
  /\ UNCHANGED <<kind, by, lease, mutex, pc, amiss>>

----------------------------------------------------------------------------
(* The end of a run *)

Stop(p) ==
  /\ Goto(p, "up", "stops")
  /\ UNCHANGED <<kind, by, lease, mutex, beat, amiss>>

\* Mutant: the pidfile is removed before the heartbeat is stopped.
LeaveTheBeat(p) ==
  /\ Goto(p, "stops", "removes")
  /\ UNCHANGED <<kind, by, lease, mutex, beat, amiss>>

\* heartbeat.stop() joins the thread, for five seconds at most.
JoinBeat(p) ==
  /\ Goto(p, "stops", "removes")
  /\ Notes("slow", beat[p] # "off")
  /\ UNCHANGED <<kind, by, lease, mutex, beat>>

\* A daemon unlinks whatever is there.
DaemonRemoves(p) ==
  /\ kind = "daemon"
  /\ Goto(p, "removes", "exits")
  /\ by' = NoFile
  /\ UNCHANGED <<kind, lease, mutex, beat, amiss>>

\* The check of _remove_pidfile reads the pid and not the host.
ReadsOwnPid(p) == by \in Proc /\ PidOf[by] = PidOf[p]

\* Mutant: whose pidfile it is is not looked at.
FleetRemovesAny(p) ==
  /\ kind = "fleet"
  /\ mutex = Nobody /\ mutex' = p
  /\ Goto(p, "removes", "unlinks")
  /\ UNCHANGED <<kind, by, lease, beat, amiss>>

\* A fleet removes the record that has its pid, under the lock.
FleetRemoves(p) ==
  /\ kind = "fleet" /\ mutex = Nobody
  /\ IF ReadsOwnPid(p)
     THEN mutex' = p /\ Goto(p, "removes", "unlinks") /\ Notes("namesake", by # p)
     ELSE Goto(p, "removes", "exits") /\ UNCHANGED <<mutex, amiss>>
  /\ UNCHANGED <<kind, by, lease, beat>>

Unlinks(p) ==
  /\ Goto(p, "unlinks", "exits")
  /\ by' = NoFile
  /\ mutex' = Released(p)
  /\ UNCHANGED <<kind, lease, beat, amiss>>

\* The process ends, and its heartbeat with it.
Exit(p) ==
  /\ Goto(p, "exits", "gone") \/ Goto(p, "dies", "cut")
  /\ beat' = [beat EXCEPT ![p] = "off"]
  /\ UNCHANGED <<kind, by, lease, mutex, amiss>>

\* SIGKILL, or a crash: the file stays, the flock goes.
Kill(p) ==
  /\ Running(p)
  /\ pc' = [pc EXCEPT ![p] = "dead"]
  /\ beat' = [beat EXCEPT ![p] = "off"]
  /\ mutex' = Released(p)
  /\ UNCHANGED <<kind, by, lease, amiss>>

----------------------------------------------------------------------------
(* FleetDaemon._stop_now: no heartbeat is stopped, neither the fleet's nor *)
(* those of its units, whose pidfiles are those of daemons                 *)

\* The second signal, before the handlers are restored; a once-run has none.
StopNow(p) ==
  /\ p \notin Once
  /\ Goto(p, "up", "hurries")
  /\ UNCHANGED <<kind, by, lease, mutex, beat, amiss>>

\* The fleet's own record is looked at under the lock, a unit's without one.
HurriedLook(p) ==
  /\ kind = "fleet" => mutex = Nobody
  /\ IF ReadsOwnPid(p)
     THEN /\ Goto(p, "hurries", "drops")
          /\ mutex' = IF kind = "fleet" THEN p ELSE mutex
          /\ Notes("namesake", by # p)
     ELSE /\ Goto(p, "hurries", "dies")
          /\ Notes("hurry", beat[p] = "renews")
          /\ UNCHANGED mutex
  /\ UNCHANGED <<kind, by, lease, beat>>

HurriedUnlink(p) ==
  /\ Goto(p, "drops", "dies")
  /\ by' = NoFile
  /\ mutex' = Released(p)
  /\ Notes("hurry", beat[p] = "renews")
  /\ UNCHANGED <<kind, lease, beat>>

----------------------------------------------------------------------------
Start(p) ==
  \/ Launch(p) \/ Look(p) \/ Write(p)
  \/ Take(p) \/ Create(p) \/ Refuse(p) \/ FindStale(p) \/ Reclaim(p) \/ Fill(p)

Beat(p) ==
  BeatReads(p) \/ BeatReadFails(p) \/ BeatWrites(p) \/ BeatWriteFails(p) \/ BeatEnds(p)

End(p) ==
  \/ Stop(p) \/ JoinBeat(p) \/ DaemonRemoves(p) \/ FleetRemoves(p) \/ Unlinks(p)
  \/ Exit(p) \/ Kill(p)
  \/ StopNow(p) \/ HurriedLook(p) \/ HurriedUnlink(p)

Next == Tick \/ \E p \in Proc : Start(p) \/ Beat(p) \/ End(p)

Spec == Init /\ [][Next]_vars

----------------------------------------------------------------------------
(* Properties *)

\* Until one of the gaps opens, two engines never run against one project, nor two
\* fleets on one home, whoever is killed, ends slowly or is on another host.
OneEngine ==
  amiss = {} => \A p, q \in Proc : pc[p] = "up" /\ pc[q] = "up" => p = q

\* Until then a running engine is the one its pidfile names, so that the next start,
\* the doctor and the engines of other hosts find it.
RunningIsRecorded == amiss = {} => \A p \in Proc : pc[p] = "up" => by = p

\* The lease of a running engine does not lapse unless two of its renewals in a row
\* failed, a read failed, a beat came late or a once-run took too long.  pidlock.py:65
\* says that two missed beats still leave the lease live: the third one comes too late.
LeaseHeld ==
  amiss \intersect {"misses", "read", "slow", "once"} = {} =>
    \A p \in Proc : pc[p] = "up" /\ by = p => lease > 0

\* An engine that has removed its pidfile is not brought back by a late beat, unless
\* the stop did not wait for it: a join that timed out, or a second signal.  This
\* holds in spite of the other gaps.
CleanExit ==
  amiss \intersect {"slow", "hurry"} = {} =>
    \A p \in Proc : pc[p] \in {"exits", "gone", "dies", "cut"} => by # p
=============================================================================
