----------------------------- MODULE FleetUnits -----------------------------
(***************************************************************************)
(* The fleet (engine/fleet.py): one process that runs a daemon, each on a  *)
(* thread, for every project of the registry, and starts and stops them as *)
(* the registry changes.  The main thread reconciles, sleeps and handles   *)
(* signals; a unit claims its project's pidfile (engine/daemon.py), as an  *)
(* engine outside the fleet does.  How the fleet claims its own pidfile is *)
(* in PidLease.                                                            *)
(***************************************************************************)
EXTENDS Naturals, FiniteSets

CONSTANTS Name,       \* the names of the registry
          Root,       \* the directories of projects
          Registries, \* what the registry may hold: the root of each name, or NoRoot
          Unreadable, \* the registry cannot be read
          NoRoot, NoFile,
          Other,      \* the writer of a pidfile that is not in the fleet
          Hazards,    \* "event" a signal may arrive while the stop event's lock is held
          Edits, Deaths, Starts \* bounds on edits, units that die and engines of others

Thread == Name \X Root

ASSUME FleetAssumption ==
  /\ NoRoot \notin Root
  /\ Registries \subseteq [Name -> Root \union {NoRoot}] /\ Unreadable \notin Registries
  /\ {NoFile, Other} \intersect Thread = {} /\ NoFile # Other
  /\ {Edits, Deaths, Starts} \subseteq Nat

VARIABLES
  mode,     \* "once" or "service"
  registry, \* what the registry holds
  pc,       \* of the main thread; "stuck" in a signal handler
  desired,  \* the registry as reconcile read it
  todo,     \* names the loop in progress has left
  units,    \* _units: the root of each unit
  asked,    \* the daemons whose stop was requested
  thread,   \* where each unit's thread is; how it ended, in a once-run
  pidfile,  \* who wrote the pidfile of each project
  others,   \* the projects on which an engine outside the fleet runs
  stop,     \* _stop
  signals,  \* _stop_requests
  fleetfile, \* the fleet's pidfile: "ours" or "none"
  rc,       \* what the once-run returns
  edits, deaths, starts

world    == <<registry, others, edits, starts>>
mainVars == <<pc, desired, todo, units, asked, stop, signals, fleetfile, rc>>
vars == <<mode, world, mainVars, thread, pidfile, deaths>>

Running == {"looks", "writes", "up", "removes"}

TypeOK ==
  /\ mode \in {"once", "service"} /\ registry \in Registries \union {Unreadable}
  /\ pc \in {"reads", "stops", "begins", "locks", "polls", "asks", "ends", "once",
             "leaves", "stuck", "exited"}
  /\ desired \in [Name -> Root \union {NoRoot}] /\ units \in [Name -> Root \union {NoRoot}]
  /\ todo \subseteq Name /\ asked \subseteq Thread
  /\ thread \in [Thread -> Running \union {"none", "ended", "failed"}]
  /\ pidfile \in [Root -> Thread \union {Other, NoFile}] /\ others \subseteq Root
  /\ stop \in {"clear", "set"} /\ signals \in 0..2
  /\ fleetfile \in {"ours", "none"} /\ rc \in {0, 1}
  /\ edits \in 0..Edits /\ deaths \in 0..Deaths /\ starts \in 0..Starts

Nowhere == [n \in Name |-> NoRoot]

Init ==
  /\ mode \in {"once", "service"} /\ registry \in Registries \union {Unreadable}
  /\ pc = "reads" /\ desired = Nowhere /\ todo = {} /\ units = Nowhere /\ asked = {}
  /\ thread = [t \in Thread |-> "none"]
  /\ pidfile = [r \in Root |-> NoFile] /\ others = {}
  /\ stop = "clear" /\ signals = 0 /\ fleetfile = "ours" /\ rc = 0
  /\ edits = 0 /\ deaths = 0 /\ starts = 0

Placed(map) == {n \in Name : map[n] # NoRoot}
Of(n)       == <<n, units[n]>>
Alive(t)    == thread[t] \in Running

\* owner_is_alive: a unit of the fleet records the pid of the fleet.
JudgedAlive(r) == pidfile[r] \in Thread \/ (pidfile[r] = Other /\ r \in others)

----------------------------------------------------------------------------
(* reconcile *)

\* _desired_projects: a registry that cannot be read changes nothing.
Desired == IF registry = Unreadable THEN units ELSE registry

Reads ==
  /\ pc = "reads" /\ pc' = IF mode = "once" THEN "once" ELSE "stops"
  /\ desired' = Desired
  /\ todo' = Placed(IF mode = "once" THEN Desired ELSE units)
  /\ UNCHANGED <<mode, world, units, asked, stop, signals, fleetfile, rc, thread, pidfile, deaths>>

\* A unit is stopped before the next is looked at.
Looking(n) == pc = "stops" /\ n \in todo /\ \A m \in todo : Of(m) \notin asked

\* Mutant: a unit that has died is kept.
KeepsDead(n) ==
  /\ Looking(n) /\ desired[n] = units[n]
  /\ todo' = todo \ {n}
  /\ UNCHANGED <<mode, world, pc, desired, units, asked, stop, signals, fleetfile, rc, thread,
                 pidfile, deaths>>

Keeps(n) ==
  /\ Looking(n) /\ desired[n] = units[n] /\ Alive(Of(n))
  /\ todo' = todo \ {n}
  /\ UNCHANGED <<mode, world, pc, desired, units, asked, stop, signals, fleetfile, rc, thread,
                 pidfile, deaths>>

\* A unit that is not desired, has moved or has died.
Asks(n) ==
  /\ Looking(n) /\ (desired[n] # units[n] \/ ~Alive(Of(n)))
  /\ asked' = asked \union {Of(n)}
  /\ UNCHANGED <<mode, world, pc, desired, todo, units, stop, signals, fleetfile, rc, thread,
                 pidfile, deaths>>

\* _stop_unit: the thread has been waited for.
Stops(n) ==
  /\ pc \in {"stops", "ends"} /\ n \in todo /\ Of(n) \in asked /\ ~Alive(Of(n))
  /\ asked' = asked \ {Of(n)}
  /\ units' = [units EXCEPT ![n] = NoRoot]
  /\ todo' = todo \ {n}
  /\ UNCHANGED <<mode, world, pc, desired, stop, signals, fleetfile, rc, thread, pidfile, deaths>>

Stopped ==
  /\ pc = "stops" /\ todo = {} /\ pc' = "begins"
  /\ todo' = Placed(desired) \ Placed(units)
  /\ UNCHANGED <<mode, world, desired, units, asked, stop, signals, fleetfile, rc, thread, pidfile,
                 deaths>>

\* _start_unit.
Begins(n) ==
  /\ pc = "begins" /\ n \in todo
  /\ units' = [units EXCEPT ![n] = desired[n]]
  /\ thread' = [thread EXCEPT ![<<n, desired[n]>>] = "looks"]
  /\ todo' = todo \ {n}
  /\ UNCHANGED <<mode, world, pc, desired, asked, stop, signals, fleetfile, rc, pidfile, deaths>>

----------------------------------------------------------------------------
(* run, and the signals *)

\* What reconcile has read is dropped.
Goes(from, to) ==
  /\ pc = from /\ pc' = to /\ desired' = Nowhere
  /\ UNCHANGED <<mode, world, todo, units, asked, stop, signals, fleetfile, rc, thread, pidfile,
                 deaths>>

\* _stop.is_set and _stop.wait, which takes the event's lock on its way in.
Sleeps  == todo = {} /\ Goes("begins", IF stop = "set" THEN "asks" ELSE "locks")
Waits   == Goes("locks", "polls")
Wakes   == Goes("polls", IF stop = "set" THEN "asks" ELSE "reads")

\* A daemon that cannot be built ends the loop, and the units with it.
Raises  == todo # {} /\ Goes("begins", "asks")

\* Mutant: the units are asked and not waited for.
AsksOnly ==
  /\ pc = "asks" /\ pc' = "ends"
  /\ todo' = {} /\ asked' = {Of(n) : n \in Placed(units)}
  /\ UNCHANGED <<mode, world, desired, units, stop, signals, fleetfile, rc, thread, pidfile, deaths>>

AsksAll ==
  /\ pc = "asks" /\ pc' = "ends"
  /\ todo' = Placed(units) /\ asked' = {Of(n) : n \in todo'}
  /\ UNCHANGED <<mode, world, desired, units, stop, signals, fleetfile, rc, thread, pidfile, deaths>>

\* Every unit has been waited for: the fleet's pidfile goes last.
Releases ==
  /\ pc \in {"ends", "once"} /\ todo = {} /\ pc' = "exited"
  /\ fleetfile' = "none"
  /\ UNCHANGED <<mode, world, desired, todo, units, asked, stop, signals, rc, thread, pidfile, deaths>>

RequestStop ==
  /\ mode = "service" /\ stop = "clear" /\ pc \notin {"exited", "leaves"} /\ stop' = "set"
  /\ UNCHANGED <<mode, world, pc, desired, todo, units, asked, signals, fleetfile, rc, thread,
                 pidfile, deaths>>

\* The first signal, handled on the main thread wherever that is: Event.set
\* takes the lock that Event.wait may hold.
FirstSignal ==
  /\ mode = "service" /\ signals = 0 /\ pc \notin {"exited", "leaves"}
  /\ pc = "locks" => "event" \in Hazards
  /\ signals' = 1
  /\ IF pc = "locks" THEN pc' = "stuck" /\ UNCHANGED stop ELSE stop' = "set" /\ UNCHANGED pc
  /\ UNCHANGED <<mode, world, desired, todo, units, asked, fleetfile, rc, thread, pidfile, deaths>>

\* _stop_now: the pidfiles that record this process are removed.
StopNow ==
  /\ signals = 1 /\ pc \notin {"exited", "leaves", "locks", "stuck"}
  /\ signals' = 2 /\ stop' = "set" /\ pc' = "leaves"
  /\ pidfile' = [r \in Root |-> IF pidfile[r] \in Thread /\ \E n \in Name : units[n] = r
                                THEN NoFile ELSE pidfile[r]]
  /\ fleetfile' = "none"
  /\ UNCHANGED <<mode, world, desired, todo, units, asked, rc, thread, deaths>>

\* os._exit: no thread is unwound.
Exits ==
  /\ pc = "leaves" /\ pc' = "exited"
  /\ thread' = [t \in Thread |-> "none"]
  /\ UNCHANGED <<mode, world, desired, todo, units, asked, stop, signals, fleetfile, rc, pidfile,
                 deaths>>

----------------------------------------------------------------------------
(* _run_once_over_registry: one unit after the other, on the main thread *)

OnceBegins(n) ==
  /\ pc = "once" /\ n \in todo /\ thread[<<n, desired[n]>>] = "none"
  /\ \A t \in Thread : ~Alive(t)
  /\ thread' = [thread EXCEPT ![<<n, desired[n]>>] = "looks"]
  /\ UNCHANGED <<mode, world, mainVars, pidfile, deaths>>

OnceEnds(n) ==
  /\ pc = "once" /\ n \in todo /\ thread[<<n, desired[n]>>] \in {"ended", "failed"}
  /\ todo' = todo \ {n}
  /\ rc' = IF thread[<<n, desired[n]>>] = "failed" THEN 1 ELSE rc
  /\ UNCHANGED <<mode, world, pc, desired, units, asked, stop, signals, fleetfile, thread, pidfile,
                 deaths>>

----------------------------------------------------------------------------
(* A unit, and the engines outside the fleet *)

Moves(t, from, to) == thread[t] = from /\ thread' = [thread EXCEPT ![t] = to]

\* Mutant: a live owner does not keep a unit from starting.
LooksUnimpressed(t) ==
  /\ Moves(t, "looks", "writes")
  /\ UNCHANGED <<mode, world, mainVars, pidfile, deaths>>

Looks(t) ==
  /\ Moves(t, "looks", IF ~JudgedAlive(t[2]) THEN "writes"
                       ELSE IF mode = "once" THEN "failed" ELSE "none")
  /\ UNCHANGED <<mode, world, mainVars, pidfile, deaths>>

Writes(t) ==
  /\ Moves(t, "writes", "up")
  /\ pidfile' = [pidfile EXCEPT ![t[2]] = t]
  /\ UNCHANGED <<mode, world, mainVars, deaths>>

\* A unit ends when it is asked, when its once-run is over, or when it dies.
Ends(t) ==
  /\ Moves(t, "up", "removes")
  /\ t \in asked \/ mode = "once"
  /\ UNCHANGED <<mode, world, mainVars, pidfile, deaths>>

Dies(t) ==
  /\ Moves(t, "up", "removes")
  /\ deaths < Deaths /\ deaths' = deaths + 1
  /\ UNCHANGED <<mode, world, mainVars, pidfile>>

\* _remove_pidfile does not look whose it is.
Removes(t) ==
  /\ \E result \in IF mode = "once" THEN {"ended", "failed"} ELSE {"none"} :
       Moves(t, "removes", result)
  /\ pidfile' = [pidfile EXCEPT ![t[2]] = NoFile]
  /\ UNCHANGED <<mode, world, mainVars, deaths>>

\* An engine outside the fleet starts, and not while a unit does.
OtherStarts(r) ==
  /\ starts < Starts /\ starts' = starts + 1
  /\ r \notin others /\ ~JudgedAlive(r)
  /\ \A t \in Thread : t[2] = r => thread[t] # "writes"
  /\ others' = others \union {r} /\ pidfile' = [pidfile EXCEPT ![r] = Other]
  /\ UNCHANGED <<mode, registry, edits, mainVars, thread, deaths>>

\* It removes its pidfile, or is killed.
OtherEnds(r) ==
  /\ r \in others /\ others' = others \ {r}
  /\ \/ pidfile' = [pidfile EXCEPT ![r] = NoFile]
     \/ UNCHANGED pidfile
  /\ UNCHANGED <<mode, registry, edits, starts, mainVars, thread, deaths>>

Edit ==
  /\ edits < Edits /\ edits' = edits + 1
  /\ registry' \in (Registries \union {Unreadable}) \ {registry}
  /\ UNCHANGED <<mode, others, starts, mainVars, thread, pidfile, deaths>>

----------------------------------------------------------------------------
Main ==
  \/ Reads \/ Stopped \/ Sleeps \/ Waits \/ Wakes \/ AsksAll \/ Releases \/ Exits
  \/ \E n \in Name : Keeps(n) \/ Asks(n) \/ Stops(n) \/ Begins(n) \/ OnceBegins(n) \/ OnceEnds(n)

Unit(t) == pc # "exited" /\ (Looks(t) \/ Writes(t) \/ Ends(t) \/ Removes(t))

\* What others do once the fleet is gone is left out.
World == \/ Edit \/ \E t \in Thread : Dies(t)
         \/ \E r \in Root : OtherStarts(r) \/ OtherEnds(r)

Next ==
  \/ Main \/ Raises \/ RequestStop \/ FirstSignal \/ StopNow
  \/ \E t \in Thread : Unit(t)
  \/ pc # "exited" /\ World

\* The threads go on, and a compile ends.
Spec == Init /\ [][Next]_vars /\ WF_vars(Main) /\ \A t \in Thread : WF_vars(Unit(t))

----------------------------------------------------------------------------
(* Properties *)

\* One engine runs on a project, a unit of the fleet or another, and while it
\* runs its pidfile says so: however often names move from one project to
\* another, units die, other engines come and go, and signals arrive.
OneEnginePerProject ==
  pc \notin {"leaves", "exited"} =>
    \A r \in Root :
      LET up == {t \in Thread : t[2] = r /\ thread[t] \in {"up", "removes"}} IN
      /\ Cardinality(up) + Cardinality(others \intersect {r}) <= 1
      /\ \A t \in up : pidfile[r] = t
      /\ r \in others => pidfile[r] = Other

\* The fleet's pidfile outlives its units, unless it is told to stop now: once it
\* is released, after a stop, a signal or a loop that failed, no unit's thread
\* goes on under a fleet that looks stopped, and none leaves a pidfile behind.
NothingLeftBehind ==
  fleetfile = "none" /\ signals < 2 =>
    /\ \A t \in Thread : ~Alive(t)
    /\ \A r \in Root : pidfile[r] \notin Thread

\* Once the registry stands still and no other engine is in the way, the units
\* are those of the registry, each on its project and running.
RegistryIsFollowed ==
  <>[](mode = "service" /\ stop = "clear" /\ pc # "asks" /\ pc # "ends"
       /\ pc # "exited" /\ registry # Unreadable /\ others = {})
  => <>[](units = registry /\ \A n \in Placed(units) : thread[Of(n)] = "up")
=============================================================================
