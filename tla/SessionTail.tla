----------------------------- MODULE SessionTail -----------------------------
(***************************************************************************)
(* The engine's session source (engine/session_tail.py): it finds the      *)
(* transcripts of the project's agent sessions, reads the rows that were   *)
(* appended to them since a saved offset, stores the session and the       *)
(* offset (harness_sessions_db.py), files the turns under their day        *)
(* (session_chunks.py) and triggers a compile.  The agents write the       *)
(* transcripts meanwhile.  Every row is a turn; a "named" row also carries *)
(* the project's directory.  A row is two bytes, its text and its newline, *)
(* and a generation is the life of a file from creation or truncation on.  *)
(***************************************************************************)
EXTENDS Naturals, Sequences

CONSTANTS Claude,   \* the transcripts in the project's own directory
          Codex,    \* the rollouts below the dated directories of every project
          Dir,      \* those directories: years, months and days
          Parent,   \* the directory a rollout or a directory lies in
          Lookback, \* how far below the saved floor a restart sweeps
          Kinds,    \* the rows there are: "named" and "bare"
          HeadRows, \* how many rows of a rollout a sweep reads
          Rows,     \* bound: the rows of each transcript
          Gens,     \* bound: the lives of each transcript
          Kills, LastDay, LastTime, \* bounds on what happens
          Unset     \* there is no offset, session or signature

File == Claude \union Codex

ASSUME TailAssumption ==
  /\ Claude \intersect Codex = {}
  /\ \A f \in Codex : Parent[f] \in Dir /\ Parent[Parent[f]] \in Dir
  /\ Kinds \subseteq {"named", "bare"}
  /\ Rows \in [File -> Nat] /\ Gens \in [File -> Nat]
  /\ {HeadRows, Lookback, Kills, LastDay, LastTime} \subseteq Nat
  /\ LastDay >= 1 /\ LastTime > Lookback
  /\ Unset \notin Nat \union (Nat \X Nat)

VARIABLES
  \* the disk
  now,     \* a clock whose unit is the interval between two sweeps
  today,   \* the day
  disk,    \* of each transcript: there or not, generation, bytes, rows
  mtime,   \* of each dated directory, 0 when there is none
  \* harness_sessions.db and session_chunks.db
  offset,  \* of each transcript, how far it was read
  stored,  \* of each transcript, the generation and number of rows of its session
  saved,   \* the floor of the last sweep, 0 when there is none
  chunks,  \* the turns filed
  covered, \* the days, per harness, that are marked as covered
  \* the process
  pc,
  floor, swept,    \* the floor of the next sweep, the time of the last one
  known, tracked,  \* transcripts in scope; signatures of rollouts that did not match
  mem,     \* offsets in memory
  todo,    \* the transcripts this tick has still to look at
  batch,   \* what was read of the transcript in hand
  \* history
  told,    \* the turns passed to on_new_turns, with the generation that was read
  since,   \* the generation the offset of a transcript was taken from
  kills

onDisk  == <<now, today, disk, mtime>>
durable == <<offset, stored, saved, chunks, covered, since>>
sweep   == <<floor, swept, known, tracked>>
vars    == <<onDisk, durable, pc, sweep, mem, todo, batch, told, kills>>

Harness(f) == IF f \in Claude THEN "claude-code" ELSE "codex"

Complete(f) == disk[f].bytes \div 2
Turn(f, i)  == <<f, disk[f].gen, i, disk[f].rows[i].day>>

\* The turns of the complete rows between two offsets.
TurnsIn(f, from, to) ==
  {Turn(f, i) : i \in {j \in 1..Complete(f) : from <= 2 * (j - 1) /\ 2 * j <= to}}

Turns == File \X Nat \X Nat \X (1..LastDay)
NoBatch == [file |-> Unset, from |-> 0, to |-> 0, gen |-> 0, turns |-> {}, session |-> Unset]

TypeOK ==
  /\ now \in 1..LastTime /\ today \in 1..LastDay
  /\ disk \in [File -> [there : {"yes", "no"}, gen : Nat, bytes : Nat,
                        rows : Seq([kind : Kinds, day : 1..LastDay])]]
  /\ mtime \in [Dir -> 0..LastTime]
  /\ offset \in [File -> Nat] /\ since \in [File -> Nat]
  /\ stored \in [File -> (Nat \X Nat) \union {Unset}]
  /\ {saved, floor, swept} \subseteq 0..LastTime
  /\ chunks \subseteq Turns /\ told \subseteq Turns \X Nat
  /\ covered \subseteq (1..LastDay) \X {"claude-code", "codex"}
  /\ pc \in {"off", "scans", "parses", "persists", "chunks", "covers", "notifies"}
  /\ known \subseteq File /\ todo \subseteq known
  /\ tracked \in [Codex -> (Nat \X Nat) \union {Unset}]
  /\ mem \in [File -> Nat \union {Unset}]
  /\ pc \in {"off", "scans"} <=> batch = NoBatch
  /\ kills \in 0..Kills

Init ==
  /\ now = Lookback + 1 /\ today = 1
  /\ disk = [f \in File |-> [there |-> "no", gen |-> 0, bytes |-> 0, rows |-> <<>>]]
  /\ mtime = [d \in Dir |-> 0]
  /\ offset = [f \in File |-> 0] /\ since = offset
  /\ stored = [f \in File |-> Unset]
  /\ saved = 0 /\ chunks = {} /\ covered = {}
  /\ pc = "off" /\ floor = 0 /\ swept = 0 /\ known = {}
  /\ tracked = [f \in Codex |-> Unset]
  /\ mem = [f \in File |-> Unset]
  /\ todo = {} /\ batch = NoBatch /\ told = {} /\ kills = 0

----------------------------------------------------------------------------
(* The agents, and time *)

There(f) == disk[f].there = "yes"

Clock ==
  /\ \/ now < LastTime /\ now' = now + 1 /\ UNCHANGED today
     \/ today < LastDay /\ today' = today + 1 /\ UNCHANGED now
  /\ UNCHANGED <<disk, mtime, durable, pc, sweep, mem, todo, batch, told, kills>>

Above(f) == IF f \in Codex THEN {Parent[f], Parent[Parent[f]], Parent[Parent[Parent[f]]]}
                           ELSE {}

\* A new transcript, with the directories it needs; the modification time of
\* a directory is that of the last entry made in it.
Create(f) ==
  /\ ~There(f) /\ disk[f].gen < Gens[f]
  /\ disk' = [disk EXCEPT ![f] = [there |-> "yes", gen |-> @.gen + 1, bytes |-> 0,
                                  rows |-> <<>>]]
  /\ LET made == {d \in Above(f) : mtime[d] = 0}
         into == {Parent[e] : e \in made \union (Codex \intersect {f})}
     IN  mtime' = [d \in Dir |-> IF d \in made \union into THEN now ELSE mtime[d]]
  /\ UNCHANGED <<now, today, durable, pc, sweep, mem, todo, batch, told, kills>>

\* A row arrives in two writes.
Writes(f) ==
  /\ There(f)
  /\ IF disk[f].bytes % 2 = 1
     THEN disk' = [disk EXCEPT ![f].bytes = @ + 1]
     ELSE /\ Len(disk[f].rows) < Rows[f]
          /\ \E k \in Kinds :
               disk' = [disk EXCEPT ![f].bytes = @ + 1,
                                    ![f].rows = Append(@, [kind |-> k, day |-> today])]
  /\ UNCHANGED <<now, today, mtime, durable, pc, sweep, mem, todo, batch, told, kills>>

\* A transcript is truncated, another one is put in its place, or it is removed.
Cut(f) ==
  /\ There(f) /\ disk[f].gen < Gens[f]
  /\ \/ /\ disk' = [disk EXCEPT ![f].gen = @ + 1, ![f].bytes = 0, ![f].rows = <<>>]
        /\ UNCHANGED mtime
     \/ /\ disk' = [disk EXCEPT ![f].there = "no", ![f].bytes = 0, ![f].rows = <<>>]
        /\ mtime' = [d \in Dir |-> IF f \in Codex /\ d = Parent[f] THEN now ELSE mtime[d]]
  /\ UNCHANGED <<now, today, durable, pc, sweep, mem, todo, batch, told, kills>>

----------------------------------------------------------------------------
(* Discovery: _enumerate *)

Named(f, n) == There(f) /\ \E i \in 1..n : i <= Complete(f) /\ disk[f].rows[i].kind = "named"

\* The head of a rollout names the project; or a row of a transcript does.
Matches(f) == Named(f, HeadRows)
Ours(f)    == Named(f, Complete(f))

\* _recent_day_dirs: each level of the tree is pruned by its own time.
Visited(f, fl) == fl = 0 \/ \A d \in Above(f) : mtime[d] >= fl

Signature(f) == <<disk[f].gen, disk[f].bytes>>

\* The rollouts opened by one sweep: those of the directories it visits and
\* those that did not match and changed.
Peeked(kn, tr, fl) ==
  {f \in Codex \ kn : There(f) /\ \/ Visited(f, fl)
                                  \/ tr[f] \notin {Unset, Signature(f)}}

\* One sweep of a process that knows kn and tracks tr; the floor is saved if
\* the database allows.
Enumerate(kn, tr, fl) ==
  LET peeked == Peeked(kn, tr, fl)
      found  == kn \union {f \in Claude : There(f)} \union {f \in peeked : Matches(f)}
  IN  /\ known' = found
      /\ tracked' = [f \in Codex |-> IF f \in found \/ ~There(f) THEN Unset
                                     ELSE IF f \in peeked THEN Signature(f)
                                     ELSE tr[f]]
      /\ floor' = now /\ swept' = now
      /\ saved' \in {now, saved}

\* SessionTailer.__init__.
Start ==
  /\ pc = "off" /\ pc' = "scans"
  /\ Enumerate({}, [f \in Codex |-> Unset], IF saved > Lookback THEN saved - Lookback ELSE 0)
  /\ mem' = offset /\ todo' = {}
  /\ UNCHANGED <<onDisk, offset, stored, chunks, covered, since, batch, told, kills>>

\* tick: a sweep when one is due, and a look at every transcript in scope.
Tick ==
  /\ pc = "scans" /\ todo = {}
  /\ IF now > swept THEN Enumerate(known, tracked, floor)
                    ELSE UNCHANGED <<sweep, saved>>
  /\ todo' = known'
  /\ UNCHANGED <<onDisk, offset, stored, chunks, covered, since, pc, mem, batch, told, kills>>

----------------------------------------------------------------------------
(* One transcript: _tick_file *)

\* The step is over and the next transcript is up.
NextFile(f) == pc' = "scans" /\ todo' = todo \ {f} /\ batch' = NoBatch

Vanished(f) ==
  /\ pc = "scans" /\ f \in todo /\ ~There(f)
  /\ known' = known \ {f} /\ mem' = [mem EXCEPT ![f] = Unset]
  /\ NextFile(f)
  /\ UNCHANGED <<onDisk, durable, floor, swept, tracked, told, kills>>

\* A transcript shorter than its offset is read from the start.
From(f) ==
  LET o == IF mem[f] = Unset THEN offset[f] ELSE mem[f]
  IN  IF disk[f].bytes < o THEN 0 ELSE o

\* The end of the last complete row.
End(f) == 2 * Complete(f)

Opened(f) ==
  /\ pc = "scans" /\ f \in todo /\ There(f)
  /\ mem' = [mem EXCEPT ![f] = IF @ = Unset THEN From(f) ELSE @]

NothingNew(f) ==
  /\ Opened(f) /\ End(f) <= From(f)
  /\ NextFile(f)
  /\ UNCHANGED <<onDisk, durable, sweep, told, kills>>

Reads(f) ==
  /\ Opened(f) /\ End(f) > From(f)
  /\ batch' = [file |-> f, from |-> From(f), to |-> End(f), gen |-> disk[f].gen,
               turns |-> TurnsIn(f, From(f), End(f)), session |-> Unset]
  /\ pc' = "parses"
  /\ UNCHANGED <<onDisk, durable, sweep, todo, told, kills>>

\* The turns of the batch, taken off the end of the file up to the batch, so
\* that a tool's result finds the call it answers.  A negative start counts
\* from the end.
NewTurns(f) ==
  LET new  == (batch.to - batch.from) \div 2
      n    == IF 2 * Complete(f) < batch.to THEN Complete(f) ELSE batch.to \div 2
      skip == IF new <= n THEN n - new ELSE IF new <= 2 * n THEN 2 * n - new ELSE 0
  IN  IF batch.from = 0 THEN batch.turns ELSE {Turn(f, i) : i \in (skip + 1)..n}

\* Mutant: the compile is triggered before the session is stored.
ParseThenTell(f) ==
  /\ pc = "parses" /\ pc' = "chunks" /\ batch.file = f
  /\ batch' = [batch EXCEPT !.turns = NewTurns(f)]
  /\ UNCHANGED <<onDisk, durable, sweep, mem, todo, told, kills>>

\* Mutant: the offset is that of the second reading and not of the first.
ParseMovesOn(f) ==
  /\ pc = "parses" /\ pc' = "persists" /\ batch.file = f
  /\ batch' = [batch EXCEPT !.turns = NewTurns(f), !.to = 2 * Complete(f),
                            !.session = IF Ours(f) THEN <<disk[f].gen, Complete(f)>> ELSE Unset]
  /\ UNCHANGED <<onDisk, durable, sweep, mem, todo, told, kills>>

\* Both parsers read the file again; it may have changed.
Parse(f) ==
  /\ pc = "parses" /\ pc' = "persists" /\ batch.file = f
  /\ batch' = [batch EXCEPT !.turns = NewTurns(f),
                            !.session = IF Ours(f) THEN <<disk[f].gen, Complete(f)>> ELSE Unset]
  /\ UNCHANGED <<onDisk, durable, sweep, mem, todo, told, kills>>

\* The transcript does not name the project: the offset moves on alone.
PassesOver(f) ==
  /\ pc = "persists" /\ batch.file = f /\ batch.session = Unset
  /\ mem' = [mem EXCEPT ![f] = batch.to]
  /\ \/ offset' = [offset EXCEPT ![f] = batch.to] /\ since' = [since EXCEPT ![f] = batch.gen]
     \/ UNCHANGED <<offset, since>>
  /\ NextFile(f)
  /\ UNCHANGED <<onDisk, stored, saved, chunks, covered, sweep, told, kills>>

\* Mutant: the offset in memory stays behind.
PersistUnnoticed(f) ==
  /\ pc = "persists" /\ batch.file = f /\ batch.session # Unset
  /\ stored' = [stored EXCEPT ![f] = batch.session]
  /\ offset' = [offset EXCEPT ![f] = batch.to] /\ since' = [since EXCEPT ![f] = batch.gen]
  /\ IF batch.turns = {} THEN NextFile(f) ELSE pc' = "chunks" /\ UNCHANGED <<todo, batch>>
  /\ UNCHANGED <<onDisk, saved, chunks, covered, sweep, mem, told, kills>>

\* upsert_with_offset: one transaction.
Persist(f) ==
  /\ pc = "persists" /\ batch.file = f /\ batch.session # Unset
  /\ stored' = [stored EXCEPT ![f] = batch.session]
  /\ offset' = [offset EXCEPT ![f] = batch.to] /\ since' = [since EXCEPT ![f] = batch.gen]
  /\ mem' = [mem EXCEPT ![f] = batch.to]
  /\ IF batch.turns = {} THEN NextFile(f) ELSE pc' = "chunks" /\ UNCHANGED <<todo, batch>>
  /\ UNCHANGED <<onDisk, saved, chunks, covered, sweep, told, kills>>

\* Mutant: two transactions, of which the first, the offset's, succeeds.
PersistsOffsetOnly(f) ==
  /\ pc = "persists" /\ batch.file = f /\ batch.session # Unset
  /\ offset' = [offset EXCEPT ![f] = batch.to] /\ since' = [since EXCEPT ![f] = batch.gen]
  /\ NextFile(f)
  /\ UNCHANGED <<onDisk, stored, saved, chunks, covered, sweep, mem, told, kills>>

\* Mutant: the offset in memory has moved on before the write fails.
PersistFailsLate(f) ==
  /\ pc = "persists" /\ batch.file = f /\ batch.session # Unset
  /\ mem' = [mem EXCEPT ![f] = batch.to]
  /\ NextFile(f)
  /\ UNCHANGED <<onDisk, durable, sweep, told, kills>>

PersistFails(f) ==
  /\ pc = "persists" /\ batch.file = f /\ batch.session # Unset
  /\ NextFile(f)
  /\ UNCHANGED <<onDisk, durable, sweep, mem, told, kills>>

\* record_live_turns: the turns, then the days they cover; a failure ends both.
Records(f) ==
  /\ pc = "chunks" /\ batch.file = f
  /\ \/ chunks' = chunks \union batch.turns /\ pc' = "covers"
     \/ UNCHANGED chunks /\ pc' = "notifies"
  /\ UNCHANGED <<onDisk, offset, stored, saved, covered, since, sweep, mem, todo, batch, told, kills>>

Covers(f) ==
  /\ pc = "covers" /\ pc' = "notifies" /\ batch.file = f
  /\ covered' \in {covered, covered \union {<<t[4], Harness(f)>> : t \in batch.turns}}
  /\ UNCHANGED <<onDisk, offset, stored, saved, chunks, since, sweep, mem, todo, batch, told, kills>>

\* on_new_turns: the engine's trigger queue.
Notify(f) ==
  /\ pc = "notifies" /\ batch.file = f
  /\ told' = told \union (batch.turns \X {batch.gen})
  /\ NextFile(f)
  /\ UNCHANGED <<onDisk, durable, sweep, mem, kills>>

Kill ==
  /\ pc # "off" /\ kills < Kills /\ kills' = kills + 1
  /\ pc' = "off" /\ floor' = 0 /\ swept' = 0 /\ known' = {}
  /\ tracked' = [f \in Codex |-> Unset] /\ mem' = [f \in File |-> Unset]
  /\ todo' = {} /\ batch' = NoBatch
  /\ UNCHANGED <<onDisk, durable, told>>

OfFile(f) ==
  \/ Vanished(f) \/ NothingNew(f) \/ Reads(f) \/ Parse(f) \/ PassesOver(f) \/ Persist(f)
  \/ PersistFails(f) \/ Records(f) \/ Covers(f) \/ Notify(f)

Next ==
  \/ Clock \/ Start \/ Tick \/ Kill
  \/ \E f \in File : Create(f) \/ Writes(f) \/ Cut(f) \/ OfFile(f)

\* The source's thread keeps running; the database does not fail for ever.
Spec ==
  /\ Init /\ [][Next]_vars
  /\ WF_vars(Tick) /\ \A f \in File : WF_vars(OfFile(f)) /\ SF_vars(Persist(f))

----------------------------------------------------------------------------
(* Properties *)

\* Whatever the saved offset has passed is in the stored session, however the
\* process ended: every row before it, unless none of those rows named the
\* project, for as long as the file is the one the offset was taken from.
StoreAtOffset ==
  \A f \in File :
    since[f] = disk[f].gen /\ There(f) =>
      \/ stored[f] # Unset /\ stored[f][1] = disk[f].gen /\ offset[f] <= 2 * stored[f][2]
      \/ \A i \in 1..(offset[f] \div 2) : disk[f].rows[i].kind = "bare"

\* A session that is cut goes to a later life, which may be stored in its place.
InStore(f, gen, i) ==
  /\ stored[f] # Unset
  /\ stored[f][1] > gen \/ (stored[f][1] = gen /\ stored[f][2] >= i)

\* A turn the compile queue was told of, or that is filed under its day, is in
\* the store the compile will read, or in that of a later life of its transcript.
ToldIsStored ==
  /\ \A t \in told : InStore(t[1][1], t[2], t[1][3])
  /\ \A t \in chunks : InStore(t[1], t[2], t[3])

\* While no process is killed, an offset never passes a turn that is not passed
\* on, in the first life of a transcript whose first row names the project:
\* neither a row that was half-written when the tick came by nor one that was
\* appended during the tick is skipped.
NothingSkipped ==
  \A f \in File : \A i \in 1..(offset[f] \div 2) :
    /\ kills = 0 /\ There(f) /\ disk[f].gen = 1 /\ disk[f].rows[1].kind = "named"
    => \/ <<Turn(f, i), 1>> \in told
       \/ pc \in {"chunks", "covers", "notifies"} /\ Turn(f, i) \in batch.turns

\* No reading of a transcript's life passes a turn on twice, whatever is killed
\* and whatever the database refuses.
ToldOnce ==
  [][pc = "notifies" /\ pc' = "scans" =>
       told \intersect (batch.turns \X {batch.gen}) = {}]_vars

\* The rows of a known transcript that names the project reach the store unless
\* the process dies or the transcript is cut or removed.
RowsReachTheStore ==
  \A f \in File : \A n \in 1..Rows[f] :
    (f \in known /\ Ours(f) /\ disk[f].gen = 1 /\ Complete(f) >= n)
      ~> \/ pc = "off" \/ ~There(f) \/ disk[f].gen > 1
         \/ stored[f] # Unset /\ stored[f][2] >= n

\* A sweep opens the rollouts of every day directory that changed since the
\* floor: "skip any DAY directory that has not changed since the last scan".
TouchedDayIsScanned ==
  [][pc = "scans" /\ swept' # swept =>
       \A f \in Codex : There(f) /\ mtime[Parent[f]] >= floor =>
         f \in known' \/ tracked'[f] # Unset]_vars
=============================================================================
