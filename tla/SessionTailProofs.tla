-------------------------- MODULE SessionTailProofs --------------------------
(***************************************************************************)
(* Proofs about SessionTail, for any transcripts, rows and directories and *)
(* any number of kills and lives.                                          *)
(***************************************************************************)
EXTENDS SessionTail, Integers, TLAPS

-----------------------------------------------------------------------------
(* Type correctness.  TypeOK is not inductive: a turn is made of a row the  *)
(* transcript has, and the batch in hand is a batch.                        *)

RowType   == [kind : Kinds, day : 1..LastDay]
DiskType  == [there : {"yes", "no"}, gen : Nat, bytes : Nat, rows : Seq(RowType)]
BatchType == [file : File, from : Nat, to : Nat, gen : Nat, turns : SUBSET Turns,
              session : (Nat \X Nat) \union {Unset}]

\* The last row may be half there.
HalfRow(d) == 2 * Len(d.rows) - 1 <= d.bytes /\ d.bytes <= 2 * Len(d.rows)

Busy == pc \notin {"off", "scans"}

DiskOK ==
  /\ now \in 1..LastTime /\ today \in 1..LastDay
  /\ disk \in [File -> DiskType] /\ \A f \in File : HalfRow(disk[f])
  /\ mtime \in [Dir -> 0..LastTime]

StoreOK ==
  /\ offset \in [File -> Nat] /\ since \in [File -> Nat]
  /\ stored \in [File -> (Nat \X Nat) \union {Unset}]
  /\ saved \in 0..LastTime
  /\ chunks \subseteq Turns /\ told \subseteq Turns \X Nat
  /\ covered \subseteq (1..LastDay) \X {"claude-code", "codex"}

SweepOK ==
  /\ floor \in 0..LastTime /\ swept \in 0..LastTime
  /\ known \subseteq File /\ todo \subseteq known
  /\ tracked \in [Codex -> (Nat \X Nat) \union {Unset}]
  /\ mem \in [File -> Nat \union {Unset}]

HandOK ==
  /\ pc \in {"off", "scans", "parses", "persists", "chunks", "covers", "notifies"}
  /\ IF Busy THEN batch \in BatchType /\ batch.from < batch.to ELSE batch = NoBatch
  /\ kills \in 0..Kills

TypeInv == DiskOK /\ StoreOK /\ SweepOK /\ HandOK

LEMMA TypeInvType == TypeInv => TypeOK
<1> SUFFICES ASSUME TypeInv PROVE TypeOK
  OBVIOUS
<1>1. Busy => batch # NoBatch
  <2> SUFFICES ASSUME Busy PROVE batch.to # NoBatch.to
    OBVIOUS
  <2> batch.from \in Nat /\ batch.to \in Nat /\ batch.from < batch.to
    BY DEF TypeInv, HandOK, BatchType
  <2> QED
    BY DEF NoBatch
<1>2. pc \in {"off", "scans"} <=> batch = NoBatch
  BY <1>1 DEF TypeInv, HandOK, Busy
<1> QED
  BY <1>2 DEF TypeInv, DiskOK, StoreOK, SweepOK, HandOK, TypeOK, DiskType, RowType

LEMMA TypeInit == Init => TypeInv
<1> SUFFICES ASSUME Init PROVE TypeInv
  OBVIOUS
<1> USE TailAssumption DEF TailAssumption
<1>1. DiskOK
  <2>1. <<>> \in Seq(RowType) /\ Len(<<>>) = 0
    OBVIOUS
  <2>2. disk \in [File -> DiskType] /\ \A f \in File : HalfRow(disk[f])
    BY <2>1 DEF Init, DiskType, HalfRow
  <2>3. now \in 1..LastTime /\ today \in 1..LastDay /\ mtime \in [Dir -> 0..LastTime]
    BY DEF Init
  <2> QED
    BY <2>2, <2>3 DEF DiskOK
<1>2. StoreOK
  BY DEF Init, StoreOK
<1>3. SweepOK
  BY DEF Init, SweepOK
<1>4. HandOK
  BY DEF Init, HandOK, Busy
<1> QED
  BY <1>1, <1>2, <1>3, <1>4 DEF TypeInv

(* A step of the agents touches the disk alone, and no other step does.     *)
AgentStep == Clock \/ \E f \in File : Create(f) \/ Writes(f) \/ Cut(f)
TailStep  == Start \/ Tick \/ Kill \/ \E f \in File : OfFile(f)

LEMMA NextSplit == Next <=> AgentStep \/ TailStep
BY DEF Next, AgentStep, TailStep

LEMMA AgentStepKeeps ==
  AgentStep => UNCHANGED <<durable, pc, sweep, mem, todo, batch, told, kills>>
BY DEF AgentStep, Clock, Create, Writes, Cut

LEMMA TailStepKeeps == TailStep => UNCHANGED onDisk
BY DEF TailStep, Start, Tick, Kill, OfFile, Vanished, NothingNew, Reads, Parse, PassesOver,
       Persist, PersistFails, Records, Covers, Notify

(* What the steps of the agents make of a transcript. *)
Longer(d)   == [d EXCEPT !.bytes = d.bytes + 1]
NewRow(d, r) == [d EXCEPT !.bytes = d.bytes + 1, !.rows = Append(d.rows, r)]
NextLife(d) == [d EXCEPT !.gen = d.gen + 1, !.bytes = 0, !.rows = <<>>]
Created(d)  == [there |-> "yes", gen |-> d.gen + 1, bytes |-> 0, rows |-> <<>>]
Removed(d)  == [d EXCEPT !.there = "no", !.bytes = 0, !.rows = <<>>]

LEMMA LongerTyped ==
  ASSUME NEW d \in DiskType
  PROVE  /\ Longer(d) \in DiskType /\ Longer(d).rows = d.rows /\ Longer(d).bytes = d.bytes + 1
         /\ Longer(d).there = d.there /\ Longer(d).gen = d.gen
<1> d.bytes \in Nat /\ d.bytes + 1 \in Nat
  BY DEF DiskType
<1> QED
  BY DEF Longer, DiskType

LEMMA NewRowTyped ==
  ASSUME NEW d \in DiskType, NEW r \in RowType
  PROVE  /\ NewRow(d, r) \in DiskType /\ NewRow(d, r).rows = Append(d.rows, r)
         /\ NewRow(d, r).bytes = d.bytes + 1
         /\ NewRow(d, r).there = d.there /\ NewRow(d, r).gen = d.gen
<1> DEFINE s == Append(d.rows, r)
<1> d.bytes \in Nat /\ d.bytes + 1 \in Nat /\ d.rows \in Seq(RowType)
  BY DEF DiskType
<1> s \in Seq(RowType)
  OBVIOUS
<1> HIDE DEF s
<1>1. [d EXCEPT !.bytes = d.bytes + 1, !.rows = s] \in DiskType
  BY DEF DiskType
<1>2. /\ [d EXCEPT !.bytes = d.bytes + 1, !.rows = s].rows = s
      /\ [d EXCEPT !.bytes = d.bytes + 1, !.rows = s].bytes = d.bytes + 1
      /\ [d EXCEPT !.bytes = d.bytes + 1, !.rows = s].there = d.there
      /\ [d EXCEPT !.bytes = d.bytes + 1, !.rows = s].gen = d.gen
  BY DEF DiskType
<1> QED
  BY <1>1, <1>2 DEF NewRow, s

LEMMA EmptiedTyped ==
  ASSUME NEW d \in DiskType
  PROVE  /\ NextLife(d) \in DiskType /\ NextLife(d).rows = <<>> /\ NextLife(d).bytes = 0
         /\ NextLife(d).gen = d.gen + 1
         /\ Removed(d) \in DiskType /\ Removed(d).rows = <<>> /\ Removed(d).bytes = 0
         /\ Removed(d).gen = d.gen /\ Removed(d).there = "no"
<1> d.gen \in Nat /\ d.gen + 1 \in Nat /\ <<>> \in Seq(RowType)
  BY DEF DiskType
<1> QED
  BY DEF NextLife, Removed, DiskType

LEMMA CreatedTyped ==
  ASSUME NEW d \in DiskType
  PROVE  Created(d) \in DiskType /\ Created(d).rows = <<>> /\ Created(d).bytes = 0
<1> d.gen + 1 \in Nat /\ <<>> \in Seq(RowType)
  BY DEF DiskType
<1> QED
  BY DEF Created, DiskType

LEMMA Halves ==
  ASSUME NEW b \in Nat, NEW n \in Nat, 2 * n - 1 <= b, b <= 2 * n
  PROVE  (b % 2 = 1 => b + 1 = 2 * n) /\ (b % 2 # 1 => b = 2 * n)
OBVIOUS

LEMMA Emptied == <<>> \in Seq(RowType) /\ Len(<<>>) = 0
OBVIOUS

(* One write of an agent. *)
LEMMA WriteOne ==
  ASSUME DiskOK, NEW f \in File, Writes(f)
  PROVE  \E d \in DiskType :
           /\ disk' = [disk EXCEPT ![f] = d] /\ HalfRow(d)
           /\ d.there = disk[f].there /\ d.gen = disk[f].gen /\ d.bytes = disk[f].bytes + 1
           /\ \/ d.rows = disk[f].rows
              \/ \E r \in RowType : d.rows = Append(disk[f].rows, r)
<1>1. disk[f] \in DiskType /\ HalfRow(disk[f])
  BY DEF DiskOK
<1>2. disk[f].bytes \in Nat /\ disk[f].rows \in Seq(RowType) /\ Len(disk[f].rows) \in Nat
  BY <1>1 DEF DiskType
<1>3. disk[f].bytes + 1 \in Nat
  BY <1>2
<1>4. CASE disk[f].bytes % 2 = 1
  <2> DEFINE d == Longer(disk[f])
  <2>1. disk' = [disk EXCEPT ![f] = d]
    BY <1>4 DEF Writes, DiskOK, Longer
  <2>2. /\ d \in DiskType /\ d.bytes = disk[f].bytes + 1 /\ d.rows = disk[f].rows
        /\ d.there = disk[f].there /\ d.gen = disk[f].gen
    BY <1>1, LongerTyped
  <2>4. disk[f].bytes + 1 = 2 * Len(disk[f].rows)
    BY <1>1, <1>2, <1>4, Halves DEF HalfRow
  <2> HIDE DEF d
  <2>5. HalfRow(d)
    BY <1>2, <2>2, <2>4 DEF HalfRow
  <2> QED
    BY <2>1, <2>2, <2>5
<1>5. CASE disk[f].bytes % 2 # 1
  <2>1. PICK k \in Kinds :
          disk' = [disk EXCEPT ![f].bytes = @ + 1,
                               ![f].rows = Append(@, [kind |-> k, day |-> today])]
    BY <1>5 DEF Writes
  <2> DEFINE r == [kind |-> k, day |-> today]
             d == NewRow(disk[f], r)
  <2>2. disk' = [disk EXCEPT ![f] = d]
    BY <2>1 DEF DiskOK, NewRow
  <2>3. r \in RowType
    BY DEF DiskOK, RowType
  <2> HIDE DEF r
  <2>4. Len(Append(disk[f].rows, r)) = Len(disk[f].rows) + 1
    BY <1>2, <2>3
  <2>6. /\ d \in DiskType /\ d.bytes = disk[f].bytes + 1 /\ d.rows = Append(disk[f].rows, r)
        /\ d.there = disk[f].there /\ d.gen = disk[f].gen
    BY <1>1, <2>3, NewRowTyped
  <2>8. disk[f].bytes = 2 * Len(disk[f].rows)
    BY <1>1, <1>2, <1>5, Halves DEF HalfRow
  <2> HIDE DEF d
  <2>9. HalfRow(d)
    BY <1>2, <2>4, <2>6, <2>8 DEF HalfRow
  <2> QED
    BY <2>2, <2>3, <2>6, <2>9
<1> QED
  BY <1>4, <1>5

LEMMA DiskNext == DiskOK /\ [Next]_vars => DiskOK'
<1> SUFFICES ASSUME DiskOK, [Next]_vars PROVE DiskOK'
  OBVIOUS
<1> USE TailAssumption DEF TailAssumption
<1>1. CASE UNCHANGED onDisk
  BY <1>1 DEF DiskOK, onDisk
<1>2. CASE Clock
  BY <1>2 DEF Clock, DiskOK
<1>3. ASSUME NEW f \in File, Create(f) PROVE DiskOK'
  <2>1. /\ disk' = [disk EXCEPT ![f] = Created(disk[f])]
        /\ mtime' \in [Dir -> 0..LastTime] /\ UNCHANGED <<now, today>>
    BY <1>3 DEF Create, DiskOK, Created
  <2>2. disk[f] \in DiskType /\ \A d \in DiskType : d.bytes = 0 /\ d.rows = <<>> => HalfRow(d)
    BY Emptied DEF DiskOK, HalfRow
  <2>3. Created(disk[f]) \in DiskType /\ HalfRow(Created(disk[f]))
    BY <2>2, CreatedTyped
  <2> QED
    BY <2>1, <2>3 DEF DiskOK
<1>4. ASSUME NEW f \in File, Writes(f) PROVE DiskOK'
  <2>1. PICK d \in DiskType : disk' = [disk EXCEPT ![f] = d] /\ HalfRow(d)
    BY <1>4, WriteOne
  <2>2. UNCHANGED <<now, today, mtime>>
    BY <1>4 DEF Writes
  <2> QED
    BY <2>1, <2>2 DEF DiskOK
<1>5. ASSUME NEW f \in File, Cut(f) PROVE DiskOK'
  <2>1. disk[f] \in DiskType
    BY DEF DiskOK
  <2>2. \A d \in DiskType : d.bytes = 0 /\ d.rows = <<>> => HalfRow(d)
    BY Emptied DEF HalfRow
  <2>3. PICK d \in DiskType : disk' = [disk EXCEPT ![f] = d] /\ HalfRow(d)
    <3>1. \/ disk' = [disk EXCEPT ![f] = NextLife(disk[f])]
          \/ disk' = [disk EXCEPT ![f] = Removed(disk[f])]
      BY <1>5 DEF Cut, DiskOK, NextLife, Removed
    <3> QED
      BY <2>1, <2>2, <3>1, EmptiedTyped
  <2>4. /\ \/ mtime' = mtime
           \/ mtime' = [e \in Dir |-> IF f \in Codex /\ e = Parent[f] THEN now ELSE mtime[e]]
        /\ UNCHANGED <<now, today>>
    BY <1>5 DEF Cut
  <2>5. now \in 0..LastTime /\ mtime \in [Dir -> 0..LastTime]
    BY DEF DiskOK
  <2>6. mtime' \in [Dir -> 0..LastTime]
    BY <2>4, <2>5
  <2> QED
    BY <2>3, <2>4, <2>6 DEF DiskOK
<1>6. CASE UNCHANGED vars
  BY <1>1, <1>6 DEF vars
<1> QED
  BY <1>1, <1>2, <1>3, <1>4, <1>5, <1>6, NextSplit, TailStepKeeps DEF AgentStep

LEMMA CompleteRows ==
  ASSUME DiskOK, NEW f \in File
  PROVE  Complete(f) \in Nat /\ Complete(f) <= Len(disk[f].rows) /\ 2 * Complete(f) <= disk[f].bytes
<1>1. disk[f].bytes \in Nat /\ Len(disk[f].rows) \in Nat /\ HalfRow(disk[f])
  BY DEF DiskOK, DiskType
<1> QED
  BY <1>1 DEF Complete, HalfRow

LEMMA TurnTyped ==
  ASSUME DiskOK, NEW f \in File, NEW i \in 1..Complete(f)
  PROVE  Turn(f, i) \in Turns
<1>1. i \in 1..Len(disk[f].rows) /\ i \in Nat
  BY CompleteRows, DiskOK, f \in File
<1>2. disk[f].rows \in Seq(RowType) /\ disk[f].gen \in Nat
  BY DEF DiskOK, DiskType
<1>3. disk[f].rows[i] \in RowType
  BY <1>1, <1>2
<1>4. disk[f].rows[i].day \in 1..LastDay
  BY <1>3 DEF RowType
<1> QED
  BY <1>1, <1>2, <1>4 DEF Turn, Turns

LEMMA TurnsInTyped ==
  ASSUME DiskOK, NEW f \in File, NEW from, NEW to
  PROVE  TurnsIn(f, from, to) \subseteq Turns
BY TurnTyped DEF TurnsIn

(* The turns of a second reading are turns of the transcript as it is then, *)
(* however much shorter it has become.                                      *)
LEMMA NewTurnsBound ==
  ASSUME DiskOK, batch \in BatchType, batch.from < batch.to,
         NEW f \in File, batch.from # 0
  PROVE  \A t \in NewTurns(f) :
           \E i \in 1..Complete(f) : t = Turn(f, i) /\ 2 * i <= batch.to
<1> DEFINE new  == (batch.to - batch.from) \div 2
           n    == IF 2 * Complete(f) < batch.to THEN Complete(f) ELSE batch.to \div 2
           skip == IF new <= n THEN n - new ELSE IF new <= 2 * n THEN 2 * n - new ELSE 0
<1>1. batch.from \in Nat /\ batch.to \in Nat
  BY DEF BatchType
<1>2. Complete(f) \in Nat
  BY CompleteRows
<1>3. new \in Nat
  BY <1>1
<1>4. n \in Nat /\ n <= Complete(f) /\ 2 * n <= batch.to
  BY <1>1, <1>2
<1>5. skip \in Nat
  <2> HIDE DEF new, n
  <2> QED
    BY <1>3, <1>4
<1>6. NewTurns(f) = {Turn(f, i) : i \in (skip + 1)..n}
  BY DEF NewTurns
<1>7. \A i \in (skip + 1)..n : i \in 1..Complete(f) /\ 2 * i <= batch.to
  <2> HIDE DEF n, skip
  <2> QED
    BY <1>1, <1>2, <1>4, <1>5
<1> HIDE DEF n, skip
<1> QED
  BY <1>6, <1>7

LEMMA NewTurnsTyped ==
  ASSUME DiskOK, batch \in BatchType, batch.from < batch.to, NEW f \in File
  PROVE  NewTurns(f) \subseteq Turns
<1>1. CASE batch.from = 0
  BY <1>1 DEF NewTurns, BatchType
<1>2. CASE batch.from # 0
  BY <1>2, NewTurnsBound, TurnTyped
<1> QED
  BY <1>1, <1>2

LEMMA HandNext == TypeInv /\ [Next]_vars => HandOK'
<1> SUFFICES ASSUME TypeInv, [Next]_vars PROVE HandOK'
  OBVIOUS
<1> USE DEF HandOK, Busy
<1>0. HandOK /\ DiskOK /\ StoreOK /\ SweepOK
  BY DEF TypeInv
<1>1. CASE UNCHANGED <<pc, batch, kills>>
  BY <1>0, <1>1
<1>2. CASE Start \/ Tick
  BY <1>0, <1>2 DEF Start, Tick
<1>3. CASE Kill
  BY <1>0, <1>3, TailAssumption DEF Kill, TailAssumption
<1>4. ASSUME NEW f \in File, Vanished(f) \/ NothingNew(f) \/ PassesOver(f) \/ PersistFails(f) \/ Notify(f)
      PROVE  HandOK'
  BY <1>0, <1>4 DEF Vanished, NothingNew, PassesOver, PersistFails, Notify, NextFile
<1>5. ASSUME NEW f \in File, Reads(f) PROVE HandOK'
  <2>1. From(f) \in Nat
    BY <1>0 DEF From, StoreOK, SweepOK
  <2>2. End(f) \in Nat /\ disk[f].gen \in Nat
    BY <1>0, CompleteRows DEF End, DiskOK, DiskType
  <2>3. batch' \in BatchType
    BY <1>0, <1>5, <2>1, <2>2, TurnsInTyped DEF Reads, BatchType
  <2>4. batch'.from < batch'.to
    BY <1>5, <2>1, <2>2 DEF Reads
  <2> QED
    BY <1>0, <1>5, <2>3, <2>4 DEF Reads
<1>6. ASSUME NEW f \in File, Parse(f) PROVE HandOK'
  <2>1. batch \in BatchType /\ batch.from < batch.to
    BY <1>0, <1>6 DEF Parse
  <2>2. NewTurns(f) \subseteq Turns
    BY <1>0, <2>1, NewTurnsTyped
  <2>3. (IF Ours(f) THEN <<disk[f].gen, Complete(f)>> ELSE Unset) \in (Nat \X Nat) \union {Unset}
    BY <1>0, CompleteRows DEF DiskOK, DiskType
  <2>4. batch' \in BatchType /\ batch'.from = batch.from /\ batch'.to = batch.to
    BY <1>6, <2>1, <2>2, <2>3 DEF Parse, BatchType
  <2> QED
    BY <1>0, <1>6, <2>1, <2>4 DEF Parse
<1>7. ASSUME NEW f \in File, Persist(f) PROVE HandOK'
  BY <1>0, <1>7 DEF Persist, NextFile
<1>8. ASSUME NEW f \in File, Records(f) \/ Covers(f) PROVE HandOK'
  BY <1>0, <1>8 DEF Records, Covers
<1>9. CASE AgentStep \/ UNCHANGED vars
  BY <1>1, <1>9, AgentStepKeeps DEF vars
<1> QED
  BY <1>2, <1>3, <1>4, <1>5, <1>6, <1>7, <1>8, <1>9, NextSplit DEF TailStep, OfFile

LEMMA SweepNext == TypeInv /\ [Next]_vars => SweepOK'
<1> SUFFICES ASSUME TypeInv, [Next]_vars PROVE SweepOK'
  OBVIOUS
<1> USE DEF SweepOK, sweep
<1>0. HandOK /\ DiskOK /\ StoreOK /\ SweepOK
  BY DEF TypeInv
<1>1. CASE UNCHANGED <<sweep, mem, todo>>
  BY <1>0, <1>1
<1>a. ASSUME NEW kn \in SUBSET File, NEW tr \in [Codex -> (Nat \X Nat) \union {Unset}], NEW fl,
             Enumerate(kn, tr, fl)
      PROVE  /\ floor' \in 0..LastTime /\ swept' \in 0..LastTime
             /\ known' \subseteq File /\ kn \subseteq known'
             /\ tracked' \in [Codex -> (Nat \X Nat) \union {Unset}]
  <2>1. Claude \subseteq File /\ Codex \subseteq File
    BY DEF File
  <2>2. \A f \in Codex : Signature(f) \in Nat \X Nat
    BY <1>0, <2>1 DEF Signature, DiskOK, DiskType
  <2>3. now \in 0..LastTime
    BY <1>0, TailAssumption DEF DiskOK, TailAssumption
  <2>4. Peeked(kn, tr, fl) \subseteq File
    BY <2>1 DEF Peeked
  <2> QED
    BY <1>a, <2>1, <2>2, <2>3, <2>4 DEF Enumerate
<1>2. CASE Start
  <2>1. [f \in Codex |-> Unset] \in [Codex -> (Nat \X Nat) \union {Unset}] /\ {} \subseteq File
    OBVIOUS
  <2>2. PICK fl : Enumerate({}, [f \in Codex |-> Unset], fl)
    BY <1>2 DEF Start
  <2>3. mem' = offset /\ todo' = {}
    BY <1>0, <1>2 DEF Start, StoreOK
  <2> QED
    BY <1>0, <1>2, <1>a, <2>1, <2>2, <2>3 DEF Start, StoreOK
<1>3. CASE Tick
  <2>1. known \subseteq File /\ todo' = known' /\ mem' = mem
    BY <1>0, <1>3 DEF Tick
  <2>2. CASE now > swept
    BY <1>0, <1>3, <1>a, <2>1, <2>2 DEF Tick
  <2>3. CASE ~ (now > swept)
    BY <1>0, <1>3, <2>1, <2>3 DEF Tick
  <2> QED
    BY <2>2, <2>3
<1>4. CASE Kill
  BY <1>0, <1>4, TailAssumption DEF Kill, TailAssumption
<1>5. ASSUME NEW f \in File, Vanished(f) PROVE SweepOK'
  BY <1>0, <1>5 DEF Vanished, NextFile
<1>6. ASSUME NEW f \in File, NothingNew(f) \/ Reads(f) PROVE SweepOK'
  <2>1. From(f) \in Nat
    BY <1>0 DEF From, StoreOK
  <2> QED
    BY <1>0, <1>6, <2>1 DEF NothingNew, Reads, Opened, NextFile
<1>7. ASSUME NEW f \in File, PassesOver(f) \/ Persist(f) PROVE SweepOK'
  <2>1. batch.to \in Nat
    BY <1>0, <1>7 DEF PassesOver, Persist, HandOK, Busy, BatchType
  <2> QED
    BY <1>0, <1>7, <2>1 DEF PassesOver, Persist, NextFile
<1>8. ASSUME NEW f \in File, Parse(f) \/ PersistFails(f) \/ Records(f) \/ Covers(f) \/ Notify(f)
      PROVE  SweepOK'
  BY <1>0, <1>8 DEF Parse, PersistFails, Records, Covers, Notify, NextFile
<1>9. CASE AgentStep \/ UNCHANGED vars
  BY <1>1, <1>9, AgentStepKeeps DEF vars
<1> QED
  BY <1>2, <1>3, <1>4, <1>5, <1>6, <1>7, <1>8, <1>9, NextSplit DEF TailStep, OfFile

LEMMA StoreNext == TypeInv /\ [Next]_vars => StoreOK'
<1> SUFFICES ASSUME TypeInv, [Next]_vars PROVE StoreOK'
  OBVIOUS
<1> USE DEF StoreOK, durable
<1>0. HandOK /\ DiskOK /\ StoreOK /\ SweepOK
  BY DEF TypeInv
<1>1. CASE UNCHANGED <<durable, told>>
  BY <1>0, <1>1
<1>2. CASE Start \/ Tick
  <2>1. saved' \in {now, saved}
    BY <1>2 DEF Start, Tick, Enumerate, sweep
  <2>2. now \in 0..LastTime
    BY <1>0, TailAssumption DEF DiskOK, TailAssumption
  <2> QED
    BY <1>0, <1>2, <2>1, <2>2 DEF Start, Tick
<1>3. ASSUME NEW f \in File, PassesOver(f) \/ Persist(f) PROVE StoreOK'
  <2>1. batch.to \in Nat /\ batch.gen \in Nat /\ batch.session \in (Nat \X Nat) \union {Unset}
    BY <1>0, <1>3 DEF PassesOver, Persist, HandOK, Busy, BatchType
  <2> QED
    BY <1>0, <1>3, <2>1 DEF PassesOver, Persist
<1>4. ASSUME NEW f \in File, Records(f) \/ Covers(f) \/ Notify(f) PROVE StoreOK'
  <2>1. batch.turns \subseteq Turns /\ batch.gen \in Nat
    BY <1>0, <1>4 DEF Records, Covers, Notify, HandOK, Busy, BatchType
  <2>2. {<<t[4], Harness(f)>> : t \in batch.turns} \subseteq (1..LastDay) \X {"claude-code", "codex"}
    BY <2>1 DEF Turns, Harness
  <2>3. CASE Records(f)
    BY <1>0, <2>1, <2>3 DEF Records
  <2>4. CASE Covers(f)
    BY <1>0, <2>2, <2>4 DEF Covers
  <2>5. CASE Notify(f)
    BY <1>0, <2>1, <2>5 DEF Notify
  <2> QED
    BY <1>4, <2>3, <2>4, <2>5
<1>5. ASSUME NEW f \in File,
             Vanished(f) \/ NothingNew(f) \/ Reads(f) \/ Parse(f) \/ PersistFails(f)
      PROVE  StoreOK'
  BY <1>1, <1>5 DEF Vanished, NothingNew, Reads, Parse, PersistFails
<1>6. CASE Kill
  BY <1>1, <1>6 DEF Kill
<1>7. CASE AgentStep \/ UNCHANGED vars
  BY <1>1, <1>7, AgentStepKeeps DEF vars
<1> QED
  BY <1>2, <1>3, <1>4, <1>5, <1>6, <1>7, NextSplit DEF TailStep, OfFile

LEMMA TypeNext == TypeInv /\ [Next]_vars => TypeInv'
BY DiskNext, StoreNext, SweepNext, HandNext DEF TypeInv

(* Every variable keeps its type, whatever the agents write, cut and remove *)
(* between two steps of the tailer.                                         *)
THEOREM TypeCorrect == Spec => []TypeOK
<1>1. Spec => []TypeInv
  BY TypeInit, TypeNext, PTL DEF Spec
<1> QED
  BY <1>1, TypeInvType, PTL

-----------------------------------------------------------------------------
(* The store and the offset.                                                *)
(* StoreAtOffset and ToldIsStored speak of what is saved; that they stay so *)
(* rests on what is in hand.  Every offset, session and batch is of a life  *)
(* of its transcript and does not pass its end, for as long as it is the    *)
(* life there is; the session in hand holds the batch; and what it replaces *)
(* in the store is older, or shorter.                                       *)

\* What was taken from a life of f, up to a byte of it.
OfLife(f, gen, end) ==
  /\ gen <= disk[f].gen
  /\ gen = disk[f].gen /\ There(f) => end <= disk[f].bytes

Lives ==
  \A f \in File :
    /\ OfLife(f, since[f], offset[f])
    /\ stored[f] # Unset => OfLife(f, stored[f][1], 2 * stored[f][2])

BatchRead ==
  Busy => OfLife(batch.file, batch.gen, batch.to) /\ batch.to % 2 = 0

\* The session, as it was parsed, holds the batch.
SessionParsed ==
  Busy /\ pc # "parses" /\ batch.session # Unset =>
    /\ OfLife(batch.file, batch.session[1], 2 * batch.session[2])
    /\ batch.gen <= batch.session[1]
    /\ batch.gen = batch.session[1] => batch.to <= 2 * batch.session[2]

BareRows(f, to) == \A i \in 1..(to \div 2) : disk[f].rows[i].kind = "bare"

BatchUnnamed ==
  pc = "persists" /\ batch.session = Unset
    /\ batch.gen = disk[batch.file].gen /\ There(batch.file) => BareRows(batch.file, batch.to)

Replaces(new, old) == old[1] < new[1] \/ (old[1] = new[1] /\ old[2] <= new[2])

SessionNewer ==
  pc = "persists" /\ batch.session # Unset /\ stored[batch.file] # Unset =>
    Replaces(batch.session, stored[batch.file])

SessionStored ==
  pc \in {"chunks", "covers", "notifies"} =>
    batch.session # Unset /\ stored[batch.file] = batch.session

TurnsRead ==
  Busy => \A t \in batch.turns :
    /\ t[1] = batch.file /\ 2 * t[3] <= batch.to
    /\ \/ t[2] = batch.gen
       \/ /\ pc # "parses"
          /\ batch.session # Unset => t[2] = batch.session[1] /\ t[3] <= batch.session[2]

InHand == /\ BatchRead /\ SessionParsed /\ BatchUnnamed
          /\ SessionNewer /\ SessionStored /\ TurnsRead

IInv == TypeInv /\ Lives /\ InHand /\ StoreAtOffset /\ ToldIsStored

(* A life of a transcript only grows, and what is written stays.            *)
LEMMA LivesGrow ==
  ASSUME DiskOK, AgentStep, NEW f \in File
  PROVE  /\ disk[f].gen <= disk'[f].gen
         /\ There(f)' /\ disk'[f].gen = disk[f].gen =>
              /\ There(f) /\ disk[f].bytes <= disk'[f].bytes
              /\ \A i \in 1..Len(disk[f].rows) : disk'[f].rows[i] = disk[f].rows[i]
<1>0. disk[f] \in DiskType /\ disk[f].gen \in Nat /\ disk[f].bytes \in Nat /\ disk[f].rows \in Seq(RowType)
  BY DEF DiskOK, DiskType
<1>1. CASE disk'[f] = disk[f]
  BY <1>0, <1>1 DEF There
<1>2. CASE Clock
  BY <1>1, <1>2 DEF Clock
<1>3. ASSUME NEW g \in File, Create(g) \/ Writes(g) \/ Cut(g), g # f PROVE disk'[f] = disk[f]
  BY <1>3 DEF Create, Writes, Cut, DiskOK
<1>4. CASE Create(f)
  <2>1. disk'[f].gen = disk[f].gen + 1
    BY <1>4 DEF Create, DiskOK
  <2> QED
    BY <1>0, <2>1
<1>5. CASE Writes(f)
  <2>1. PICK d \in DiskType :
          /\ disk' = [disk EXCEPT ![f] = d] /\ HalfRow(d)
          /\ d.there = disk[f].there /\ d.gen = disk[f].gen /\ d.bytes = disk[f].bytes + 1
          /\ \/ d.rows = disk[f].rows
             \/ \E r \in RowType : d.rows = Append(disk[f].rows, r)
    BY <1>5, WriteOne
  <2>2. disk'[f] = d
    BY <2>1 DEF DiskOK
  <2>3. \A i \in 1..Len(disk[f].rows) : d.rows[i] = disk[f].rows[i]
    BY <1>0, <2>1
  <2> QED
    BY <1>0, <2>1, <2>2, <2>3 DEF There
<1>6. CASE Cut(f)
  <2>1. \/ disk' = [disk EXCEPT ![f] = NextLife(disk[f])]
        \/ disk' = [disk EXCEPT ![f] = Removed(disk[f])]
    BY <1>6 DEF Cut, DiskOK, NextLife, Removed
  <2>2. disk'[f] = NextLife(disk[f]) \/ disk'[f] = Removed(disk[f])
    BY <2>1 DEF DiskOK
  <2> QED
    BY <1>0, <2>2, EmptiedTyped DEF There
<1> QED
  BY <1>1, <1>2, <1>3, <1>4, <1>5, <1>6 DEF AgentStep

LEMMA OfLifeStays ==
  ASSUME DiskOK, DiskOK', AgentStep, NEW f \in File, NEW g \in Nat, NEW e \in Nat, OfLife(f, g, e)
  PROVE  OfLife(f, g, e)'
<1> disk[f].gen \in Nat /\ disk'[f].gen \in Nat /\ disk[f].bytes \in Nat /\ disk'[f].bytes \in Nat
  BY DEF DiskOK, DiskType
<1> QED
  BY LivesGrow DEF OfLife

LEMMA BareRowsStay ==
  ASSUME DiskOK, DiskOK', AgentStep, NEW f \in File, NEW e \in Nat,
         There(f)', disk'[f].gen = disk[f].gen, e <= disk[f].bytes, BareRows(f, e)
  PROVE  BareRows(f, e)'
<1>1. \A i \in 1..Len(disk[f].rows) : disk'[f].rows[i] = disk[f].rows[i]
  BY LivesGrow
<1>2. \A i \in 1..(e \div 2) : i \in 1..Len(disk[f].rows)
  <2> disk[f].bytes \in Nat /\ Len(disk[f].rows) \in Nat /\ HalfRow(disk[f])
    BY DEF DiskOK, DiskType
  <2> QED
    BY DEF HalfRow
<1> QED
  BY <1>1, <1>2 DEF BareRows

LEMMA HandTyped ==
  ASSUME TypeInv, Busy
  PROVE  /\ batch.file \in File /\ batch.from \in Nat /\ batch.to \in Nat /\ batch.gen \in Nat
         /\ batch.turns \subseteq Turns /\ batch.from < batch.to
         /\ batch.session # Unset =>
              batch.session \in Nat \X Nat /\ batch.session[1] \in Nat /\ batch.session[2] \in Nat
BY DEF TypeInv, HandOK, BatchType

(* What the agents do leaves all of it true. *)
LEMMA AgentsKeepInv ==
  ASSUME IInv, AgentStep, DiskOK'
  PROVE  Lives' /\ InHand' /\ StoreAtOffset' /\ ToldIsStored'
<1>0. /\ TypeInv /\ DiskOK /\ StoreOK
      /\ UNCHANGED <<offset, since, stored, chunks, told, pc, batch>>
  BY AgentStepKeeps DEF IInv, TypeInv, durable
<1>a. ASSUME NEW f \in File, stored[f] # Unset PROVE stored[f][1] \in Nat /\ stored[f][2] \in Nat
  BY <1>0, <1>a DEF StoreOK
<1>1. Lives'
  <2> SUFFICES ASSUME NEW f \in File
               PROVE  /\ OfLife(f, since[f], offset[f])'
                      /\ stored[f] # Unset => OfLife(f, stored[f][1], 2 * stored[f][2])'
    BY <1>0 DEF Lives, OfLife
  <2>1. OfLife(f, since[f], offset[f])'
    <3> since[f] \in Nat /\ offset[f] \in Nat /\ OfLife(f, since[f], offset[f])
      BY <1>0 DEF IInv, Lives, StoreOK
    <3> QED
      BY <1>0, OfLifeStays DEF OfLife
  <2>2. ASSUME stored[f] # Unset PROVE OfLife(f, stored[f][1], 2 * stored[f][2])'
    <3>1. OfLife(f, stored[f][1], 2 * stored[f][2])
      BY <2>2 DEF IInv, Lives
    <3>2. stored[f][1] \in Nat /\ 2 * stored[f][2] \in Nat
      BY <1>a, <2>2
    <3> QED
      BY <1>0, <3>1, <3>2, OfLifeStays DEF OfLife
  <2> QED
    BY <2>1, <2>2
<1>2. BatchRead'
  <2> SUFFICES ASSUME Busy PROVE OfLife(batch.file, batch.gen, batch.to)' /\ batch.to % 2 = 0
    BY <1>0 DEF BatchRead, Busy
  <2>1. OfLife(batch.file, batch.gen, batch.to) /\ batch.to % 2 = 0
    BY DEF IInv, InHand, BatchRead
  <2> QED
    BY <1>0, <2>1, HandTyped, OfLifeStays DEF OfLife
<1>3. SessionParsed'
  <2> SUFFICES ASSUME Busy, pc # "parses", batch.session # Unset
               PROVE  OfLife(batch.file, batch.session[1], 2 * batch.session[2])'
    BY <1>0 DEF IInv, InHand, SessionParsed, Busy
  <2>1. OfLife(batch.file, batch.session[1], 2 * batch.session[2])
    BY DEF IInv, InHand, SessionParsed
  <2>2. batch.file \in File /\ batch.session[1] \in Nat /\ 2 * batch.session[2] \in Nat
    BY <1>0, HandTyped
  <2> QED
    BY <1>0, <2>1, <2>2, OfLifeStays DEF OfLife
<1>4. BatchUnnamed'
  <2> SUFFICES ASSUME pc = "persists", batch.session = Unset,
                      batch.gen = disk'[batch.file].gen, There(batch.file)'
               PROVE  BareRows(batch.file, batch.to)'
    BY <1>0 DEF BatchUnnamed, There, BareRows
  <2>1. Busy /\ batch.file \in File /\ batch.to \in Nat /\ batch.gen \in Nat
    BY <1>0, HandTyped DEF Busy
  <2>2. OfLife(batch.file, batch.gen, batch.to)
    BY <2>1 DEF IInv, InHand, BatchRead
  <2>3. disk[batch.file].gen \in Nat /\ disk'[batch.file].gen \in Nat
    BY <1>0, <2>1 DEF DiskOK, DiskType
  <2>4. batch.gen = disk[batch.file].gen
    BY <1>0, <2>1, <2>2, <2>3, LivesGrow DEF OfLife
  <2>5. There(batch.file)
    BY <1>0, <2>1, <2>4, LivesGrow
  <2>6. BareRows(batch.file, batch.to) /\ batch.to <= disk[batch.file].bytes
    BY <2>2, <2>4, <2>5 DEF IInv, InHand, BatchUnnamed, OfLife
  <2> QED
    BY <1>0, <2>1, <2>4, <2>6, BareRowsStay DEF BareRows
<1>5. SessionNewer' /\ SessionStored' /\ TurnsRead' /\ ToldIsStored'
  BY <1>0 DEF IInv, InHand, SessionNewer, SessionStored, TurnsRead, ToldIsStored, InStore, Busy
<1>6. StoreAtOffset'
  <2> SUFFICES ASSUME NEW f \in File, since[f] = disk'[f].gen, There(f)'
               PROVE  \/ stored[f] # Unset /\ stored[f][1] = disk'[f].gen /\ offset[f] <= 2 * stored[f][2]
                      \/ BareRows(f, offset[f])'
    BY <1>0 DEF StoreAtOffset, There, BareRows
  <2>1. since[f] \in Nat /\ offset[f] \in Nat /\ OfLife(f, since[f], offset[f])
    BY <1>0 DEF IInv, Lives, StoreOK
  <2>2. disk[f].gen \in Nat /\ disk'[f].gen \in Nat
    BY <1>0 DEF DiskOK, DiskType
  <2>3. since[f] = disk[f].gen
    BY <1>0, <2>1, <2>2, LivesGrow DEF OfLife
  <2>4. There(f) /\ offset[f] <= disk[f].bytes
    BY <1>0, <2>1, <2>3, LivesGrow DEF OfLife
  <2>5. \/ stored[f] # Unset /\ stored[f][1] = disk[f].gen /\ offset[f] <= 2 * stored[f][2]
        \/ BareRows(f, offset[f])
    BY <2>3, <2>4 DEF IInv, StoreAtOffset, BareRows
  <2>6. BareRows(f, offset[f]) => BareRows(f, offset[f])'
    BY <1>0, <2>1, <2>3, <2>4, BareRowsStay DEF BareRows
  <2> QED
    BY <2>3, <2>5, <2>6
<1> QED
  BY <1>1, <1>2, <1>3, <1>4, <1>5, <1>6 DEF InHand

(* The tailer's own steps.  The reading. *)
LEMMA NotBusyInHand == ~ Busy => InHand
BY DEF InHand, Busy, BatchRead, SessionParsed, BatchUnnamed, SessionNewer, SessionStored, TurnsRead

LEMMA ReadsKeepsHand ==
  ASSUME IInv, NEW f \in File, Reads(f)
  PROVE  InHand'
<1>0. DiskOK /\ StoreOK /\ SweepOK /\ UNCHANGED <<disk, stored>>
  BY DEF Reads, onDisk, durable, IInv, TypeInv
<1>1. /\ pc' = "parses" /\ There(f)
      /\ batch' = [file |-> f, from |-> From(f), to |-> End(f), gen |-> disk[f].gen,
                   turns |-> TurnsIn(f, From(f), End(f)), session |-> Unset]
  BY DEF Reads, Opened
<1>2. End(f) <= disk[f].bytes /\ End(f) % 2 = 0 /\ End(f) \in Nat /\ disk[f].gen \in Nat
  BY <1>0, CompleteRows DEF End, DiskOK, DiskType
<1>3. /\ batch'.file = f /\ batch'.to = End(f) /\ batch'.gen = disk[f].gen
      /\ batch'.turns = TurnsIn(f, From(f), End(f))
  BY <1>1
<1>4. BatchRead'
  BY <1>0, <1>2, <1>3 DEF BatchRead, OfLife, There
<1>5. TurnsRead'
  <2>1. \A t \in TurnsIn(f, From(f), End(f)) :
          t[1] = f /\ 2 * t[3] <= End(f) /\ t[2] = disk[f].gen
    BY DEF TurnsIn, Turn
  <2> QED
    BY <1>3, <2>1 DEF TurnsRead
<1>6. SessionParsed' /\ BatchUnnamed' /\ SessionNewer' /\ SessionStored'
  BY <1>1 DEF SessionParsed, BatchUnnamed, SessionNewer, SessionStored
<1> QED
  BY <1>4, <1>5, <1>6 DEF InHand

LEMMA ParseKeepsHand ==
  ASSUME IInv, NEW f \in File, Parse(f)
  PROVE  InHand'
<1>0. TypeInv /\ DiskOK /\ StoreOK /\ UNCHANGED <<disk, stored>>
  BY DEF Parse, onDisk, durable, IInv, TypeInv
<1>1. pc = "parses" /\ pc' = "persists" /\ batch.file = f /\ Busy
  BY DEF Parse, Busy
<1>2. /\ batch.from \in Nat /\ batch.to \in Nat /\ batch.gen \in Nat /\ batch.from < batch.to
      /\ batch \in BatchType
  BY <1>0, <1>1, HandTyped DEF TypeInv, HandOK
<1>3. /\ batch'.file = f /\ batch'.to = batch.to /\ batch'.gen = batch.gen
      /\ batch'.turns = NewTurns(f)
      /\ batch'.session = IF Ours(f) THEN <<disk[f].gen, Complete(f)>> ELSE Unset
  BY <1>1, <1>2 DEF Parse, BatchType
<1>4. /\ OfLife(f, batch.gen, batch.to) /\ batch.to % 2 = 0
      /\ \A t \in batch.turns : t[1] = f /\ 2 * t[3] <= batch.to /\ t[2] = batch.gen
  BY <1>1 DEF IInv, InHand, BatchRead, TurnsRead
<1>5. /\ Complete(f) \in Nat /\ 2 * Complete(f) <= disk[f].bytes
      /\ Complete(f) = disk[f].bytes \div 2 /\ disk[f].bytes \in Nat /\ disk[f].gen \in Nat
  BY <1>0, CompleteRows DEF Complete, DiskOK, DiskType
<1>6. BatchRead'
  BY <1>0, <1>3, <1>4 DEF BatchRead, OfLife, There
<1>7. batch.gen = disk[f].gen /\ There(f) => batch.to <= 2 * Complete(f)
  <2> SUFFICES ASSUME batch.to <= disk[f].bytes PROVE batch.to <= 2 * Complete(f)
    BY <1>4 DEF OfLife
  <2> QED
    BY <1>2, <1>4, <1>5
<1>8. ASSUME Ours(f) PROVE SessionParsed' /\ SessionNewer'
  <2>1. /\ There(f) /\ batch'.session = <<disk[f].gen, Complete(f)>>
        /\ batch'.session[1] = disk[f].gen /\ batch'.session[2] = Complete(f)
    BY <1>3, <1>8 DEF Ours, Named
  <2>2. SessionParsed'
    BY <1>0, <1>2, <1>3, <1>4, <1>5, <1>7, <2>1 DEF SessionParsed, OfLife, There
  <2>3. SessionNewer'
    <3> SUFFICES ASSUME stored[f] # Unset PROVE Replaces(batch'.session, stored[f])
      BY <1>0, <1>3 DEF SessionNewer, Replaces
    <3>1. stored[f][1] \in Nat /\ stored[f][2] \in Nat /\ OfLife(f, stored[f][1], 2 * stored[f][2])
      BY <1>0 DEF StoreOK, IInv, Lives
    <3>2. CASE stored[f][1] = disk[f].gen
      <4> 2 * stored[f][2] <= disk[f].bytes
        BY <2>1, <3>1, <3>2 DEF OfLife
      <4> stored[f][2] <= Complete(f)
        BY <1>5, <3>1
      <4> QED
        BY <2>1, <3>2 DEF Replaces
    <3>3. CASE stored[f][1] # disk[f].gen
      BY <1>5, <2>1, <3>1, <3>3 DEF OfLife, Replaces
    <3> QED
      BY <3>2, <3>3
  <2> QED
    BY <2>2, <2>3
<1>9. ASSUME ~ Ours(f) PROVE SessionParsed' /\ SessionNewer'
  BY <1>3, <1>9 DEF SessionParsed, SessionNewer
<1>10. BatchUnnamed'
  <2> SUFFICES ASSUME ~ Ours(f), batch.gen = disk[f].gen, There(f) PROVE BareRows(f, batch.to)
    <3> <<disk[f].gen, Complete(f)>> \in Nat \X Nat
      BY <1>5
    <3> <<disk[f].gen, Complete(f)>> # Unset
      BY TailAssumption DEF TailAssumption
    <3> QED
      BY <1>0, <1>3 DEF BatchUnnamed, There, BareRows
  <2> SUFFICES ASSUME NEW i \in 1..(batch.to \div 2) PROVE disk[f].rows[i].kind = "bare"
    BY DEF BareRows
  <2>1. i \in 1..Complete(f)
    BY <1>2, <1>5, <1>7
  <2>2. disk[f].rows[i] \in RowType
    <3> disk[f].rows \in Seq(RowType) /\ i \in 1..Len(disk[f].rows)
      BY <1>0, <2>1, CompleteRows DEF DiskOK, DiskType
    <3> QED
      OBVIOUS
  <2>3. disk[f].rows[i].kind \in {"named", "bare"}
    BY <2>2, TailAssumption DEF RowType, TailAssumption
  <2> QED
    BY <2>1, <2>3 DEF Ours, Named
<1>11. TurnsRead'
  <2> SUFFICES ASSUME NEW t \in NewTurns(f)
               PROVE  /\ t[1] = f /\ 2 * t[3] <= batch.to
                      /\ \/ t[2] = batch.gen
                         \/ batch'.session # Unset =>
                              t[2] = batch'.session[1] /\ t[3] <= batch'.session[2]
    BY <1>1, <1>3 DEF TurnsRead
  <2>1. CASE batch.from = 0
    BY <1>4, <2>1 DEF NewTurns
  <2>2. CASE batch.from # 0
    <3>1. PICK i \in 1..Complete(f) : t = Turn(f, i) /\ 2 * i <= batch.to
      BY <1>0, <1>2, <2>2, NewTurnsBound
    <3>2. t[1] = f /\ t[2] = disk[f].gen /\ t[3] = i
      BY <3>1 DEF Turn
    <3> QED
      BY <1>3, <1>5, <3>1, <3>2
  <2> QED
    BY <2>1, <2>2
<1>12. SessionStored'
  BY <1>1 DEF SessionStored
<1> QED
  BY <1>6, <1>8, <1>9, <1>10, <1>11, <1>12 DEF InHand

(* The writes.  What is stored is newer than what it replaces, so who was   *)
(* in the store is in it still.                                             *)
LEMMA ReplacedIsInStore ==
  ASSUME TypeInv, NEW f \in File, NEW g \in Nat, NEW i \in Nat, InStore(f, g, i),
         stored'[f] # Unset, stored'[f] \in Nat \X Nat, Replaces(stored'[f], stored[f])
  PROVE  InStore(f, g, i)'
<1> stored[f] # Unset /\ stored[f][1] \in Nat /\ stored[f][2] \in Nat
  BY DEF InStore, TypeInv, StoreOK
<1> QED
  BY DEF InStore, Replaces

LEMMA PersistKeepsInv ==
  ASSUME IInv, NEW f \in File, Persist(f)
  PROVE  Lives' /\ InHand' /\ StoreAtOffset' /\ ToldIsStored'
<1>0. /\ TypeInv /\ DiskOK /\ StoreOK /\ UNCHANGED <<disk, chunks, told>>
  BY DEF Persist, onDisk, IInv, TypeInv
<1>1. /\ pc = "persists" /\ batch.file = f /\ batch.session # Unset /\ Busy
      /\ stored' = [stored EXCEPT ![f] = batch.session]
      /\ offset' = [offset EXCEPT ![f] = batch.to] /\ since' = [since EXCEPT ![f] = batch.gen]
  BY DEF Persist, Busy
<1>2. /\ stored'[f] = batch.session /\ offset'[f] = batch.to /\ since'[f] = batch.gen
      /\ \A g \in File \ {f} :
           stored'[g] = stored[g] /\ offset'[g] = offset[g] /\ since'[g] = since[g]
  BY <1>0, <1>1 DEF StoreOK
<1>3. /\ batch.to \in Nat /\ batch.gen \in Nat /\ batch.session \in Nat \X Nat
      /\ batch.session[1] \in Nat /\ batch.session[2] \in Nat
  BY <1>0, <1>1, HandTyped
<1>4. /\ OfLife(f, batch.gen, batch.to)
      /\ OfLife(f, batch.session[1], 2 * batch.session[2])
      /\ batch.gen <= batch.session[1]
      /\ batch.gen = batch.session[1] => batch.to <= 2 * batch.session[2]
  BY <1>1 DEF IInv, InHand, BatchRead, SessionParsed
<1>5. Lives'
  <2> SUFFICES ASSUME NEW g \in File
               PROVE  /\ OfLife(g, since'[g], offset'[g])
                      /\ stored'[g] # Unset => OfLife(g, stored'[g][1], 2 * stored'[g][2])
    BY <1>0 DEF Lives, OfLife, There
  <2>1. CASE g = f
    BY <1>2, <1>4, <2>1
  <2>2. CASE g # f
    BY <1>2, <2>2 DEF IInv, Lives
  <2> QED
    BY <2>1, <2>2
<1>6. StoreAtOffset'
  <2> SUFFICES ASSUME NEW g \in File, since'[g] = disk[g].gen, There(g)
               PROVE  \/ stored'[g] # Unset /\ stored'[g][1] = disk[g].gen
                           /\ offset'[g] <= 2 * stored'[g][2]
                      \/ \A i \in 1..(offset'[g] \div 2) : disk[g].rows[i].kind = "bare"
    BY <1>0 DEF StoreAtOffset, There
  <2>1. CASE g = f
    <3> disk[f].gen \in Nat
      BY <1>0 DEF DiskOK, DiskType
    <3> batch.session[1] = disk[f].gen
      BY <1>2, <1>3, <1>4, <2>1 DEF OfLife
    <3> QED
      BY <1>1, <1>2, <1>4, <2>1
  <2>2. CASE g # f
    <3> stored'[g] = stored[g] /\ offset'[g] = offset[g] /\ since'[g] = since[g]
      BY <1>2, <2>2
    <3> QED
      BY DEF IInv, StoreAtOffset
  <2> QED
    BY <2>1, <2>2
<1>7. ASSUME NEW g \in File, NEW l \in Nat, NEW i \in Nat, InStore(g, l, i)
      PROVE  InStore(g, l, i)'
  <2>1. CASE g = f
    <3>1. stored[f] # Unset
      BY <1>7, <2>1 DEF InStore
    <3>2. Replaces(stored'[f], stored[f])
      BY <1>1, <1>2, <3>1 DEF IInv, InHand, SessionNewer
    <3> QED
      BY <1>0, <1>1, <1>2, <1>3, <1>7, <2>1, <3>2, ReplacedIsInStore
  <2>2. CASE g # f
    <3> stored'[g] = stored[g]
      BY <1>2, <2>2
    <3> QED
      BY <1>7 DEF InStore
  <2> QED
    BY <2>1, <2>2
<1>8. ToldIsStored'
  <2>1. ASSUME NEW t \in told PROVE InStore(t[1][1], t[2], t[1][3])'
    <3> t[1][1] \in File /\ t[2] \in Nat /\ t[1][3] \in Nat
      BY <1>0 DEF StoreOK, Turns
    <3> QED
      BY <1>7 DEF IInv, ToldIsStored
  <2>2. ASSUME NEW t \in chunks PROVE InStore(t[1], t[2], t[3])'
    <3> t[1] \in File /\ t[2] \in Nat /\ t[3] \in Nat
      BY <1>0 DEF StoreOK, Turns
    <3> QED
      BY <1>7 DEF IInv, ToldIsStored
  <2> QED
    BY <1>0, <2>1, <2>2 DEF ToldIsStored
<1>9. InHand'
  <2>1. CASE pc' = "chunks" /\ UNCHANGED batch
    <3>1. BatchRead' /\ SessionParsed' /\ TurnsRead'
      BY <1>0, <1>1, <2>1 DEF IInv, InHand, BatchRead, SessionParsed, TurnsRead, OfLife, There, Busy
    <3>2. BatchUnnamed' /\ SessionNewer' /\ SessionStored'
      BY <1>1, <1>2, <2>1 DEF BatchUnnamed, SessionNewer, SessionStored
    <3> QED
      BY <3>1, <3>2 DEF InHand
  <2>2. CASE pc' = "scans"
    BY <2>2 DEF InHand, Busy, BatchRead, SessionParsed, BatchUnnamed, SessionNewer,
                SessionStored, TurnsRead
  <2> QED
    BY <2>1, <2>2 DEF Persist, NextFile
<1> QED
  BY <1>5, <1>6, <1>8, <1>9

LEMMA PassesOverKeepsInv ==
  ASSUME IInv, NEW f \in File, PassesOver(f)
  PROVE  Lives' /\ InHand' /\ StoreAtOffset' /\ ToldIsStored'
<1>0. /\ TypeInv /\ DiskOK /\ StoreOK /\ UNCHANGED <<disk, stored, chunks, told>>
  BY DEF PassesOver, onDisk, IInv, TypeInv
<1>1. /\ pc = "persists" /\ batch.file = f /\ batch.session = Unset /\ Busy
      /\ pc' = "scans"
  BY DEF PassesOver, NextFile, Busy
<1>2. OfLife(f, batch.gen, batch.to)
  BY <1>1 DEF IInv, InHand, BatchRead
<1>3. batch.gen = disk[f].gen /\ There(f) => BareRows(f, batch.to)
  BY <1>1 DEF IInv, InHand, BatchUnnamed
<1>4. ASSUME NEW g \in File
      PROVE  \/ offset'[g] = offset[g] /\ since'[g] = since[g]
             \/ g = f /\ offset'[g] = batch.to /\ since'[g] = batch.gen
  BY <1>0 DEF PassesOver, StoreOK
<1>5. Lives'
  <2> SUFFICES ASSUME NEW g \in File
               PROVE  /\ OfLife(g, since'[g], offset'[g])
                      /\ stored[g] # Unset => OfLife(g, stored[g][1], 2 * stored[g][2])
    BY <1>0 DEF Lives, OfLife, There
  <2> QED
    BY <1>2, <1>4 DEF IInv, Lives
<1>6. StoreAtOffset'
  <2> SUFFICES ASSUME NEW g \in File, since'[g] = disk[g].gen, There(g)
               PROVE  \/ stored[g] # Unset /\ stored[g][1] = disk[g].gen
                           /\ offset'[g] <= 2 * stored[g][2]
                      \/ \A i \in 1..(offset'[g] \div 2) : disk[g].rows[i].kind = "bare"
    BY <1>0 DEF StoreAtOffset, There
  <2>1. CASE offset'[g] = offset[g] /\ since'[g] = since[g]
    BY <2>1 DEF IInv, StoreAtOffset
  <2>2. CASE g = f /\ offset'[g] = batch.to /\ since'[g] = batch.gen
    BY <1>3, <2>2 DEF BareRows
  <2> QED
    BY <1>4, <2>1, <2>2
<1>7. ToldIsStored'
  BY <1>0 DEF IInv, ToldIsStored, InStore
<1>8. InHand'
  BY <1>1 DEF InHand, Busy, BatchRead, SessionParsed, BatchUnnamed, SessionNewer,
              SessionStored, TurnsRead
<1> QED
  BY <1>5, <1>6, <1>7, <1>8

(* What is in hand once the session is stored may be passed on.             *)
LEMMA BatchIsInStore ==
  ASSUME IInv, pc \in {"chunks", "covers", "notifies"}, NEW t \in batch.turns
  PROVE  InStore(t[1], t[2], t[3]) /\ InStore(t[1], batch.gen, t[3])
<1>1. Busy /\ pc # "parses"
  BY DEF Busy
<1>2. /\ TypeInv /\ batch.session # Unset /\ stored[batch.file] = batch.session
      /\ batch.session[1] \in Nat /\ batch.session[2] \in Nat /\ batch.gen \in Nat
      /\ batch.to \in Nat
  BY <1>1, HandTyped DEF IInv, InHand, SessionStored
<1>3. t \in Turns /\ t[3] \in Nat
  BY <1>1, <1>2, HandTyped DEF Turns
<1>4. /\ batch.gen <= batch.session[1]
      /\ batch.gen = batch.session[1] => batch.to <= 2 * batch.session[2]
      /\ t[1] = batch.file /\ 2 * t[3] <= batch.to
      /\ t[2] = batch.gen \/ (t[2] = batch.session[1] /\ t[3] <= batch.session[2])
  BY <1>1, <1>2 DEF IInv, InHand, SessionParsed, TurnsRead
<1> QED
  BY <1>2, <1>3, <1>4 DEF InStore

LEMMA PassOnKeepsInv ==
  ASSUME IInv, NEW f \in File, Records(f) \/ Covers(f) \/ Notify(f)
  PROVE  Lives' /\ InHand' /\ StoreAtOffset' /\ ToldIsStored'
<1>0. TypeInv /\ UNCHANGED <<disk, stored, offset, since>>
  BY DEF Records, Covers, Notify, onDisk, durable, IInv
<1>1. pc \in {"chunks", "covers", "notifies"} /\ Busy
  BY DEF Records, Covers, Notify, Busy
<1>2. Lives' /\ StoreAtOffset'
  BY <1>0 DEF IInv, Lives, StoreAtOffset, OfLife, There
<1>3. InHand'
  <2>1. CASE pc' \in {"covers", "notifies"} /\ UNCHANGED batch
    BY <1>0, <1>1, <2>1 DEF IInv, InHand, BatchRead, SessionParsed, BatchUnnamed, SessionNewer,
                            SessionStored, TurnsRead, OfLife, There, Busy
  <2>2. CASE pc' = "scans"
    BY <2>2 DEF InHand, Busy, BatchRead, SessionParsed, BatchUnnamed, SessionNewer,
                SessionStored, TurnsRead
  <2> QED
    BY <2>1, <2>2 DEF Records, Covers, Notify, NextFile
<1>4. ToldIsStored'
  <2>1. \A t \in chunks' : t \in chunks \/ t \in batch.turns
    BY DEF Records, Covers, Notify, durable
  <2>2. \A t \in told' : t \in told \/ (t[1] \in batch.turns /\ t[2] = batch.gen)
    BY DEF Records, Covers, Notify
  <2>3. ASSUME NEW t \in chunks' PROVE InStore(t[1], t[2], t[3])'
    <3> InStore(t[1], t[2], t[3])
      BY <1>1, <2>1, BatchIsInStore DEF IInv, ToldIsStored
    <3> QED
      BY <1>0 DEF InStore
  <2>4. ASSUME NEW t \in told' PROVE InStore(t[1][1], t[2], t[1][3])'
    <3>1. CASE t \in told
      BY <1>0, <3>1 DEF IInv, ToldIsStored, InStore
    <3>2. CASE t[1] \in batch.turns /\ t[2] = batch.gen
      <4> InStore(t[1][1], batch.gen, t[1][3])
        BY <1>1, <3>2, BatchIsInStore
      <4> QED
        BY <1>0, <3>2 DEF InStore
    <3> QED
      BY <2>2, <3>1, <3>2
  <2> QED
    BY <2>3, <2>4 DEF ToldIsStored
<1> QED
  BY <1>2, <1>3, <1>4

LEMMA OthersKeepStores ==
  ASSUME \/ Start \/ Tick \/ Kill
         \/ \E f \in File : Vanished(f) \/ NothingNew(f) \/ Reads(f) \/ Parse(f) \/ PersistFails(f)
  PROVE  UNCHANGED <<disk, offset, since, stored, chunks, told>>
BY DEF Start, Tick, Kill, Vanished, NothingNew, Reads, Parse, PersistFails, onDisk, durable

LEMMA StoresKept ==
  ASSUME IInv, UNCHANGED <<disk, offset, since, stored, chunks, told>>
  PROVE  Lives' /\ StoreAtOffset' /\ ToldIsStored'
BY DEF IInv, Lives, StoreAtOffset, ToldIsStored, InStore, OfLife, There

LEMMA TailKeepsInv ==
  ASSUME IInv, TailStep
  PROVE  Lives' /\ InHand' /\ StoreAtOffset' /\ ToldIsStored'
<1>1. CASE Start \/ Tick \/ Kill
  <2>1. pc' \in {"off", "scans"}
    BY <1>1 DEF Start, Tick, Kill
  <2>2. InHand'
    BY <2>1 DEF InHand, Busy, BatchRead, SessionParsed, BatchUnnamed, SessionNewer,
                SessionStored, TurnsRead
  <2> QED
    BY <1>1, <2>2, OthersKeepStores, StoresKept
<1>2. ASSUME NEW f \in File, Vanished(f) \/ NothingNew(f) \/ PersistFails(f)
      PROVE  Lives' /\ InHand' /\ StoreAtOffset' /\ ToldIsStored'
  <2>1. pc' = "scans"
    BY <1>2 DEF Vanished, NothingNew, PersistFails, NextFile
  <2>2. InHand'
    BY <2>1 DEF InHand, Busy, BatchRead, SessionParsed, BatchUnnamed, SessionNewer,
                SessionStored, TurnsRead
  <2> QED
    BY <1>2, <2>2, OthersKeepStores, StoresKept
<1>3. ASSUME NEW f \in File, Reads(f) \/ Parse(f)
      PROVE  Lives' /\ InHand' /\ StoreAtOffset' /\ ToldIsStored'
  BY <1>3, ReadsKeepsHand, ParseKeepsHand, OthersKeepStores, StoresKept
<1> QED
  BY <1>1, <1>2, <1>3, PersistKeepsInv, PassesOverKeepsInv, PassOnKeepsInv
     DEF TailStep, OfFile

LEMMA InvInit == Init => IInv
<1> SUFFICES ASSUME Init PROVE IInv
  OBVIOUS
<1>1. TypeInv
  BY TypeInit
<1>2. Lives /\ StoreAtOffset
  BY DEF Init, Lives, OfLife, StoreAtOffset, There
<1>3. InHand /\ ToldIsStored
  BY DEF Init, ToldIsStored, InHand, Busy, BatchRead, SessionParsed, BatchUnnamed, SessionNewer,
         SessionStored, TurnsRead
<1> QED
  BY <1>1, <1>2, <1>3 DEF IInv

LEMMA InvNext == IInv /\ [Next]_vars => IInv'
<1> SUFFICES ASSUME IInv, [Next]_vars PROVE IInv'
  OBVIOUS
<1>1. TypeInv'
  BY TypeNext DEF IInv
<1>2. CASE AgentStep
  BY <1>1, <1>2, AgentsKeepInv DEF IInv, TypeInv
<1>3. CASE TailStep
  BY <1>1, <1>3, TailKeepsInv DEF IInv
<1>4. CASE UNCHANGED vars
  BY <1>1, <1>4 DEF IInv, Lives, InHand, StoreAtOffset, ToldIsStored, InStore, Busy, BatchRead,
     SessionParsed, BatchUnnamed, SessionNewer, SessionStored, TurnsRead, OfLife, There, BareRows,
     vars, onDisk, durable
<1> QED
  BY <1>2, <1>3, <1>4, NextSplit

LEMMA InvCorrect == Spec => []IInv
BY InvInit, InvNext, PTL DEF Spec

(* Whatever a saved offset has passed is in the stored session, for as long *)
(* as the transcript lives, unless nothing before it named the project:     *)
(* however often the process dies, the database refuses a write or a        *)
(* transcript is cut while it is read.                                      *)
THEOREM StoredUpToTheOffset == Spec => []StoreAtOffset
<1>1. IInv => StoreAtOffset
  BY DEF IInv
<1> QED
  BY <1>1, InvCorrect, PTL

(* What a compile is told of, and what is filed under its day, is in the    *)
(* store already and stays there.                                           *)
THEOREM ToldAfterStored == Spec => []ToldIsStored
<1>1. IInv => ToldIsStored
  BY DEF IInv
<1> QED
  BY <1>1, InvCorrect, PTL

-----------------------------------------------------------------------------
(* Passed on once.                                                          *)
(* Turns that were passed on lie before the offset, in the store and in     *)
(* memory, of the life they were read in, and so before whatever batch is   *)
(* in hand; and the turns of a batch lie behind its beginning.              *)

AbsentIsEmpty ==
  \A f \in File : (~ There(f) => disk[f].bytes = 0) /\ (There(f) => disk[f].gen >= 1)

InMemory(f, n) == mem[f] # Unset => n <= mem[f] /\ mem[f] <= disk[f].bytes

Passed(f, turn, gen) ==
  /\ gen <= disk[f].gen
  /\ turn[2] # gen => gen < disk[f].gen
  /\ gen = disk[f].gen /\ There(f) =>
       since[f] = gen /\ 2 * turn[3] <= offset[f] /\ InMemory(f, 2 * turn[3])

ToldPassed == \A t \in told : Passed(t[1][1], t[1], t[2])

ToldBefore ==
  Busy => \A t \in told : t[1][1] = batch.file =>
    /\ t[2] <= batch.gen
    /\ t[2] = batch.gen => t[1][2] = batch.gen /\ 2 * t[1][3] <= batch.from

TurnsNew == Busy => \A t \in batch.turns : t[2] = batch.gen => batch.from < 2 * t[3]

OffsetMoved ==
  pc \in {"chunks", "covers", "notifies"} =>
    /\ offset[batch.file] = batch.to /\ mem[batch.file] = batch.to
    /\ since[batch.file] = batch.gen

OnceInv == IInv /\ AbsentIsEmpty /\ ToldPassed /\ ToldBefore /\ TurnsNew /\ OffsetMoved

LEMMA AbsentNext == DiskOK /\ AbsentIsEmpty /\ [Next]_vars => AbsentIsEmpty'
<1> SUFFICES ASSUME DiskOK, AbsentIsEmpty, [Next]_vars, NEW f \in File
             PROVE  (~ There(f)' => disk'[f].bytes = 0) /\ (There(f)' => disk'[f].gen >= 1)
  BY DEF AbsentIsEmpty, There
<1>0. disk[f] \in DiskType /\ disk[f].gen \in Nat
  BY DEF DiskOK, DiskType
<1>1. CASE disk'[f] = disk[f]
  BY <1>1 DEF AbsentIsEmpty, There
<1>2. CASE TailStep \/ Clock \/ UNCHANGED vars
  BY <1>1, <1>2, TailStepKeeps DEF onDisk, vars, Clock
<1>3. ASSUME NEW g \in File, Create(g) \/ Writes(g) \/ Cut(g), g # f PROVE disk'[f] = disk[f]
  BY <1>3 DEF Create, Writes, Cut, DiskOK
<1>4. CASE Create(f)
  <2>1. disk'[f] = [there |-> "yes", gen |-> disk[f].gen + 1, bytes |-> 0, rows |-> <<>>]
    BY <1>4 DEF Create, DiskOK
  <2> QED
    BY <1>0, <2>1 DEF There
<1>5. CASE Writes(f)
  <2>1. disk'[f].there = disk[f].there /\ disk'[f].gen = disk[f].gen /\ There(f)
    BY <1>5, WriteOne DEF DiskOK, Writes
  <2> QED
    BY <1>0, <2>1 DEF AbsentIsEmpty, There
<1>6. CASE Cut(f)
  <2>1. \/ disk' = [disk EXCEPT ![f] = NextLife(disk[f])]
        \/ disk' = [disk EXCEPT ![f] = Removed(disk[f])]
    BY <1>6 DEF Cut, DiskOK, NextLife, Removed
  <2>2. disk'[f] = NextLife(disk[f]) \/ disk'[f] = Removed(disk[f])
    BY <2>1 DEF DiskOK
  <2> QED
    BY <1>0, <2>2, EmptiedTyped DEF There
<1> QED
  BY <1>1, <1>2, <1>3, <1>4, <1>5, <1>6, NextSplit DEF AgentStep

LEMMA ToldTyped ==
  ASSUME TypeInv, NEW t \in told
  PROVE  /\ t[1] \in Turns /\ t[1][1] \in File /\ t[1][2] \in Nat /\ t[1][3] \in Nat /\ t[2] \in Nat
BY DEF TypeInv, StoreOK, Turns

LEMMA AgentsKeepPassed ==
  ASSUME TypeInv, DiskOK', ToldPassed, AgentStep
  PROVE  ToldPassed'
<1>0. DiskOK /\ SweepOK /\ UNCHANGED <<told, since, offset, mem>>
  BY AgentStepKeeps DEF TypeInv, durable
<1> SUFFICES ASSUME NEW t \in told PROVE Passed(t[1][1], t[1], t[2])'
  BY <1>0 DEF ToldPassed, Passed, There, InMemory
<1> DEFINE f == t[1][1]
<1>1. f \in File /\ t[2] \in Nat /\ t[1][3] \in Nat /\ Passed(f, t[1], t[2])
  BY ToldTyped DEF ToldPassed
<1>2. /\ disk[f].gen \in Nat /\ disk'[f].gen \in Nat /\ disk[f].bytes \in Nat /\ disk'[f].bytes \in Nat
      /\ mem[f] \in Nat \union {Unset}
  BY <1>0, <1>1 DEF DiskOK, DiskType, SweepOK
<1>3. /\ disk[f].gen <= disk'[f].gen
      /\ There(f)' /\ disk'[f].gen = disk[f].gen => There(f) /\ disk[f].bytes <= disk'[f].bytes
  BY <1>0, <1>1, LivesGrow
<1> QED
  BY <1>0, <1>1, <1>2, <1>3 DEF Passed, InMemory

LEMMA AgentsKeepOnce ==
  ASSUME OnceInv, AgentStep, DiskOK'
  PROVE  ToldPassed' /\ ToldBefore' /\ TurnsNew' /\ OffsetMoved'
<1>1. ToldPassed'
  BY AgentsKeepPassed DEF OnceInv, IInv
<1>2. UNCHANGED <<told, since, offset, mem, pc, batch>>
  BY AgentStepKeeps DEF durable
<1>3. ToldBefore' /\ TurnsNew' /\ OffsetMoved'
  BY <1>2 DEF OnceInv, ToldBefore, TurnsNew, OffsetMoved, Busy
<1> QED
  BY <1>1, <1>3

(* A transcript is read from where the turns that were passed on end.       *)
LEMMA FromPassed ==
  ASSUME OnceInv, NEW t \in told, t[2] = disk[t[1][1]].gen, There(t[1][1])
  PROVE  /\ 2 * t[1][3] <= From(t[1][1]) /\ From(t[1][1]) <= disk[t[1][1]].bytes
         /\ From(t[1][1]) = IF mem[t[1][1]] = Unset THEN offset[t[1][1]] ELSE mem[t[1][1]]
<1> DEFINE f == t[1][1]
<1>1. f \in File /\ t[1][3] \in Nat
  BY ToldTyped DEF OnceInv, IInv
<1>2. since[f] = t[2] /\ 2 * t[1][3] <= offset[f] /\ InMemory(f, 2 * t[1][3])
  BY DEF OnceInv, ToldPassed, Passed
<1>3. offset[f] <= disk[f].bytes
  BY <1>1, <1>2 DEF OnceInv, IInv, Lives, OfLife
<1>4. offset[f] \in Nat /\ disk[f].bytes \in Nat /\ mem[f] \in Nat \union {Unset}
  BY <1>1 DEF OnceInv, IInv, TypeInv, StoreOK, SweepOK, DiskOK, DiskType
<1>5. CASE mem[f] = Unset
  BY <1>2, <1>3, <1>4, <1>5 DEF From
<1>6. CASE mem[f] # Unset
  BY <1>2, <1>4, <1>6 DEF From, InMemory
<1> QED
  BY <1>5, <1>6

(* What is passed stays so when offsets stay and memory is read anew.       *)
LEMMA PassedStays ==
  ASSUME OnceInv, UNCHANGED <<disk, told, since, offset>>,
         \A f \in File : mem'[f] \in {mem[f], Unset, offset[f]}
                         \/ (mem[f] = Unset /\ There(f) /\ mem'[f] = From(f))
  PROVE  ToldPassed'
<1> SUFFICES ASSUME NEW t \in told PROVE Passed(t[1][1], t[1], t[2])'
  BY DEF ToldPassed, Passed, There, InMemory
<1> DEFINE f == t[1][1]
<1>1. f \in File /\ Passed(f, t[1], t[2])
  BY ToldTyped DEF OnceInv, IInv, ToldPassed
<1>2. ASSUME t[2] = disk[f].gen, There(f) PROVE InMemory(f, 2 * t[1][3])'
  <2>1. InMemory(f, 2 * t[1][3]) /\ since[f] = t[2] /\ 2 * t[1][3] <= offset[f]
    BY <1>1, <1>2 DEF Passed
  <2>2. offset[f] <= disk[f].bytes
    BY <1>1, <1>2, <2>1 DEF OnceInv, IInv, Lives, OfLife
  <2>3. 2 * t[1][3] <= From(f) /\ From(f) <= disk[f].bytes
    BY <1>2, FromPassed
  <2> QED
    BY <1>1, <2>1, <2>2, <2>3 DEF InMemory
<1> QED
  BY <1>1, <1>2 DEF Passed, There

LEMMA ReadsKeepsOnce ==
  ASSUME OnceInv, NEW f \in File, Reads(f)
  PROVE  ToldPassed' /\ ToldBefore' /\ TurnsNew' /\ OffsetMoved'
<1>0. DiskOK /\ StoreOK /\ SweepOK /\ UNCHANGED <<disk, told, since, offset>>
  BY DEF Reads, onDisk, durable, OnceInv, IInv, TypeInv
<1>1. /\ pc' = "parses" /\ There(f)
      /\ batch' = [file |-> f, from |-> From(f), to |-> End(f), gen |-> disk[f].gen,
                   turns |-> TurnsIn(f, From(f), End(f)), session |-> Unset]
      /\ mem' = [mem EXCEPT ![f] = IF @ = Unset THEN From(f) ELSE @]
  BY DEF Reads, Opened
<1>2. /\ batch'.file = f /\ batch'.from = From(f) /\ batch'.gen = disk[f].gen
      /\ batch'.turns = TurnsIn(f, From(f), End(f))
  BY <1>1
<1>3. ToldPassed'
  <2> \A g \in File : mem'[g] = mem[g] \/ (mem[g] = Unset /\ There(g) /\ mem'[g] = From(g))
    BY <1>0, <1>1 DEF SweepOK
  <2> QED
    BY <1>0, PassedStays
<1>4. ToldBefore'
  <2> SUFFICES ASSUME NEW t \in told, t[1][1] = f
               PROVE  /\ t[2] <= disk[f].gen
                      /\ t[2] = disk[f].gen => t[1][2] = disk[f].gen /\ 2 * t[1][3] <= From(f)
    BY <1>0, <1>2 DEF ToldBefore
  <2>1. Passed(f, t[1], t[2])
    BY DEF OnceInv, ToldPassed
  <2>2. disk[f].gen \in Nat
    BY <1>0 DEF DiskOK, DiskType
  <2> QED
    BY <1>1, <2>1, <2>2, FromPassed DEF Passed
<1>5. TurnsNew'
  <2>1. ASSUME NEW t \in TurnsIn(f, From(f), End(f)) PROVE From(f) < 2 * t[3]
    <3>1. PICK i \in 1..Complete(f) : t = Turn(f, i) /\ From(f) <= 2 * (i - 1)
      BY <2>1 DEF TurnsIn
    <3>2. From(f) \in Nat /\ Complete(f) \in Nat /\ t[3] = i
      BY <1>0, <3>1, CompleteRows DEF From, StoreOK, SweepOK, Turn
    <3> QED
      BY <3>1, <3>2
  <2> QED
    BY <1>2, <2>1 DEF TurnsNew
<1>6. OffsetMoved'
  BY <1>1 DEF OffsetMoved
<1> QED
  BY <1>3, <1>4, <1>5, <1>6

LEMMA HalfOf ==
  ASSUME NEW a \in Nat, NEW b \in Nat, a < b, NEW m, m = (b - a) \div 2
  PROVE  m \in Nat /\ 2 * m <= b - a /\ b - a <= 2 * m + 1 /\ (a % 2 = 0 /\ b % 2 = 0 => 2 * m = b - a)
OBVIOUS

(* If the transcript still is what was read, the second reading finds the   *)
(* rows of the batch, and not one before it.                                *)
LEMMA NewTurnsBehind ==
  ASSUME DiskOK, AbsentIsEmpty, batch \in BatchType, batch.from < batch.to, batch.to % 2 = 0,
         NEW f \in File, batch.from # 0, OfLife(f, batch.gen, batch.to), batch.gen = disk[f].gen
  PROVE  /\ \A t \in NewTurns(f) : batch.from < 2 * t[3]
         /\ There(f) /\ batch.from % 2 = 0 => \A i \in 1..(batch.to \div 2) :
              batch.from < 2 * i => Turn(f, i) \in NewTurns(f)
<1> DEFINE new  == (batch.to - batch.from) \div 2
           n    == IF 2 * Complete(f) < batch.to THEN Complete(f) ELSE batch.to \div 2
           skip == IF new <= n THEN n - new ELSE IF new <= 2 * n THEN 2 * n - new ELSE 0
           half == batch.to \div 2
<1>1. batch.from \in Nat /\ batch.to \in Nat /\ half \in Nat /\ batch.to = 2 * half
  BY DEF BatchType
<1>2. Complete(f) \in Nat /\ Complete(f) = disk[f].bytes \div 2 /\ disk[f].bytes \in Nat
  BY CompleteRows DEF Complete, DiskOK, DiskType
<1>3. NewTurns(f) = {Turn(f, i) : i \in (skip + 1)..n}
  BY DEF NewTurns
<1>5. /\ new \in Nat /\ new <= half
      /\ \A i \in ((half - new) + 1)..half : batch.from < 2 * i
      /\ batch.from % 2 = 0 => \A i \in 1..half : batch.from < 2 * i => i \in ((half - new) + 1)..half
  <2> HIDE DEF half
  <2>1. new = (batch.to - batch.from) \div 2
    OBVIOUS
  <2>2. batch.from < batch.to /\ batch.to % 2 = 0
    OBVIOUS
  <2>3. /\ new \in Nat /\ 2 * new <= batch.to - batch.from /\ batch.to - batch.from <= 2 * new + 1
        /\ batch.from % 2 = 0 => 2 * new = batch.to - batch.from
    <3> HIDE DEF new
    <3> QED
      BY <1>1, <2>1, <2>2, HalfOf
  <2> HIDE DEF new, n, skip
  <2>4. new <= half
    BY <1>1, <2>3
  <2>5. ASSUME NEW i \in ((half - new) + 1)..half PROVE batch.from < 2 * i
    BY <1>1, <2>3, <2>4
  <2>6. ASSUME batch.from % 2 = 0, NEW i \in 1..half, batch.from < 2 * i
        PROVE  i \in ((half - new) + 1)..half
    <3>1. 2 * new = batch.to - batch.from
      BY <2>3, <2>6
    <3> QED
      BY <1>1, <2>3, <2>6, <3>1
  <2> QED
    BY <2>3, <2>4, <2>5, <2>6
<1>6. CASE There(f)
  <2>1. batch.to <= disk[f].bytes
    BY <1>6 DEF OfLife
  <2>2. n = half
    BY <1>1, <1>2, <2>1
  <2>3. skip = half - new
    <3> HIDE DEF new, n, half
    <3> QED
      BY <1>5, <2>2
  <2>4. (skip + 1)..n = ((half - new) + 1)..half
    <3> HIDE DEF skip, n, half, new
    <3> QED
      BY <2>2, <2>3
  <2>5. NewTurns(f) = {Turn(f, i) : i \in ((half - new) + 1)..half}
    <3> HIDE DEF skip, n, half, new
    <3> QED
      BY <1>3, <2>4
  <2>6. ASSUME NEW t \in NewTurns(f) PROVE batch.from < 2 * t[3]
    <3> HIDE DEF half, new
    <3>1. PICK i \in ((half - new) + 1)..half : t = Turn(f, i)
      BY <2>5
    <3>2. t[3] = i
      BY <3>1 DEF Turn
    <3> QED
      BY <1>5, <3>1, <3>2
  <2>7. ASSUME batch.from % 2 = 0, NEW i \in 1..half, batch.from < 2 * i
        PROVE  Turn(f, i) \in NewTurns(f)
    <3> HIDE DEF half, new
    <3> QED
      BY <1>5, <2>5, <2>7
  <2> QED
    BY <2>6, <2>7
<1>7. CASE ~ There(f)
  <2>1. disk[f].bytes = 0
    BY <1>7 DEF AbsentIsEmpty
  <2>2. Complete(f) = 0 /\ n = 0
    BY <1>1, <1>2, <2>1
  <2>3. skip \in Nat
    <3> HIDE DEF new
    <3>1. skip = IF new <= 0 THEN 0 - new ELSE IF new <= 0 THEN 0 - new ELSE 0
      <4> HIDE DEF n
      <4> QED
        BY <1>5, <2>2
    <3> HIDE DEF n
    <3> QED
      BY <1>5, <3>1
  <2>4. NewTurns(f) = {}
    <3> HIDE DEF skip, n
    <3>1. (skip + 1)..n = {}
      BY <2>2, <2>3
    <3> QED
      BY <1>3, <3>1
  <2> QED
    BY <1>7, <2>4
<1> QED
  BY <1>6, <1>7

LEMMA ParseKeepsOnce ==
  ASSUME OnceInv, NEW f \in File, Parse(f)
  PROVE  ToldPassed' /\ ToldBefore' /\ TurnsNew' /\ OffsetMoved'
<1>0. TypeInv /\ DiskOK /\ UNCHANGED <<disk, told, since, offset, mem>>
  BY DEF Parse, onDisk, durable, OnceInv, IInv, TypeInv
<1>1. pc = "parses" /\ pc' = "persists" /\ batch.file = f /\ Busy
  BY DEF Parse, Busy
<1>2. batch \in BatchType /\ batch.from < batch.to
  BY <1>0, <1>1 DEF TypeInv, HandOK
<1>3. /\ batch'.file = f /\ batch'.from = batch.from /\ batch'.gen = batch.gen
      /\ batch'.turns = NewTurns(f)
  BY <1>1, <1>2 DEF Parse, BatchType
<1>4. ToldPassed'
  BY <1>0, PassedStays
<1>5. ToldBefore'
  BY <1>0, <1>1, <1>3 DEF OnceInv, ToldBefore
<1>6. TurnsNew'
  <2> SUFFICES ASSUME NEW t \in NewTurns(f), t[2] = batch.gen PROVE batch.from < 2 * t[3]
    BY <1>3 DEF TurnsNew
  <2>1. CASE batch.from = 0
    BY <1>1, <2>1 DEF NewTurns, OnceInv, TurnsNew
  <2>2. CASE batch.from # 0
    <3>1. t[2] = disk[f].gen
      <4>1. PICK i \in 1..Complete(f) : t = Turn(f, i)
        BY <1>0, <1>2, <2>2, NewTurnsBound DEF BatchType
      <4> QED
        BY <4>1 DEF Turn
    <3>2. OfLife(f, batch.gen, batch.to) /\ batch.to % 2 = 0
      BY <1>1 DEF OnceInv, IInv, InHand, BatchRead
    <3> QED
      BY <1>0, <1>2, <2>2, <3>1, <3>2, NewTurnsBehind DEF OnceInv
  <2> QED
    BY <2>1, <2>2
<1>7. OffsetMoved'
  BY <1>1 DEF OffsetMoved
<1> QED
  BY <1>4, <1>5, <1>6, <1>7

(* The offset moves past all that was passed on of the life it is of.       *)
LEMMA PersistKeepsOnce ==
  ASSUME OnceInv, NEW f \in File, Persist(f) \/ PassesOver(f)
  PROVE  ToldPassed' /\ ToldBefore' /\ TurnsNew' /\ OffsetMoved'
<1>0. TypeInv /\ DiskOK /\ StoreOK /\ SweepOK /\ UNCHANGED <<disk, told>>
  BY DEF Persist, PassesOver, onDisk, durable, OnceInv, IInv, TypeInv
<1>1. pc = "persists" /\ batch.file = f /\ Busy
  BY DEF Persist, PassesOver, Busy
<1>2. /\ batch.from \in Nat /\ batch.to \in Nat /\ batch.gen \in Nat /\ batch.from < batch.to
      /\ disk[f].gen \in Nat /\ disk[f].bytes \in Nat
  BY <1>0, <1>1, HandTyped DEF DiskOK, DiskType
<1>3. OfLife(f, batch.gen, batch.to)
  BY <1>1 DEF OnceInv, IInv, InHand, BatchRead
<1>4. /\ mem'[f] = batch.to /\ \A g \in File \ {f} : mem'[g] = mem[g]
      /\ \A g \in File \ {f} : offset'[g] = offset[g] /\ since'[g] = since[g]
      /\ \/ offset'[f] = batch.to /\ since'[f] = batch.gen
         \/ pc' = "scans" /\ offset'[f] = offset[f] /\ since'[f] = since[f]
  BY <1>0, <1>1 DEF Persist, PassesOver, NextFile, StoreOK, SweepOK
<1>5. ToldPassed'
  <2> SUFFICES ASSUME NEW t \in told PROVE Passed(t[1][1], t[1], t[2])'
    BY <1>0 DEF ToldPassed, Passed, There, InMemory
  <2>1. t[1][1] \in File /\ t[2] \in Nat /\ t[1][3] \in Nat /\ Passed(t[1][1], t[1], t[2])
    BY <1>0, ToldTyped DEF OnceInv, ToldPassed
  <2>2. CASE t[1][1] # f
    BY <1>0, <1>4, <2>1, <2>2 DEF Passed, InMemory, There
  <2>3. CASE t[1][1] = f
    <3>1. t[2] <= batch.gen /\ (t[2] = batch.gen => 2 * t[1][3] <= batch.from)
      BY <1>1, <2>3 DEF OnceInv, ToldBefore
    <3>2. ASSUME t[2] = disk[f].gen, There(f)
          PROVE  since'[f] = t[2] /\ 2 * t[1][3] <= offset'[f] /\ InMemory(f, 2 * t[1][3])'
      <4>1. t[2] = batch.gen /\ batch.to <= disk[f].bytes /\ 2 * t[1][3] <= batch.to
        BY <1>2, <1>3, <2>1, <3>1, <3>2 DEF OfLife
      <4>2. InMemory(f, 2 * t[1][3])'
        BY <1>0, <1>4, <4>1 DEF InMemory
      <4>3. since'[f] = t[2] /\ 2 * t[1][3] <= offset'[f]
        BY <1>4, <2>1, <2>3, <3>2, <4>1 DEF Passed
      <4> QED
        BY <4>2, <4>3
    <3> QED
      BY <1>0, <2>1, <2>3, <3>2 DEF Passed, There
  <2> QED
    BY <2>2, <2>3
<1>6. CASE pc' = "scans"
  BY <1>5, <1>6 DEF ToldBefore, TurnsNew, OffsetMoved, Busy
<1>7. CASE pc' = "chunks" /\ UNCHANGED batch
  <2>1. ToldBefore' /\ TurnsNew'
    BY <1>0, <1>1, <1>7 DEF OnceInv, ToldBefore, TurnsNew
  <2>2. OffsetMoved'
    BY <1>1, <1>4, <1>7 DEF OffsetMoved
  <2> QED
    BY <1>5, <2>1, <2>2
<1> QED
  BY <1>6, <1>7 DEF Persist, PassesOver, NextFile

LEMMA NotifyKeepsOnce ==
  ASSUME OnceInv, NEW f \in File, Notify(f)
  PROVE  ToldPassed' /\ ToldBefore' /\ TurnsNew' /\ OffsetMoved'
<1>0. /\ TypeInv /\ DiskOK /\ UNCHANGED <<disk, since, offset, mem>>
      /\ told' = told \union (batch.turns \X {batch.gen})
  BY DEF Notify, onDisk, durable, OnceInv, IInv, TypeInv
<1>1. pc = "notifies" /\ pc' = "scans" /\ batch.file = f /\ Busy /\ pc # "parses"
  BY DEF Notify, NextFile, Busy
<1>2. /\ offset[f] = batch.to /\ mem[f] = batch.to /\ since[f] = batch.gen
      /\ OfLife(f, batch.gen, batch.to) /\ batch.session # Unset
      /\ OfLife(f, batch.session[1], 2 * batch.session[2]) /\ batch.gen <= batch.session[1]
      /\ \A t \in batch.turns :
           /\ t[1] = f /\ 2 * t[3] <= batch.to
           /\ t[2] = batch.gen \/ t[2] = batch.session[1]
  BY <1>1 DEF OnceInv, OffsetMoved, IInv, InHand, BatchRead, SessionStored, SessionParsed, TurnsRead
<1>3. /\ batch.to \in Nat /\ batch.gen \in Nat /\ batch.session[1] \in Nat
      /\ f \in File /\ disk[f].gen \in Nat
  BY <1>0, <1>1, <1>2, HandTyped DEF DiskOK, DiskType
<1>4. ASSUME NEW t \in batch.turns PROVE Passed(f, t, batch.gen)
  <2>1. batch.gen <= disk[f].gen /\ batch.session[1] <= disk[f].gen
    BY <1>2 DEF OfLife
  <2>2. t[2] # batch.gen => batch.gen < disk[f].gen
    BY <1>2, <1>3, <2>1
  <2>3. batch.gen = disk[f].gen /\ There(f) => InMemory(f, 2 * t[3])
    BY <1>2 DEF OfLife, InMemory
  <2> QED
    BY <1>2, <2>1, <2>2, <2>3 DEF Passed
<1>5. \A t \in told' : Passed(t[1][1], t[1], t[2])
  <2> SUFFICES ASSUME NEW t \in told' PROVE Passed(t[1][1], t[1], t[2])
    OBVIOUS
  <2>1. CASE t \in told
    BY <2>1 DEF OnceInv, ToldPassed
  <2>2. CASE t[1] \in batch.turns /\ t[2] = batch.gen
    <3> t[1][1] = f
      BY <1>2, <2>2
    <3> QED
      BY <1>4, <2>2
  <2> QED
    BY <1>0, <2>1, <2>2
<1>6. ToldPassed'
  BY <1>0, <1>5 DEF ToldPassed, Passed, There, InMemory
<1> QED
  BY <1>1, <1>6 DEF ToldBefore, TurnsNew, OffsetMoved, Busy

LEMMA TailKeepsOnce ==
  ASSUME OnceInv, TailStep
  PROVE  ToldPassed' /\ ToldBefore' /\ TurnsNew' /\ OffsetMoved'
<1>0. SweepOK /\ StoreOK
  BY DEF OnceInv, IInv, TypeInv
<1>1. CASE Start \/ Tick \/ Kill
  <2>1. pc' \in {"off", "scans"} /\ UNCHANGED <<disk, told, since, offset>>
    BY <1>1 DEF Start, Tick, Kill, onDisk, durable
  <2>2. \A f \in File : mem'[f] \in {mem[f], Unset, offset[f]}
    BY <1>0, <1>1 DEF Start, Tick, Kill, SweepOK, StoreOK
  <2>3. ToldPassed'
    BY <2>1, <2>2, PassedStays
  <2> QED
    BY <2>1, <2>3 DEF ToldBefore, TurnsNew, OffsetMoved, Busy
<1>2. ASSUME NEW f \in File, Vanished(f) \/ NothingNew(f) \/ PersistFails(f)
      PROVE  ToldPassed' /\ ToldBefore' /\ TurnsNew' /\ OffsetMoved'
  <2>1. pc' = "scans" /\ UNCHANGED <<disk, told, since, offset>>
    BY <1>2 DEF Vanished, NothingNew, PersistFails, NextFile, onDisk, durable
  <2>2. \A g \in File : mem'[g] \in {mem[g], Unset, offset[g]}
                        \/ (mem[g] = Unset /\ There(g) /\ mem'[g] = From(g))
    BY <1>0, <1>2 DEF Vanished, NothingNew, PersistFails, Opened, SweepOK
  <2>3. ToldPassed'
    BY <2>1, <2>2, PassedStays
  <2> QED
    BY <2>1, <2>3 DEF ToldBefore, TurnsNew, OffsetMoved, Busy
<1>3. ASSUME NEW f \in File, Records(f) \/ Covers(f)
      PROVE  ToldPassed' /\ ToldBefore' /\ TurnsNew' /\ OffsetMoved'
  <2>1. /\ UNCHANGED <<disk, told, since, offset, mem, batch>>
        /\ pc \in {"chunks", "covers"} /\ Busy
    BY <1>3 DEF Records, Covers, onDisk, Busy
  <2>2. ToldPassed'
    BY <2>1, PassedStays
  <2>3. ToldBefore' /\ TurnsNew' /\ OffsetMoved'
    BY <2>1 DEF OnceInv, ToldBefore, TurnsNew, OffsetMoved
  <2> QED
    BY <2>2, <2>3
<1> QED
  BY <1>1, <1>2, <1>3, ReadsKeepsOnce, ParseKeepsOnce, PersistKeepsOnce, NotifyKeepsOnce
     DEF TailStep, OfFile

LEMMA OnceInit == Init => OnceInv
<1> SUFFICES ASSUME Init PROVE OnceInv
  OBVIOUS
<1>1. AbsentIsEmpty /\ ToldPassed /\ ToldBefore /\ TurnsNew /\ OffsetMoved
  BY DEF Init, AbsentIsEmpty, There, ToldPassed, ToldBefore, TurnsNew, OffsetMoved, Busy
<1> QED
  BY <1>1, InvInit DEF OnceInv

LEMMA OnceNext == OnceInv /\ [Next]_vars => OnceInv'
<1> SUFFICES ASSUME OnceInv, [Next]_vars PROVE OnceInv'
  OBVIOUS
<1>1. IInv'
  BY InvNext DEF OnceInv
<1>2. AbsentIsEmpty'
  BY AbsentNext DEF OnceInv, IInv, TypeInv
<1>3. DiskOK'
  BY <1>1 DEF IInv, TypeInv
<1>4. ASSUME UNCHANGED vars PROVE ToldPassed' /\ ToldBefore' /\ TurnsNew' /\ OffsetMoved'
  BY <1>4 DEF OnceInv, ToldPassed, ToldBefore, TurnsNew, OffsetMoved, Passed, InMemory, There, Busy,
              vars, onDisk, durable
<1>5. ToldPassed' /\ ToldBefore' /\ TurnsNew' /\ OffsetMoved'
  BY <1>3, <1>4, AgentsKeepOnce, TailKeepsOnce, NextSplit
<1> QED
  BY <1>1, <1>2, <1>5 DEF OnceInv

(* No reading of a life of a transcript passes a turn on twice.  Before it  *)
(* is passed on, the offset has moved past it, in the store and in memory;  *)
(* a batch begins at the offset of the life it is read in, and the second   *)
(* reading takes no row from before the batch unless the life changed.      *)
THEOREM PassedOnOnce == Spec => ToldOnce
<1>1. OnceInv => (pc = "notifies" => told \intersect (batch.turns \X {batch.gen}) = {})
  <2> SUFFICES ASSUME OnceInv, pc = "notifies", NEW t \in told,
                      t[1] \in batch.turns, t[2] = batch.gen
               PROVE  FALSE
    OBVIOUS
  <2>1. Busy /\ TypeInv
    BY DEF Busy, OnceInv, IInv
  <2>2. t[1][1] = batch.file
    BY <2>1 DEF OnceInv, IInv, InHand, TurnsRead
  <2>3. t[1][2] = batch.gen /\ 2 * t[1][3] <= batch.from
    BY <2>1, <2>2 DEF OnceInv, ToldBefore
  <2>4. batch.from < 2 * t[1][3]
    BY <2>1, <2>3 DEF OnceInv, TurnsNew
  <2>5. t[1][3] \in Nat /\ batch.from \in Nat
    BY <2>1, ToldTyped, HandTyped
  <2> QED
    BY <2>3, <2>4, <2>5
<1>2. OnceInv => [pc = "notifies" /\ pc' = "scans" =>
                    told \intersect (batch.turns \X {batch.gen}) = {}]_vars
  BY <1>1
<1> QED
  BY <1>2, OnceInit, OnceNext, PTL DEF Spec, ToldOnce

-----------------------------------------------------------------------------
(* Nothing is skipped.                                                      *)
(* In the first life of a transcript no offset passes its end, and nobody   *)
(* is killed, so what is in memory is what is in the store; a batch begins  *)
(* there and holds every row up to its end.                                 *)

BatchGen == Busy => batch.gen >= 1

Early(f) == disk[f].gen = 0 \/ (disk[f].gen = 1 /\ There(f))

EarlyOffsets ==
  \A f \in File : Early(f) =>
    offset[f] <= disk[f].bytes /\ (mem[f] # Unset => mem[f] <= disk[f].bytes)

Watched(f) ==
  /\ kills = 0 /\ There(f) /\ disk[f].gen = 1
  /\ Len(disk[f].rows) >= 1 /\ disk[f].rows[1].kind = "named"

InMemoryToo == \A f \in File : Watched(f) => offset[f] % 2 = 0 /\ mem[f] \in {Unset, offset[f]}

PassedOn(f, i) ==
  \/ <<Turn(f, i), 1>> \in told
  \/ pc \in {"chunks", "covers", "notifies"} /\ Turn(f, i) \in batch.turns

AllPassedOn == \A f \in File : Watched(f) => \A i \in 1..(offset[f] \div 2) : PassedOn(f, i)

BatchWhole ==
  Busy /\ Watched(batch.file) =>
    /\ pc \in {"parses", "persists"} => batch.from = offset[batch.file]
    /\ batch.from % 2 = 0
    /\ \A i \in 1..(batch.to \div 2) :
         batch.from < 2 * i => Turn(batch.file, i) \in batch.turns

SkipInv == /\ OnceInv /\ BatchGen /\ EarlyOffsets
           /\ InMemoryToo /\ AllPassedOn /\ BatchWhole

LEMMA Typed ==
  ASSUME TypeInv, NEW f \in File
  PROVE  /\ disk[f].gen \in Nat /\ disk[f].bytes \in Nat /\ offset[f] \in Nat
         /\ mem[f] \in Nat \union {Unset} /\ Len(disk[f].rows) \in Nat
         /\ 2 * Len(disk[f].rows) - 1 <= disk[f].bytes /\ disk[f].bytes <= 2 * Len(disk[f].rows)
BY DEF TypeInv, DiskOK, StoreOK, SweepOK, DiskType, HalfRow

(* The batch of a first life is of that life, and no longer than it.        *)
LEMMA FirstBatch ==
  ASSUME OnceInv, BatchGen, Busy, Early(batch.file)
  PROVE  /\ batch.gen = 1 /\ disk[batch.file].gen = 1 /\ There(batch.file)
         /\ batch.to <= disk[batch.file].bytes /\ batch.to % 2 = 0
<1>1. OfLife(batch.file, batch.gen, batch.to) /\ batch.to % 2 = 0
  BY DEF OnceInv, IInv, InHand, BatchRead
<1>2. batch.file \in File /\ batch.gen \in Nat /\ batch.gen >= 1 /\ disk[batch.file].gen \in Nat
  BY HandTyped, Typed DEF OnceInv, IInv, BatchGen
<1> QED
  BY <1>1, <1>2 DEF OfLife, Early

LEMMA EarlyAgents ==
  ASSUME OnceInv, DiskOK', AgentStep, NEW f \in File, Early(f)'
  PROVE  Early(f) /\ disk[f].bytes <= disk'[f].bytes
<1>0. /\ DiskOK /\ disk[f].gen \in Nat /\ disk'[f].gen \in Nat
      /\ disk[f].bytes \in Nat /\ disk'[f].bytes \in Nat
  BY DEF OnceInv, IInv, TypeInv, DiskOK, DiskType
<1>1. disk[f].gen <= disk'[f].gen /\ (disk'[f].gen = 0 \/ (disk'[f].gen = 1 /\ There(f)'))
  BY <1>0, LivesGrow DEF Early
<1>2. CASE disk[f].gen = 0
  <2> ~ There(f) /\ disk[f].bytes = 0
    BY <1>2 DEF OnceInv, AbsentIsEmpty
  <2> QED
    BY <1>0, <1>2 DEF Early
<1>3. CASE disk[f].gen # 0
  <2>1. disk'[f].gen = disk[f].gen /\ disk[f].gen = 1 /\ There(f)'
    BY <1>0, <1>1, <1>3
  <2> QED
    BY <1>0, <2>1, LivesGrow DEF Early
<1> QED
  BY <1>2, <1>3

(* A transcript is watched from its first row on.                           *)
LEMMA WatchedGrows ==
  ASSUME SkipInv, DiskOK', AgentStep, NEW f \in File, Watched(f)'
  PROVE  \/ /\ Watched(f)
            /\ \A i \in 1..(disk[f].bytes \div 2) : Turn(f, i)' = Turn(f, i)
         \/ Early(f) /\ disk[f].bytes = 0
<1>1. /\ DiskOK /\ kills' = kills /\ disk[f].gen \in Nat /\ disk[f].bytes \in Nat
      /\ Len(disk[f].rows) \in Nat /\ disk[f].bytes <= 2 * Len(disk[f].rows)
      /\ 2 * Len(disk[f].rows) - 1 <= disk[f].bytes
  BY AgentStepKeeps, Typed DEF SkipInv, OnceInv, IInv, TypeInv
<1>2. Early(f)
  BY EarlyAgents DEF SkipInv, Watched, Early
<1>3. CASE disk[f].gen = 0
  <2> ~ There(f)
    BY <1>3 DEF SkipInv, OnceInv, AbsentIsEmpty
  <2> QED
    BY <1>2 DEF SkipInv, OnceInv, AbsentIsEmpty
<1>4. CASE disk[f].gen = 1 /\ There(f)
  <2>1. \A i \in 1..Len(disk[f].rows) : disk'[f].rows[i] = disk[f].rows[i]
    BY <1>1, <1>4, LivesGrow DEF Watched
  <2>2. CASE Len(disk[f].rows) = 0
    BY <1>1, <1>2, <2>2
  <2>3. CASE Len(disk[f].rows) # 0
    <3>1. 1 \in 1..Len(disk[f].rows)
      BY <1>1, <2>3
    <3>2. Watched(f)
      BY <1>1, <1>4, <2>1, <3>1 DEF Watched
    <3>3. ASSUME NEW i \in 1..(disk[f].bytes \div 2) PROVE Turn(f, i)' = Turn(f, i)
      <4>1. i \in 1..Len(disk[f].rows)
        BY <1>1
      <4> QED
        BY <1>4, <2>1, <4>1 DEF Turn, Watched
    <3> QED
      BY <3>2, <3>3
  <2> QED
    BY <2>2, <2>3
<1> QED
  BY <1>2, <1>3, <1>4 DEF Early

SkipKept == BatchGen' /\ EarlyOffsets' /\ InMemoryToo' /\ AllPassedOn' /\ BatchWhole'

LEMMA AgentsKeepSkip ==
  ASSUME SkipInv, OnceInv', AgentStep
  PROVE  SkipKept
<1>0. /\ UNCHANGED <<told, since, offset, mem, pc, batch, kills>> /\ DiskOK' /\ TypeInv
      /\ OnceInv /\ TypeInv'
  BY AgentStepKeeps DEF durable, OnceInv, IInv, TypeInv, SkipInv
<1>1. BatchGen'
  BY <1>0 DEF SkipInv, BatchGen, Busy
<1>2. EarlyOffsets'
  <2> SUFFICES ASSUME NEW f \in File, Early(f)'
               PROVE  offset[f] <= disk'[f].bytes /\ (mem[f] # Unset => mem[f] <= disk'[f].bytes)
    BY <1>0 DEF EarlyOffsets
  <2>1. Early(f) /\ disk[f].bytes <= disk'[f].bytes
    BY <1>0, EarlyAgents DEF SkipInv
  <2>2. disk'[f].bytes \in Nat
    BY <1>0 DEF DiskOK, DiskType
  <2> QED
    BY <1>0, <2>1, <2>2, Typed DEF SkipInv, EarlyOffsets
<1>3. ASSUME NEW f \in File, Early(f), disk[f].bytes = 0
      PROVE  offset[f] = 0 /\ mem[f] \in {Unset, 0}
  BY <1>0, <1>3, Typed DEF SkipInv, EarlyOffsets
<1>4. InMemoryToo'
  <2> SUFFICES ASSUME NEW f \in File, Watched(f)'
               PROVE  offset[f] % 2 = 0 /\ mem[f] \in {Unset, offset[f]}
    BY <1>0 DEF InMemoryToo
  <2> QED
    BY <1>0, <1>3, WatchedGrows DEF SkipInv, InMemoryToo
<1>5. AllPassedOn'
  <2> SUFFICES ASSUME NEW f \in File, Watched(f)', NEW i \in 1..(offset[f] \div 2)
               PROVE  PassedOn(f, i)'
    BY <1>0 DEF AllPassedOn
  <2>1. CASE Early(f) /\ disk[f].bytes = 0
    BY <1>3, <2>1
  <2>2. CASE /\ Watched(f)
             /\ \A j \in 1..(disk[f].bytes \div 2) : Turn(f, j)' = Turn(f, j)
    <3>1. offset[f] <= disk[f].bytes
      BY <2>2 DEF SkipInv, EarlyOffsets, Early, Watched
    <3>2. i \in 1..(disk[f].bytes \div 2)
      BY <1>0, <3>1, Typed
    <3>3. PassedOn(f, i) /\ Turn(f, i)' = Turn(f, i)
      BY <2>2, <3>2 DEF SkipInv, AllPassedOn
    <3> QED
      BY <1>0, <3>3 DEF PassedOn
  <2> QED
    BY <2>1, <2>2, <1>0, WatchedGrows
<1>6. BatchWhole'
  <2> SUFFICES ASSUME Busy, Watched(batch.file)'
               PROVE  /\ pc \in {"parses", "persists"} => batch.from = offset[batch.file]
                      /\ batch.from % 2 = 0
                      /\ \A i \in 1..(batch.to \div 2) :
                           batch.from < 2 * i => Turn(batch.file, i)' \in batch.turns
    BY <1>0 DEF BatchWhole, Busy, Watched, Turn, There
  <2>1. PICK f \in File : f = batch.file
    BY <1>0, HandTyped
  <2>2. Watched(f)' /\ Early(f)' /\ batch.to \in Nat /\ batch.from < batch.to /\ batch.from \in Nat
    BY <1>0, <2>1, HandTyped DEF Watched, There, Early
  <2>3. Early(f)
    BY <1>0, <2>2, EarlyAgents DEF SkipInv
  <2>4. batch.to <= disk[f].bytes /\ disk[f].bytes # 0 /\ disk[f].bytes \in Nat
    BY <1>0, <2>1, <2>2, <2>3, FirstBatch, Typed DEF SkipInv
  <2>5. Watched(f) /\ \A i \in 1..(disk[f].bytes \div 2) : Turn(f, i)' = Turn(f, i)
    BY <1>0, <2>2, <2>4, WatchedGrows
  <2>6. \A i \in 1..(batch.to \div 2) : i \in 1..(disk[f].bytes \div 2)
    BY <2>2, <2>4
  <2>7. /\ pc \in {"parses", "persists"} => batch.from = offset[f]
        /\ batch.from % 2 = 0
        /\ \A i \in 1..(batch.to \div 2) : batch.from < 2 * i => Turn(f, i) \in batch.turns
    BY <2>1, <2>5 DEF SkipInv, BatchWhole
  <2> QED
    BY <1>0, <2>1, <2>5, <2>6, <2>7 DEF Turn
<1> QED
  BY <1>1, <1>2, <1>4, <1>5, <1>6 DEF SkipKept

LEMMA WatchedIsEarly == ASSUME NEW f \in File, Watched(f) PROVE Early(f)
BY DEF Watched, Early

LEMMA FromIsOffset ==
  ASSUME SkipInv, NEW f \in File
  PROVE  /\ Early(f) => From(f) <= disk[f].bytes
         /\ Watched(f) => From(f) = offset[f] /\ offset[f] % 2 = 0
<1>1. /\ disk[f].bytes \in Nat /\ offset[f] \in Nat /\ mem[f] \in Nat \union {Unset}
  BY Typed DEF SkipInv, OnceInv, IInv
<1>2. Early(f) => offset[f] <= disk[f].bytes /\ (mem[f] # Unset => mem[f] <= disk[f].bytes)
  BY DEF SkipInv, EarlyOffsets
<1>3. Watched(f) => offset[f] % 2 = 0 /\ mem[f] \in {Unset, offset[f]}
  BY DEF SkipInv, InMemoryToo
<1> QED
  BY <1>1, <1>2, <1>3, WatchedIsEarly DEF From

(* The steps that save nothing.                                             *)
LEMMA SavesNothing ==
  ASSUME SkipInv, UNCHANGED <<disk, told, offset>>, kills' = kills \/ kills' # 0,
         \/ pc \notin {"chunks", "covers", "notifies"} \/ kills' # 0
         \/ UNCHANGED batch /\ pc' \in {"chunks", "covers", "notifies"},
         \A f \in File : mem'[f] \in {mem[f], Unset, offset[f]}
                         \/ (mem[f] = Unset /\ mem'[f] = From(f))
  PROVE  EarlyOffsets' /\ InMemoryToo' /\ AllPassedOn'
<1>1. EarlyOffsets'
  BY FromIsOffset DEF SkipInv, EarlyOffsets, Early, There
<1>2. ASSUME NEW f \in File, Watched(f)' PROVE Watched(f) /\ kills' = 0
  BY <1>2 DEF Watched, There
<1>3. InMemoryToo'
  BY <1>2, FromIsOffset DEF SkipInv, InMemoryToo
<1>4. AllPassedOn'
  <2> SUFFICES ASSUME NEW f \in File, Watched(f)', NEW i \in 1..(offset[f] \div 2)
               PROVE  PassedOn(f, i)'
    BY DEF AllPassedOn
  <2>1. PassedOn(f, i) /\ Turn(f, i)' = Turn(f, i) /\ kills' = 0
    BY <1>2 DEF SkipInv, AllPassedOn, Turn
  <2> QED
    BY <2>1 DEF PassedOn
<1> QED
  BY <1>1, <1>3, <1>4

LEMMA ReadsKeepsSkip ==
  ASSUME SkipInv, NEW f \in File, Reads(f)
  PROVE  SkipKept
<1>0. TypeInv /\ DiskOK /\ SweepOK /\ UNCHANGED <<disk, told, offset, kills>>
  BY DEF Reads, onDisk, durable, SkipInv, OnceInv, IInv, TypeInv
<1>1. /\ pc = "scans" /\ pc' = "parses" /\ There(f)
      /\ batch' = [file |-> f, from |-> From(f), to |-> End(f), gen |-> disk[f].gen,
                   turns |-> TurnsIn(f, From(f), End(f)), session |-> Unset]
      /\ mem' = [mem EXCEPT ![f] = IF @ = Unset THEN From(f) ELSE @]
  BY DEF Reads, Opened
<1>2. /\ batch'.file = f /\ batch'.from = From(f) /\ batch'.gen = disk[f].gen
      /\ batch'.turns = TurnsIn(f, From(f), End(f)) /\ batch'.to = End(f)
  BY <1>1
<1>3. BatchGen'
  BY <1>1, <1>2 DEF BatchGen, SkipInv, OnceInv, AbsentIsEmpty
<1>4. EarlyOffsets' /\ InMemoryToo' /\ AllPassedOn'
  <2> \A g \in File : mem'[g] = mem[g] \/ (mem[g] = Unset /\ mem'[g] = From(g))
    BY <1>0, <1>1 DEF SweepOK
  <2> QED
    BY <1>0, <1>1, SavesNothing
<1>5. BatchWhole'
  <2> SUFFICES ASSUME Watched(f)
               PROVE  /\ From(f) = offset[f] /\ From(f) % 2 = 0
                      /\ \A i \in 1..(End(f) \div 2) :
                           From(f) < 2 * i => Turn(f, i) \in TurnsIn(f, From(f), End(f))
    BY <1>0, <1>2 DEF BatchWhole, Watched, There, Turn
  <2>1. From(f) = offset[f] /\ From(f) % 2 = 0 /\ From(f) \in Nat
    BY <1>0, FromIsOffset, Typed
  <2>2. Complete(f) \in Nat /\ End(f) = 2 * Complete(f)
    BY <1>0, CompleteRows DEF End
  <2>3. ASSUME NEW i \in 1..(End(f) \div 2), From(f) < 2 * i
        PROVE  i \in 1..Complete(f) /\ From(f) <= 2 * (i - 1) /\ 2 * i <= End(f)
    <3> HIDE DEF Complete, From
    <3>1. i \in 1..Complete(f)
      BY <2>2
    <3> QED
      BY <2>1, <2>2, <2>3, <3>1
  <2> QED
    BY <2>1, <2>3 DEF TurnsIn
<1> QED
  BY <1>3, <1>4, <1>5 DEF SkipKept

LEMMA ParseKeepsSkip ==
  ASSUME SkipInv, NEW f \in File, Parse(f)
  PROVE  SkipKept
<1>0. /\ OnceInv /\ TypeInv /\ DiskOK /\ UNCHANGED <<disk, told, offset, mem, kills>>
  BY DEF Parse, onDisk, durable, SkipInv, OnceInv, IInv, TypeInv
<1>1. pc = "parses" /\ pc' = "persists" /\ batch.file = f /\ Busy
  BY DEF Parse, Busy
<1>2. batch \in BatchType /\ batch.from < batch.to
  BY <1>0, <1>1 DEF TypeInv, HandOK
<1>3. /\ batch'.file = f /\ batch'.from = batch.from /\ batch'.gen = batch.gen
      /\ batch'.turns = NewTurns(f) /\ batch'.to = batch.to
  BY <1>1, <1>2 DEF Parse, BatchType
<1>4. BatchGen'
  BY <1>1, <1>3 DEF BatchGen, SkipInv
<1>5. EarlyOffsets' /\ InMemoryToo' /\ AllPassedOn'
  BY <1>0, <1>1, SavesNothing
<1>6. BatchWhole'
  <2> SUFFICES ASSUME Watched(f)
               PROVE  /\ batch.from = offset[f] /\ batch.from % 2 = 0
                      /\ \A i \in 1..(batch.to \div 2) :
                           batch.from < 2 * i => Turn(f, i) \in NewTurns(f)
    BY <1>0, <1>3 DEF BatchWhole, Watched, There, Turn
  <2>1. /\ batch.from = offset[f] /\ batch.from % 2 = 0
        /\ \A i \in 1..(batch.to \div 2) : batch.from < 2 * i => Turn(f, i) \in batch.turns
    BY <1>1 DEF SkipInv, BatchWhole
  <2>2. CASE batch.from = 0
    BY <2>1, <2>2 DEF NewTurns
  <2>3. CASE batch.from # 0
    <3>1. batch.gen = disk[f].gen /\ batch.to % 2 = 0
      BY <1>0, <1>1, FirstBatch, WatchedIsEarly DEF SkipInv
    <3>2. OfLife(f, batch.gen, batch.to) /\ There(f)
      BY <1>1 DEF SkipInv, OnceInv, IInv, InHand, BatchRead, Watched
    <3>3. \A i \in 1..(batch.to \div 2) : batch.from < 2 * i => Turn(f, i) \in NewTurns(f)
      BY <1>0, <1>2, <2>1, <2>3, <3>1, <3>2, NewTurnsBehind DEF OnceInv
    <3> QED
      BY <2>1, <3>3
  <2> QED
    BY <2>2, <2>3
<1> QED
  BY <1>4, <1>5, <1>6 DEF SkipKept

(* A watched transcript is not passed over: its first row names the project. *)
LEMMA WatchedIsStored ==
  ASSUME SkipInv, pc = "persists", Watched(batch.file)
  PROVE  batch.session # Unset
<1>1. Busy /\ TypeInv
  BY DEF Busy, SkipInv, OnceInv, IInv
<1>2. batch.file \in File /\ batch.from \in Nat /\ batch.to \in Nat /\ batch.from < batch.to
  BY <1>1, HandTyped
<1>3. batch.gen = disk[batch.file].gen /\ There(batch.file) /\ batch.to % 2 = 0
  BY <1>1, <1>2, FirstBatch, WatchedIsEarly DEF SkipInv
<1>4. 1 \in 1..(batch.to \div 2)
  BY <1>2, <1>3
<1> QED
  BY <1>3, <1>4 DEF SkipInv, OnceInv, IInv, InHand, BatchUnnamed, BareRows, Watched

LEMMA PersistKeepsSkip ==
  ASSUME SkipInv, NEW f \in File, Persist(f) \/ PassesOver(f)
  PROVE  SkipKept
<1>0. OnceInv /\ TypeInv /\ StoreOK /\ SweepOK /\ UNCHANGED <<disk, told, kills>>
  BY DEF Persist, PassesOver, onDisk, durable, SkipInv, OnceInv, IInv, TypeInv
<1>1. pc = "persists" /\ batch.file = f /\ Busy
  BY DEF Persist, PassesOver, Busy
<1>2. /\ batch.from \in Nat /\ batch.to \in Nat /\ batch.from < batch.to
  BY <1>0, <1>1, HandTyped
<1>3. /\ mem'[f] = batch.to /\ \A g \in File \ {f} : mem'[g] = mem[g]
      /\ \A g \in File \ {f} : offset'[g] = offset[g]
      /\ offset'[f] \in {batch.to, offset[f]}
      /\ batch.session # Unset => offset'[f] = batch.to
  BY <1>0, <1>1 DEF Persist, PassesOver, StoreOK, SweepOK
<1>4. \/ pc' = "scans" /\ batch' = NoBatch /\ (batch.turns = {} \/ batch.session = Unset)
      \/ pc' = "chunks" /\ UNCHANGED batch
  BY DEF Persist, PassesOver, NextFile
<1>5. Early(f) => batch.to <= disk[f].bytes /\ batch.to % 2 = 0
  BY <1>0, <1>1, FirstBatch DEF SkipInv
<1>6. \A g \in File : Watched(g)' <=> Watched(g)
  BY <1>0 DEF Watched, There
<1>7. Watched(f) => offset'[f] = batch.to /\ batch.session # Unset
  BY <1>1, <1>3, WatchedIsStored
<1>8. BatchGen'
  BY <1>1, <1>4 DEF SkipInv, BatchGen, Busy
<1>9. EarlyOffsets'
  <2> SUFFICES ASSUME NEW g \in File, Early(g)
               PROVE  offset'[g] <= disk[g].bytes /\ (mem'[g] # Unset => mem'[g] <= disk[g].bytes)
    BY <1>0 DEF EarlyOffsets, Early, There
  <2> QED
    BY <1>3, <1>5 DEF SkipInv, EarlyOffsets
<1>10. InMemoryToo'
  BY <1>3, <1>5, <1>6, <1>7, WatchedIsEarly DEF SkipInv, InMemoryToo
<1>11. AllPassedOn'
  <2> SUFFICES ASSUME NEW g \in File, Watched(g), NEW i \in 1..(offset'[g] \div 2)
               PROVE  PassedOn(g, i)'
    BY <1>6 DEF AllPassedOn
  <2>0. Turn(g, i)' = Turn(g, i)
    BY <1>0 DEF Turn
  <2>1. ASSUME i \in 1..(offset[g] \div 2) PROVE PassedOn(g, i)'
    <3> PassedOn(g, i)
      BY <2>1 DEF SkipInv, AllPassedOn
    <3> QED
      BY <1>0, <1>1, <2>0 DEF PassedOn
  <2>2. CASE g # f
    BY <1>3, <2>1, <2>2
  <2>3. CASE g = f
    <3>1. /\ batch.from = offset[f] /\ batch.from % 2 = 0 /\ i \in 1..(batch.to \div 2)
          /\ batch.from < 2 * i => Turn(f, i) \in batch.turns
      BY <1>1, <1>7, <2>3 DEF SkipInv, BatchWhole
    <3>2. CASE batch.from < 2 * i
      <4>1. pc' = "chunks" /\ UNCHANGED batch
        BY <1>4, <1>7, <2>3, <3>1, <3>2
      <4> QED
        BY <2>0, <2>3, <3>1, <3>2, <4>1 DEF PassedOn
    <3>3. CASE ~ (batch.from < 2 * i)
      <4> i \in 1..(offset[g] \div 2)
        BY <1>2, <2>3, <3>1, <3>3
      <4> QED
        BY <2>1
    <3> QED
      BY <3>2, <3>3
  <2> QED
    BY <2>2, <2>3
<1>12. BatchWhole'
  <2>1. CASE pc' = "scans"
    BY <2>1 DEF BatchWhole, Busy
  <2>2. CASE pc' = "chunks" /\ UNCHANGED batch
    BY <1>0, <1>1, <1>6, <2>2 DEF SkipInv, BatchWhole, Busy, Turn
  <2> QED
    BY <1>4, <2>1, <2>2
<1> QED
  BY <1>8, <1>9, <1>10, <1>11, <1>12 DEF SkipKept

LEMMA NotifyKeepsSkip ==
  ASSUME SkipInv, NEW f \in File, Notify(f)
  PROVE  SkipKept
<1>0. /\ OnceInv /\ UNCHANGED <<disk, offset, mem, kills>>
      /\ told' = told \union (batch.turns \X {batch.gen})
  BY DEF Notify, onDisk, durable, SkipInv
<1>1. pc = "notifies" /\ pc' = "scans" /\ batch.file = f /\ Busy
  BY DEF Notify, NextFile, Busy
<1>2. \A g \in File : (Watched(g)' <=> Watched(g)) /\ (Early(g)' <=> Early(g))
  BY <1>0 DEF Watched, There, Early
<1>3. BatchGen' /\ BatchWhole'
  BY <1>1 DEF BatchGen, BatchWhole, Busy
<1>4. EarlyOffsets' /\ InMemoryToo'
  BY <1>0, <1>2 DEF SkipInv, EarlyOffsets, InMemoryToo
<1>5. AllPassedOn'
  <2> SUFFICES ASSUME NEW g \in File, Watched(g), NEW i \in 1..(offset[g] \div 2)
               PROVE  <<Turn(g, i), 1>> \in told'
    BY <1>0, <1>2 DEF AllPassedOn, PassedOn, Turn
  <2>1. PassedOn(g, i)
    BY DEF SkipInv, AllPassedOn
  <2>2. CASE <<Turn(g, i), 1>> \in told
    BY <1>0, <2>2
  <2>3. CASE Turn(g, i) \in batch.turns
    <3>1. g = batch.file
      <4> Turn(g, i)[1] = batch.file
        BY <1>1, <2>3 DEF OnceInv, IInv, InHand, TurnsRead, SkipInv
      <4> QED
        BY DEF Turn
    <3>2. batch.gen = 1
      BY <1>0, <1>1, <3>1, FirstBatch, WatchedIsEarly DEF SkipInv
    <3> QED
      BY <1>0, <2>3, <3>2
  <2> QED
    BY <2>1, <2>2, <2>3 DEF PassedOn
<1> QED
  BY <1>3, <1>4, <1>5 DEF SkipKept

LEMMA TailKeepsSkip ==
  ASSUME SkipInv, TailStep
  PROVE  SkipKept
<1>0. SweepOK /\ StoreOK /\ kills \in Nat
  BY TailAssumption DEF SkipInv, OnceInv, IInv, TypeInv, HandOK, TailAssumption
<1>1. CASE Start \/ Tick \/ Kill
  <2>1. pc' \in {"off", "scans"} /\ UNCHANGED <<disk, told, offset>>
    BY <1>1 DEF Start, Tick, Kill, onDisk, durable
  <2>2. \A f \in File : mem'[f] \in {mem[f], Unset, offset[f]}
    BY <1>0, <1>1 DEF Start, Tick, Kill, SweepOK, StoreOK
  <2>3. \/ kills' = kills /\ pc \notin {"chunks", "covers", "notifies"}
        \/ kills' # 0
    BY <1>0, <1>1 DEF Start, Tick, Kill
  <2>4. EarlyOffsets' /\ InMemoryToo' /\ AllPassedOn'
    BY <2>1, <2>2, <2>3, SavesNothing
  <2> QED
    BY <2>1, <2>4 DEF SkipKept, BatchGen, BatchWhole, Busy
<1>2. ASSUME NEW f \in File, Vanished(f) \/ NothingNew(f) \/ PersistFails(f) PROVE SkipKept
  <2>1. /\ pc' = "scans" /\ UNCHANGED <<disk, told, offset, kills>>
        /\ pc \notin {"chunks", "covers", "notifies"}
    BY <1>2 DEF Vanished, NothingNew, PersistFails, Opened, NextFile, onDisk, durable
  <2>2. \A g \in File : mem'[g] \in {mem[g], Unset, offset[g]}
                        \/ (mem[g] = Unset /\ mem'[g] = From(g))
    BY <1>0, <1>2 DEF Vanished, NothingNew, PersistFails, Opened, SweepOK
  <2>3. EarlyOffsets' /\ InMemoryToo' /\ AllPassedOn'
    BY <2>1, <2>2, SavesNothing
  <2> QED
    BY <2>1, <2>3 DEF SkipKept, BatchGen, BatchWhole, Busy
<1>3. ASSUME NEW f \in File, Records(f) \/ Covers(f) PROVE SkipKept
  <2>1. /\ UNCHANGED <<disk, told, offset, mem, batch, kills>>
        /\ pc \in {"chunks", "covers"} /\ Busy /\ pc' \in {"covers", "notifies"}
    BY <1>3 DEF Records, Covers, onDisk, Busy
  <2>2. EarlyOffsets' /\ InMemoryToo' /\ AllPassedOn'
    BY <2>1, SavesNothing
  <2>3. BatchGen' /\ BatchWhole'
    BY <2>1 DEF SkipInv, BatchGen, BatchWhole, Watched, There, Turn
  <2> QED
    BY <2>2, <2>3 DEF SkipKept
<1> QED
  BY <1>1, <1>2, <1>3, ReadsKeepsSkip, ParseKeepsSkip, PersistKeepsSkip, NotifyKeepsSkip
     DEF TailStep, OfFile

LEMMA SkipInit == Init => SkipInv
<1> SUFFICES ASSUME Init PROVE SkipInv
  OBVIOUS
<1>1. BatchGen /\ EarlyOffsets /\ InMemoryToo /\ AllPassedOn /\ BatchWhole
  BY DEF Init, BatchGen, EarlyOffsets, InMemoryToo, AllPassedOn, BatchWhole, Busy, Watched, There
<1> QED
  BY <1>1, OnceInit DEF SkipInv

LEMMA SkipNext == SkipInv /\ [Next]_vars => SkipInv'
<1> SUFFICES ASSUME SkipInv, [Next]_vars PROVE SkipInv'
  OBVIOUS
<1>1. OnceInv'
  BY OnceNext DEF SkipInv
<1>2. ASSUME UNCHANGED vars PROVE SkipKept
  BY <1>2 DEF SkipInv, SkipKept, BatchGen, EarlyOffsets, InMemoryToo, AllPassedOn, BatchWhole,
              PassedOn, Turn, Busy, Watched, Early, There, vars, onDisk, durable
<1>3. SkipKept
  BY <1>1, <1>2, AgentsKeepSkip, TailKeepsSkip, NextSplit
<1> QED
  BY <1>1, <1>3 DEF SkipInv, SkipKept

(* While nobody is killed, every row the offset has passed was passed on or *)
(* is in hand, from the first row that names the project on: the offset in  *)
(* memory is the one in the store, the batch begins there, and the second   *)
(* reading finds all of its rows again.                                     *)
THEOREM PassedIsPassedOn == Spec => []NothingSkipped
<1>1. SkipInv => NothingSkipped
  <2> SUFFICES ASSUME SkipInv, NEW f \in File, NEW i \in 1..(offset[f] \div 2),
                      kills = 0, There(f), disk[f].gen = 1, disk[f].rows[1].kind = "named"
               PROVE  PassedOn(f, i)
    BY DEF NothingSkipped, PassedOn
  <2>1. offset[f] <= disk[f].bytes
    BY DEF SkipInv, EarlyOffsets, Early
  <2>2. Len(disk[f].rows) >= 1
    BY <2>1, Typed DEF SkipInv, OnceInv, IInv
  <2>3. Watched(f)
    BY <2>2 DEF Watched
  <2> QED
    BY <2>3 DEF SkipInv, AllPassedOn
<1> QED
  BY <1>1, SkipInit, SkipNext, PTL DEF Spec

-----------------------------------------------------------------------------
(* Nothing is left unread.                                                  *)
(* A look that finds nothing new compares the length of the transcript with *)
(* an offset, of memory or of the database.  In the first life of a         *)
(* transcript each of them stands for rows that are in the store, or that   *)
(* do not name the project.                                                 *)

FirstLife(f) == disk[f].gen = 1 /\ There(f)

Accounted(f, end) ==
  \/ stored[f] # Unset /\ stored[f][1] = 1 /\ end <= 2 * stored[f][2]
  \/ BareRows(f, end)

OffsetsAccounted ==
  \A f \in File : FirstLife(f) =>
    Accounted(f, offset[f]) /\ (mem[f] # Unset => Accounted(f, mem[f]))

LookInv == SkipInv /\ OffsetsAccounted

\* A transcript of the project in which a tick finds nothing new is in the store
\* up to its last complete row, whatever writes the database refused before and
\* whether the offset was remembered or loaded by a restarted process.
NothingNewIsStored ==
  [][\A f \in File : NothingNew(f) /\ Ours(f) /\ disk[f].gen = 1
       => InStore(f, 1, Complete(f))]_vars

LEMMA NothingAccounted == \A f \in File : Accounted(f, 0)
BY DEF Accounted, BareRows

LEMMA AgentsKeepAccounts ==
  ASSUME LookInv, DiskOK', AgentStep
  PROVE  OffsetsAccounted'
<1>0. UNCHANGED <<stored, offset, mem>> /\ TypeInv
  BY AgentStepKeeps DEF durable, LookInv, SkipInv, OnceInv, IInv
<1> SUFFICES ASSUME NEW f \in File, FirstLife(f)', NEW e \in Nat,
                    e = offset[f] \/ (mem[f] # Unset /\ e = mem[f])
             PROVE  Accounted(f, e)'
  BY <1>0, Typed DEF OffsetsAccounted
<1>1. Early(f)
  BY EarlyAgents DEF LookInv, SkipInv, FirstLife, Early
<1>2. e <= disk[f].bytes
  BY <1>0, <1>1 DEF LookInv, SkipInv, EarlyOffsets
<1>3. CASE disk[f].gen = 0
  <2>1. disk[f].bytes = 0
    BY <1>3 DEF LookInv, SkipInv, OnceInv, AbsentIsEmpty, Early
  <2>2. e = 0
    BY <1>2, <2>1
  <2> QED
    BY <2>2 DEF Accounted, BareRows
<1>4. CASE FirstLife(f)
  <2>1. Accounted(f, e)
    BY <1>4 DEF LookInv, OffsetsAccounted
  <2>2. CASE BareRows(f, e)
    <3> BareRows(f, e)'
      BY <1>0, <1>2, <1>4, <2>2, BareRowsStay DEF FirstLife, TypeInv
    <3> QED
      BY DEF Accounted
  <2>3. CASE stored[f] # Unset /\ stored[f][1] = 1 /\ e <= 2 * stored[f][2]
    BY <1>0, <2>3 DEF Accounted
  <2> QED
    BY <2>1, <2>2, <2>3 DEF Accounted
<1> QED
  BY <1>1, <1>3, <1>4 DEF Early, FirstLife

(* The steps that save nothing.                                             *)
LEMMA SavingNothingKeepsAccounts ==
  ASSUME LookInv, UNCHANGED <<disk, stored, offset>>,
         \A f \in File : mem'[f] \in {mem[f], Unset, offset[f], 0}
  PROVE  OffsetsAccounted'
<1> SUFFICES ASSUME NEW f \in File, FirstLife(f)
             PROVE  Accounted(f, offset[f]) /\ (mem'[f] # Unset => Accounted(f, mem'[f]))
  BY DEF OffsetsAccounted, FirstLife, There, Accounted, BareRows
<1> QED
  BY NothingAccounted DEF LookInv, OffsetsAccounted

(* The steps that save, of the first life of the transcript in hand.        *)
LEMMA SavingKeepsAccounts ==
  ASSUME LookInv, NEW f \in File, Persist(f) \/ PassesOver(f)
  PROVE  OffsetsAccounted'
<1>0. TypeInv /\ DiskOK /\ StoreOK /\ SweepOK /\ UNCHANGED disk
  BY DEF Persist, PassesOver, onDisk, LookInv, SkipInv, OnceInv, IInv, TypeInv
<1>1. pc = "persists" /\ Busy /\ batch.file = f
  BY DEF Persist, PassesOver, Busy
<1>2. mem'[f] = batch.to /\ offset'[f] \in {offset[f], batch.to}
  BY <1>0 DEF Persist, PassesOver, SweepOK, StoreOK
<1>3. ASSUME NEW g \in File, g # f
      PROVE  mem'[g] = mem[g] /\ offset'[g] = offset[g] /\ stored'[g] = stored[g]
  BY <1>0, <1>3 DEF Persist, PassesOver, SweepOK, StoreOK
<1> DEFINE Held(g, end) == \/ stored'[g] # Unset /\ stored'[g][1] = 1 /\ end <= 2 * stored'[g][2]
                          \/ BareRows(g, end)
<1>4. ASSUME FirstLife(f)
      PROVE  Held(f, batch.to) /\ Held(f, offset'[f])
  <2>1. batch.gen = 1 /\ disk[f].gen = 1 /\ There(f)
    BY <1>1, <1>4, FirstBatch DEF LookInv, SkipInv, FirstLife, Early
  <2>2. CASE PassesOver(f)
    <3>1. batch.session = Unset /\ stored' = stored
      BY <2>2 DEF PassesOver
    <3>2. BareRows(f, batch.to)
      BY <1>1, <2>1, <3>1 DEF LookInv, SkipInv, OnceInv, IInv, InHand, BatchUnnamed
    <3>3. Accounted(f, offset[f])
      BY <1>4 DEF LookInv, OffsetsAccounted
    <3> QED
      BY <1>2, <3>1, <3>2, <3>3 DEF Accounted
  <2>3. CASE Persist(f)
    <3>1. batch.session # Unset /\ stored'[f] = batch.session /\ offset'[f] = batch.to
      BY <1>0, <2>3 DEF Persist, StoreOK
    <3>2. batch.session[1] \in Nat /\ batch.session[2] \in Nat /\ batch.session \in Nat \X Nat
      BY <1>0, <1>1, <3>1, HandTyped
    <3>3. /\ batch.session[1] <= disk[f].gen /\ batch.gen <= batch.session[1]
          /\ batch.gen = batch.session[1] => batch.to <= 2 * batch.session[2]
      BY <1>1, <3>1 DEF LookInv, SkipInv, OnceInv, IInv, InHand, SessionParsed, OfLife
    <3>4. batch.session[1] = 1 /\ batch.to <= 2 * batch.session[2]
      BY <2>1, <3>2, <3>3
    <3>5. stored'[f] # Unset /\ stored'[f][1] = 1 /\ batch.to <= 2 * stored'[f][2]
      BY <3>1, <3>4
    <3> QED
      BY <3>1, <3>5
  <2> QED
    BY <2>2, <2>3
<1>5. ASSUME NEW g \in File, FirstLife(g)
      PROVE  Held(g, offset'[g]) /\ (mem'[g] # Unset => Held(g, mem'[g]))
  <2>1. CASE g = f
    BY <1>2, <1>4, <1>5, <2>1
  <2>2. CASE g # f
    BY <1>3, <1>5, <2>2 DEF LookInv, OffsetsAccounted, Accounted
  <2> QED
    BY <2>1, <2>2
<1> QED
  BY <1>0, <1>5 DEF OffsetsAccounted, FirstLife, There, Accounted, BareRows

LEMMA TailKeepsAccounts ==
  ASSUME LookInv, TailStep
  PROVE  OffsetsAccounted'
<1>0. SweepOK /\ StoreOK
  BY DEF LookInv, SkipInv, OnceInv, IInv, TypeInv
<1>1. CASE Start \/ Tick \/ Kill
  BY <1>0, <1>1, SavingNothingKeepsAccounts
     DEF Start, Tick, Kill, SweepOK, StoreOK, onDisk, durable
<1>2. ASSUME NEW f \in File, Vanished(f) \/ NothingNew(f) \/ Reads(f) PROVE OffsetsAccounted'
  <2>1. UNCHANGED <<disk, stored, offset>>
    BY <1>2 DEF Vanished, NothingNew, Reads, onDisk, durable
  <2>2. mem'[f] \in {mem[f], Unset, offset[f], 0}
    BY <1>0, <1>2 DEF Vanished, NothingNew, Reads, Opened, From, SweepOK
  <2>3. \A g \in File \ {f} : mem'[g] = mem[g]
    BY <1>0, <1>2 DEF Vanished, NothingNew, Reads, Opened, SweepOK
  <2> QED
    BY <2>1, <2>2, <2>3, SavingNothingKeepsAccounts
<1>3. ASSUME NEW f \in File, Parse(f) \/ PersistFails(f) \/ Records(f) \/ Covers(f) \/ Notify(f)
      PROVE  OffsetsAccounted'
  <2>1. UNCHANGED <<disk, stored, offset, mem>>
    BY <1>3 DEF Parse, PersistFails, Records, Covers, Notify, onDisk, durable
  <2> QED
    BY <2>1, SavingNothingKeepsAccounts
<1> QED
  BY <1>1, <1>2, <1>3, SavingKeepsAccounts DEF TailStep, OfFile

LEMMA LookNext == LookInv /\ [Next]_vars => LookInv'
<1> SUFFICES ASSUME LookInv, [Next]_vars PROVE LookInv'
  OBVIOUS
<1>1. SkipInv' /\ DiskOK'
  BY SkipNext DEF LookInv, SkipInv, OnceInv, IInv, TypeInv
<1>2. CASE UNCHANGED vars
  BY <1>1, <1>2, SavingNothingKeepsAccounts DEF LookInv, vars, onDisk, durable
<1> QED
  BY <1>1, <1>2, AgentsKeepAccounts, TailKeepsAccounts, NextSplit DEF LookInv

LEMMA LookInit == Init => LookInv
BY SkipInit DEF LookInv, OffsetsAccounted, Init, FirstLife, There

(* A tick that finds nothing new in a transcript has left nothing of it out *)
(* of the store: no failed write, no restart and no row that was half       *)
(* there strands a row behind an offset, however long nothing is appended.  *)
THEOREM NothingStaysUnread == Spec => NothingNewIsStored
<1>1. ASSUME LookInv, NEW f \in File, NothingNew(f), Ours(f), disk[f].gen = 1
      PROVE  InStore(f, 1, Complete(f))
  <2>0. TypeInv /\ DiskOK /\ FirstLife(f) /\ Complete(f) \in Nat
    BY <1>1, CompleteRows DEF LookInv, SkipInv, OnceInv, IInv, TypeInv, FirstLife, Ours, Named
  <2>1. 2 * Complete(f) <= From(f)
    BY <1>1 DEF NothingNew, End
  <2>2. From(f) \in Nat /\ Accounted(f, From(f))
    <3>1. From(f) \in {0, offset[f]} \/ (mem[f] # Unset /\ From(f) = mem[f])
      BY DEF From
    <3>2. offset[f] \in Nat /\ mem[f] \in Nat \union {Unset}
      BY <2>0, Typed
    <3>3. Accounted(f, offset[f]) /\ (mem[f] # Unset => Accounted(f, mem[f]))
      BY <1>1, <2>0 DEF LookInv, OffsetsAccounted
    <3>4. Accounted(f, 0)
      BY NothingAccounted
    <3> QED
      BY <3>1, <3>2, <3>3, <3>4
  <2>3. PICK i \in 1..Complete(f) : disk[f].rows[i].kind = "named"
    BY <1>1 DEF Ours, Named
  <2>4. i \in 1..(From(f) \div 2)
    BY <2>0, <2>1, <2>2
  <2>5. ~ BareRows(f, From(f))
    BY <2>3, <2>4 DEF BareRows
  <2>6. stored[f] # Unset /\ stored[f][1] = 1 /\ From(f) <= 2 * stored[f][2]
    BY <2>2, <2>5 DEF Accounted
  <2>7. stored[f][2] \in Nat
    BY <2>0, <2>6 DEF TypeInv, StoreOK
  <2> QED
    BY <2>0, <2>1, <2>2, <2>6, <2>7 DEF InStore
<1>2. LookInv => [\A f \in File : NothingNew(f) /\ Ours(f) /\ disk[f].gen = 1
                    => InStore(f, 1, Complete(f))]_vars
  BY <1>1
<1> QED
  BY <1>2, LookInit, LookNext, PTL DEF Spec, NothingNewIsStored
=============================================================================
