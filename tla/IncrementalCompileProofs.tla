---------------------- MODULE IncrementalCompileProofs ----------------------
(***************************************************************************)
(* What holds of IncrementalCompile for any documents, contents, entities, *)
(* kin and calls: the types; and, where nobody disturbs a compile of the   *)
(* whole corpus (Undisturbed), that no document is lost behind its stamp   *)
(* (CompileInv), and that a compile of documents that stand still leaves   *)
(* the graph and the rows of a full recompile (ExactInv, on top of it),    *)
(* each up to the entities that resolution has joined.                     *)
(***************************************************************************)
EXTENDS IncrementalCompile, FiniteSetTheorems, TLAPS

RunType ==
  [pc: {"idle", "extract", "again", "publish", "record", "stamp"},
   mode: {"full", "incremental", "rebind", "rebuilt", "retry", "noop"},
   call: Calls, paths: SUBSET Docs, found: SUBSET Docs, skipped: SUBSET Docs,
   todo: SUBSET Docs, digest: [Docs -> Held], fresh: SUBSET Reads,
   again: SUBSET Reads, kept: Graphs, missing: SUBSET Docs, dropped: SUBSET Docs]

-----------------------------------------------------------------------------
(* The least document of a set, the work-list and the merge. *)

(* Each element of a finite set of numbers has a rank, the number of those  *)
(* below it.  Ranks differ, so all of 0..n-1 are taken, and 0 is the least. *)
LEMMA LeastExists ==
  ASSUME NEW S \in SUBSET Nat, IsFiniteSet(S), S # {}
  PROVE  \E x \in S : \A y \in S : x <= y
<1> DEFINE below(x) == {w \in S : w < x}
           n        == Cardinality(S)
           rank     == [x \in S |-> Cardinality(below(x))]
<1>1. \A x \in S : IsFiniteSet(below(x)) /\ Cardinality(below(x)) \in Nat
  BY FS_Subset, FS_CardinalityType
<1>2. n \in Nat /\ n > 0
  BY FS_CardinalityType, FS_EmptySet
<1>3. \A x \in S : Cardinality(below(x)) < n
  <2> TAKE x \in S
  <2>1. below(x) \subseteq S /\ x \notin below(x)
    OBVIOUS
  <2> HIDE DEF below
  <2> QED
    BY <1>1, <1>2, <2>1, FS_Subset
<1>4. ASSUME NEW x \in S, NEW y \in S, x < y
      PROVE  Cardinality(below(x)) < Cardinality(below(y))
  <2>1. x \in Nat /\ y \in Nat /\ \A w \in S : w \in Nat
    OBVIOUS
  <2>2. \A w \in S : w < x => w < y
    BY <1>4, <2>1
  <2>3. below(x) \subseteq below(y)
    BY <2>2
  <2>4. x \in below(y)
    BY <1>4
  <2>5. x \notin below(x)
    BY <2>1
  <2> HIDE DEF below
  <2> QED
    BY <1>1, <2>3, <2>4, <2>5, FS_Subset
<1> HIDE DEF below
<1>5. rank \in [S -> 0..(n - 1)]
  BY <1>1, <1>2, <1>3
<1>6. ASSUME NEW x \in S, NEW y \in S, rank[x] = rank[y] PROVE x = y
  <2>1. ~ (x < y) /\ ~ (y < x)
    BY <1>1, <1>4, <1>6
  <2> QED
    BY <2>1
<1>7. rank \in Injection(S, 0..(n - 1))
  BY <1>5, <1>6 DEF Injection, IsInjective
<1>8. IsFiniteSet(0..(n - 1)) /\ Cardinality(0..(n - 1)) = n
  <2>1. /\ 0 \in Int /\ n - 1 \in Int
        /\ (IF 0 > n - 1 THEN 0 ELSE (n - 1) - 0 + 1) = n
    BY <1>2
  <2>2. /\ IsFiniteSet(0..(n - 1))
        /\ Cardinality(0..(n - 1)) = IF 0 > n - 1 THEN 0 ELSE (n - 1) - 0 + 1
    BY <2>1, FS_Interval
  <2> QED
    BY <2>1, <2>2
<1>9. rank \in Surjection(S, 0..(n - 1))
  BY <1>7, <1>8, FS_Injection
<1>10. PICK x \in S : rank[x] = 0
  <2>1. 0 \in 0..(n - 1)
    BY <1>2
  <2> HIDE DEF rank, n
  <2> QED
    BY <1>9, <2>1 DEF Surjection
<1>11. below(x) = {}
  BY <1>1, <1>10, FS_EmptySet
<1> QED
  BY <1>11 DEF below

LEMMA FirstIn ==
  ASSUME NEW S \in SUBSET Docs, S # {}
  PROVE  First(S) \in S
<1>1. S \in SUBSET Nat /\ IsFiniteSet(S)
  BY CompileAssumption, FS_Subset DEF CompileAssumption
<1>2. PICK x \in S : \A y \in S : x <= y
  BY <1>1, LeastExists
<1> QED
  BY <1>2 DEF First

(* A compile whose limit is the corpus takes all of it. *)
LEMMA LimitIsEnough ==
  ASSUME NEW S \in SUBSET Docs, NEW limit \in Nat, Cardinality(Docs) <= limit, NEW x \in Docs
  PROVE  Before(x, S) < limit
<1>1. IsFiniteSet(Docs) /\ Docs \subseteq Nat
  BY CompileAssumption DEF CompileAssumption
<1> DEFINE T == {w \in S : w < x}
<1>2. x \in Nat /\ ~ (x < x)
  BY <1>1
<1>3. T \subseteq Docs /\ x \notin T
  BY <1>2
<1> HIDE DEF T
<1>4. IsFiniteSet(T) /\ Cardinality(T) <= Cardinality(Docs) /\ Cardinality(T) # Cardinality(Docs)
  BY <1>1, <1>3, FS_Subset
<1>5. Cardinality(T) \in Nat /\ Cardinality(Docs) \in Nat
  BY <1>1, <1>4, FS_CardinalityType
<1>6. Before(x, S) = Cardinality(T)
  BY DEF Before, T
<1> QED
  BY <1>4, <1>5, <1>6

LEMMA WithinAll ==
  ASSUME NEW S \in SUBSET Docs, NEW limit \in Nat, Cardinality(Docs) <= limit
  PROVE  Within(limit, S) = S
BY LimitIsEnough DEF Within

LEMMA AuthorsAre ==
  ASSUME NEW reads \in SUBSET Reads, NEW e
  PROVE  /\ Authors(e, reads) \in SUBSET Docs
         /\ Authors(e, reads) \subseteq Read(reads)
         /\ \A r \in reads : e \in Asserts[r] => r[1] \in Authors(e, reads)
BY DEF Authors, Read, Reads

LEMMA MergeIs ==
  ASSUME NEW base \in Graphs, NEW reads \in SUBSET Reads
  PROVE  /\ Merge(base, reads) \in Graphs
         /\ \A e \in Entities :
              /\ base[e] # NoDoc => Merge(base, reads)[e] = base[e]
              /\ (\E r \in reads : e \in Asserts[r]) => Merge(base, reads)[e] # NoDoc
              /\ Merge(base, reads)[e] \in {base[e]} \union Read(reads)
<1> DEFINE m == Merge(base, reads)
<1>1. ASSUME NEW e \in Entities
      PROVE  /\ m[e] \in Docs \union {NoDoc}
             /\ base[e] # NoDoc => m[e] = base[e]
             /\ (\E r \in reads : e \in Asserts[r]) => m[e] # NoDoc
             /\ m[e] \in {base[e]} \union Read(reads)
  <2>1. m[e] = IF base[e] # NoDoc \/ e \notin Said(reads) THEN base[e]
               ELSE First(Authors(e, reads))
    BY DEF Merge
  <2>2. base[e] \in Docs \union {NoDoc} /\ NoDoc \notin Docs
    BY CompileAssumption DEF Graphs, CompileAssumption, NoDoc
  <2>3. CASE base[e] # NoDoc \/ e \notin Said(reads)
    <3>1. m[e] = base[e]
      BY <2>1, <2>3
    <3>2. (\E r \in reads : e \in Asserts[r]) => e \in Said(reads)
      BY AuthorsAre DEF Said
    <3> QED
      BY <2>2, <2>3, <3>1, <3>2
  <2>4. CASE ~ (base[e] # NoDoc \/ e \notin Said(reads))
    <3>1. Authors(e, reads) # {} /\ Authors(e, reads) \in SUBSET Docs
      BY <2>4, AuthorsAre DEF Said
    <3>2. m[e] \in Authors(e, reads)
      BY <2>1, <2>4, <3>1, FirstIn
    <3> QED
      BY <2>2, <2>4, <3>1, <3>2, AuthorsAre
  <2> QED
    BY <2>3, <2>4
<1>2. m = [e \in Entities |-> m[e]]
  BY DEF Merge
<1> HIDE DEF m
<1>3. m \in Graphs
  BY <1>1, <1>2 DEF Graphs
<1> QED
  BY <1>1, <1>3 DEF m

-----------------------------------------------------------------------------
(* Types. *)

LEMMA IdleTyped == Idle \in RunType
<1>1. AnyCall \in Calls
  BY CompileAssumption DEF CompileAssumption, AnyCall
<1> QED
  BY <1>1 DEF Idle, RunType, Held, Graphs, NoGraph

LEMMA TypeInit == Init => TypeOK
BY IdleTyped, CompileAssumption
   DEF Init, TypeOK, RunType, Held, Outcomes, YesNo, Graphs, NoGraph, CompileAssumption

(* What the code leaves of the manifest, the graph and the rows. *)
StoredTyped ==
  /\ sha \in [Docs -> Held] /\ outcome \in [Docs -> Outcomes] /\ stamp \in [Docs -> YesNo]
  /\ graph \in Graphs /\ rows \subseteq Entities \X Docs /\ joined \subseteq Entities

LEMMA TypeIs ==
  TypeOK <=> /\ disk \in [Docs -> Held] /\ noticed \subseteq Docs
             /\ StoredTyped /\ run \in RunType
             /\ clean \in {"yes", "running", "no"} /\ writes \in 0..Writes /\ kills \in 0..Kills
BY DEF TypeOK, StoredTyped, RunType

LEMMA TypeStep ==
  ASSUME disk' \in [Docs -> Held], noticed' \subseteq Docs, StoredTyped', run' \in RunType,
         clean' \in {"yes", "running", "no"}, writes' \in 0..Writes, kills' \in 0..Kills
  PROVE  TypeOK'
BY DEF TypeOK, StoredTyped, RunType

LEMMA TypeStart == ASSUME TypeOK, NEW c \in Calls, Start(c) PROVE TypeOK'
<1> DEFINE mode == ModeOf(c)
           want == IF mode = "noop" THEN {} ELSE Wanted(c, mode)
           back == {d \in OnDisk \ want : Before(d, want) <= c.limit}
<1>1. mode \in {"full", "incremental", "retry", "noop"}
  BY DEF ModeOf
<1>2. OnDisk \in SUBSET Docs /\ want \in SUBSET Docs
  BY DEF OnDisk, Wanted
<1>3. Within(c.limit, want) \in SUBSET Docs /\ back \in SUBSET Docs
  BY <1>2 DEF Within
<1>4. run' = [Idle EXCEPT
         !.pc = IF mode = "noop" THEN "publish" ELSE "extract",
         !.mode = mode, !.call = c, !.digest = disk, !.found = OnDisk,
         !.paths = IF c.named = "yes" THEN noticed ELSE {},
         !.todo = Within(c.limit, want), !.skipped = back,
         !.kept = IF mode = "noop" THEN graph ELSE NoGraph]
  BY DEF Start
<1> HIDE DEF mode, want, back
<1>5. disk \in [Docs -> Held] /\ noticed \in SUBSET Docs /\ graph \in Graphs /\ NoGraph \in Graphs
  BY TypeIs DEF StoredTyped, Graphs, NoGraph
<1>6. run' \in RunType
  <2> DEFINE first == IF mode = "noop" THEN "publish" ELSE "extract"
             named == IF c.named = "yes" THEN noticed ELSE {}
             work  == Within(c.limit, want)
             start == IF mode = "noop" THEN graph ELSE NoGraph
  <2>1. /\ first \in {"publish", "extract"} /\ named \in SUBSET Docs
        /\ work \in SUBSET Docs /\ start \in Graphs
    BY <1>3, <1>5
  <2>2. run' = [Idle EXCEPT !.pc = first, !.mode = mode, !.call = c, !.digest = disk, !.found = OnDisk,
                            !.paths = named, !.todo = work, !.skipped = back, !.kept = start]
    BY <1>4
  <2> HIDE DEF first, named, work, start
  <2> QED
    BY <1>1, <1>2, <1>3, <1>5, <2>1, <2>2, IdleTyped DEF RunType
<1>7. noticed' \subseteq Docs /\ clean' \in {"yes", "running", "no"}
      /\ UNCHANGED <<disk, sha, outcome, stamp, graph, rows, joined, writes, kills>>
  BY <1>5 DEF Start, manifest
<1>8. StoredTyped'
  BY <1>7, TypeIs DEF StoredTyped
<1> QED
  BY <1>6, <1>7, <1>8, TypeIs, TypeStep

LEMMA TypeExtract == ASSUME TypeOK, NEW d \in Docs, Extract(d) PROVE TypeOK'
<1>1. Answers(d) \subseteq Outcomes
  BY DEF Answers, TypeOK
<1>2. PICK o \in Answers(d) :
        /\ run' = IF run.pc = "extract"
                  THEN [run EXCEPT !.todo = @ \ {d}, !.fresh = @ \union {<<d, disk[d], o>>}]
                  ELSE [run EXCEPT !.todo = @ \ {d}, !.again = @ \union {<<d, disk[d], o>>}]
        /\ sha' = [sha EXCEPT ![d] = run.digest[d]]
        /\ outcome' = [outcome EXCEPT ![d] = o]
        /\ stamp' = [stamp EXCEPT ![d] = "no"]
  BY DEF Extract
<1>3. disk[d] \in Contents
  BY DEF Extract, TypeOK, Held
<1>4. <<d, disk[d], o>> \in Reads
  BY <1>1, <1>3 DEF Reads
<1>5. run \in RunType /\ run.digest[d] \in Held
  BY TypeIs DEF RunType
<1>6. run' \in RunType
  <2>1. CASE run.pc = "extract"
    <3>1. run' = [run EXCEPT !.todo = @ \ {d}, !.fresh = @ \union {<<d, disk[d], o>>}]
      BY <1>2, <2>1
    <3> QED
      BY <1>4, <1>5, <3>1 DEF RunType
  <2>2. CASE run.pc # "extract"
    <3>1. run' = [run EXCEPT !.todo = @ \ {d}, !.again = @ \union {<<d, disk[d], o>>}]
      BY <1>2, <2>2
    <3> QED
      BY <1>4, <1>5, <3>1 DEF RunType
  <2> QED
    BY <2>1, <2>2
<1>7. StoredTyped'
  BY <1>1, <1>2, <1>5, TypeIs DEF StoredTyped, YesNo, Extract
<1> QED
  BY <1>6, <1>7, TypeIs, TypeStep DEF Extract

LEMMA TypeTombstone == ASSUME TypeOK, Tombstone PROVE TypeOK'
<1>0. PICK gone : TombstoneBut(gone)
  BY DEF Tombstone
<1> DEFINE changed  == IF run.call.named = "yes" THEN run.paths ELSE Read(run.fresh) \union Missing
           table    == Without(changed)
           impacted == {e \in InGraph \ Removed(changed) : graph[e] \in changed}
           owners   == (UNION {Owners(e, table) : e \in impacted}) \intersect OnDisk
           covered  == {e \in impacted : Owners(e, table) \intersect owners # {}}
           lost     == Removed(changed) \union covered \union (impacted \ (Said(run.fresh) \ gone))
           kept     == [e \in Entities |->
                          IF e \in lost THEN NoDoc
                          ELSE IF e \in impacted /\ Owners(e, table) # {} THEN First(Owners(e, table))
                          ELSE graph[e]]
<1>1. /\ rows' = table
      /\ run' = [run EXCEPT
           !.pc = "again", !.mode = IF Beyond(owners) THEN "rebuilt" ELSE @, !.digest = disk,
           !.todo = ReadAgain(owners), !.kept = kept, !.missing = Missing, !.dropped = changed]
      /\ UNCHANGED <<disk, noticed, sha, outcome, stamp, graph, joined, clean, writes, kills>>
  BY <1>0 DEF TombstoneBut, manifest
<1>2. run \in RunType /\ graph \in Graphs /\ disk \in [Docs -> Held] /\ rows \subseteq Entities \X Docs
  BY TypeIs DEF StoredTyped
<1>3. Missing \in SUBSET Docs /\ changed \in SUBSET Docs
  BY <1>2 DEF Missing, Tracked, OnDisk, Read, RunType, Reads
<1>4. table \subseteq Entities \X Docs
  BY <1>2 DEF Without
<1>5. owners \in SUBSET Docs
  BY DEF OnDisk
<1>6. kept \in Graphs
  <2> HIDE DEF changed, table, impacted, lost
  <2>1. \A e : Owners(e, table) \in SUBSET Docs
    BY DEF Owners
  <2>2. ASSUME NEW e \in Entities PROVE kept[e] \in Docs \union {NoDoc}
    BY <1>2, <2>1, FirstIn DEF Graphs
  <2> QED
    BY <2>2 DEF Graphs
<1>7. ReadAgain(owners) \in SUBSET Docs
  <2> HIDE DEF owners
  <2> QED
    BY <1>5 DEF ReadAgain, Within, OnDisk
<1> HIDE DEF changed, table, owners, kept
<1>8. run' \in RunType
  BY <1>1, <1>2, <1>3, <1>6, <1>7 DEF RunType
<1>9. StoredTyped'
  BY <1>1, <1>4, TypeIs DEF StoredTyped
<1> QED
  BY <1>1, <1>8, <1>9, TypeIs, TypeStep

(* What resolution leaves of the merged graph, and what it is said to join.  *)
LEMMA PublishIs ==
  ASSUME Publish
  PROVE  \E gone \in SUBSET Entities :
           /\ graph' = [e \in Entities |-> IF e \in gone THEN NoDoc ELSE Merged[e]]
           /\ joined' = gone \union (IF run.mode = "full" THEN {} ELSE joined)
           /\ run.mode \notin {"full", "retry", "noop"} => gone = {}
<1>1. PICK gone \in (IF run.mode \in {"full", "retry", "noop"} THEN Joins(Merged) ELSE {{}}) :
        /\ graph' = [e \in Entities |-> IF e \in gone THEN NoDoc ELSE Merged[e]]
        /\ joined' = gone \union (IF run.mode = "full" THEN {} ELSE joined)
  BY DEF Publish
<1>2. gone \in SUBSET Entities
  BY DEF Joins
<1>3. run.mode \notin {"full", "retry", "noop"} => gone = {}
  OBVIOUS
<1> QED
  BY <1>1, <1>2, <1>3

LEMMA TypePublish == ASSUME TypeOK, Publish PROVE TypeOK'
<1>1. run \in RunType /\ run.kept \in Graphs /\ run.fresh \in SUBSET Reads /\ run.again \in SUBSET Reads
  BY TypeIs DEF RunType
<1>2. Standing(run.kept) \in Graphs /\ NoGraph \in Graphs /\ run.fresh \union run.again \in SUBSET Reads
  BY <1>1 DEF Standing, NoGraph, Graphs, OnDisk
<1>3. Merged \in Graphs
  <2>1. Merged \in {Merge(Standing(run.kept), run.fresh \union run.again),
                   Merge(NoGraph, run.again), Merge(run.kept, run.fresh)}
    BY DEF Merged
  <2> QED
    BY <1>1, <1>2, <2>1, MergeIs
<1>4. graph' \in Graphs /\ joined' \subseteq Entities
  <2>1. joined \subseteq Entities
    BY DEF TypeOK
  <2> QED
    BY <1>3, <2>1, PublishIs DEF Graphs
<1>5. run' \in RunType
  BY <1>1 DEF Publish, RunType
<1>6. StoredTyped'
  BY <1>4, TypeIs DEF StoredTyped, Publish, manifest
<1> QED
  BY <1>5, <1>6, TypeIs, TypeStep DEF Publish

LEMMA TypeStamp == ASSUME TypeOK, Stamp PROVE TypeOK'
<1>1. StoredTyped'
  BY TypeIs DEF StoredTyped, Stamp, Held, Outcomes, YesNo
<1>2. run' \in RunType
  BY IdleTyped DEF Stamp
<1> QED
  BY <1>1, <1>2, TypeIs, TypeStep DEF Stamp

LEMMA TypeNext == TypeOK /\ [Next]_vars => TypeOK'
<1> SUFFICES ASSUME TypeOK, [Next]_vars PROVE TypeOK'
  OBVIOUS
<1>0. run \in RunType /\ StoredTyped
  BY TypeIs
<1>1. CASE \E c \in Calls : Start(c)
  BY <1>1, TypeStart
<1>2. CASE \E d \in Docs : Extract(d)
  BY <1>2, TypeExtract
<1>3. CASE \E d \in Docs : ExtractFails(d)
  <2>1. run' = Idle /\ StoredTyped'
    BY <1>0, <1>3 DEF ExtractFails, StoredTyped, manifest
  <2> QED
    BY <1>3, <2>1, IdleTyped, TypeIs, TypeStep DEF ExtractFails
<1>4. CASE Rebuild
  <2>1. run' \in RunType /\ StoredTyped'
    BY <1>0, <1>4 DEF Rebuild, RunType, StoredTyped, manifest
  <2> QED
    BY <1>4, <2>1, TypeIs, TypeStep DEF Rebuild
<1>5. CASE RetryMarked
  <2>1. PICK g : g = [e \in Entities |-> IF e \in Removed(Read(run.fresh)) THEN NoDoc ELSE graph[e]]
    OBVIOUS
  <2>2. g \in Graphs
    BY <1>0, <2>1 DEF Graphs, StoredTyped
  <2>3. run' = [run EXCEPT !.pc = "publish", !.kept = g]
    BY <1>5, <2>1 DEF RetryMarked
  <2>4. run' \in RunType
    BY <1>0, <2>2, <2>3 DEF RunType
  <2>5. StoredTyped'
    BY <1>0, <1>5 DEF RetryMarked, StoredTyped, Without, manifest
  <2> QED
    BY <1>5, <2>4, <2>5, TypeIs, TypeStep DEF RetryMarked
<1>6. CASE Rebind
  <2>1. run' \in RunType /\ StoredTyped'
    BY <1>0, <1>6 DEF Rebind, RunType, StoredTyped, manifest
  <2> QED
    BY <1>6, <2>1, TypeIs, TypeStep DEF Rebind
<1>7. CASE Tombstone
  BY <1>7, TypeTombstone
<1>8. CASE Publish
  BY <1>8, TypePublish
<1>9. CASE Record
  <2>1. run' \in RunType
    BY <1>0, <1>9 DEF Record, RunType
  <2>2. StoredTyped'
    BY <1>0, <1>9 DEF Record, StoredTyped, RowsOf, manifest
  <2> QED
    BY <1>9, <2>1, <2>2, TypeIs, TypeStep DEF Record
<1>10. CASE Stamp
  BY <1>10, TypeStamp
<1>11. CASE ReuseEnds
  <2>1. run' = Idle /\ StoredTyped'
    BY <1>0, <1>11 DEF ReuseEnds, StoredTyped, manifest
  <2> QED
    BY <1>11, <2>1, IdleTyped, TypeIs, TypeStep DEF ReuseEnds
<1>12. CASE Kill
  <2>1. run' = Idle /\ StoredTyped' /\ kills' \in 0..Kills
    BY <1>0, <1>12, TypeIs, CompileAssumption DEF Kill, StoredTyped, manifest, CompileAssumption
  <2> QED
    BY <1>12, <2>1, IdleTyped, TypeIs, TypeStep DEF Kill
<1>13. CASE \E d \in Docs, v \in Held : Save(d, v)
  <2>1. PICK d \in Docs, v \in Held : Save(d, v)
    BY <1>13
  <2>2. disk' \in [Docs -> Held] /\ noticed' \subseteq Docs /\ clean' \in {"yes", "running", "no"}
    BY <2>1, TypeIs DEF Save
  <2>3. writes' \in 0..Writes
    BY <2>1, TypeIs, CompileAssumption DEF Save, CompileAssumption
  <2>4. StoredTyped' /\ run' = run /\ kills' = kills
    BY <1>0, <2>1 DEF Save, StoredTyped, manifest
  <2> QED
    BY <1>0, <2>2, <2>3, <2>4, TypeIs, TypeStep
<1>14. CASE UNCHANGED vars
  BY <1>14 DEF vars, manifest, TypeOK
<1> QED
  BY <1>1, <1>2, <1>3, <1>4, <1>5, <1>6, <1>7, <1>8, <1>9, <1>10, <1>11, <1>12, <1>13, <1>14 DEF Next

(* The state always has its type: every merge attributes an entity to one of *)
(* the documents that assert it, whatever the calls, limits and kills.       *)
THEOREM TypeCorrect == Spec => []TypeOK
BY TypeInit, TypeNext, PTL DEF Spec

-----------------------------------------------------------------------------
(* No document is lost behind its stamp. *)

\* What the theorems assume beyond the specification: each compile is over the
\* whole corpus, no document is rewritten under its hands, a deleted one returns
\* only after its entry is pruned, and a second reading in one compile fares as
\* the first.  Kills, failed readings, and edits between compiles stay.
Undisturbed ==
  /\ Hazards = {}
  /\ \A c \in Calls : c.named = "no" /\ Cardinality(Docs) <= c.limit

\* The documents a stamped manifest answers for, and what the stores owe them.
Live        == Tracked \intersect OnDisk
HasNodes(d) == Asserts[Entry(d)] \subseteq InGraph \union joined
HasRows(d)  == \A e \in Asserts[Entry(d)] : e \in joined \/ <<e, d>> \in rows
Finishing   == run.pc \in {"record", "stamp"}

\* A node is attributed to a document of the manifest, one that is staying.
Attributed ==
  /\ \A e \in InGraph : graph[e] \in Tracked
  /\ Finishing => \A e \in InGraph : graph[e] \notin Pruned

\* ... and so is every row.
RowsTracked ==
  /\ \A row \in rows : row[2] \in Tracked /\ row[2] \notin run.missing
  /\ run.pc = "stamp" => \A row \in rows : row[2] \notin Pruned

\* A tracked document that is gone stays gone until the stamp pass prunes it.
GoneStaysGone ==
  /\ run.pc # "idle" => Live \subseteq run.found
  /\ run.missing \subseteq Tracked /\ run.missing \intersect OnDisk = {}

\* What was read is what the manifest recorded, unstamped until the end.
ReadsRecorded ==
  \A r \in run.fresh \union run.again :
    /\ r = Entry(r[1]) /\ stamp[r[1]] = "no"
    /\ r[1] \in run.found /\ r[1] \notin run.missing
    /\ run.pc \in {"extract", "again"} =>
         disk[r[1]] = r[2] \/ (disk[r[1]] = Absent /\ r[1] \in run.todo)

\* What is still to be read is as it was scanned, or gone.
ToRead ==
  run.pc \in {"extract", "again"} =>
    /\ run.todo \subseteq run.found
    /\ \A d \in run.todo : run.digest[d] # Absent /\ disk[d] \in {run.digest[d], Absent}
    /\ run.pc = "again" => \A d \in run.todo : sha[d] = run.digest[d] /\ d \notin run.missing

\* A document the first batch skipped is unchanged, and the stores have it.
Extracting ==
  run.pc = "extract" =>
    /\ run.mode \in {"full", "incremental", "retry"}
    /\ run.again = {} /\ run.missing = {} /\ run.kept = NoGraph
    /\ run.found = run.todo \union Read(run.fresh) \union run.skipped
    /\ run.todo \intersect Read(run.fresh) = {}
    /\ run.skipped \intersect (run.todo \union Read(run.fresh)) = {}
    /\ run.mode = "full" => run.skipped = {}
    /\ \A d \in run.skipped :
         sha[d] # Absent /\ disk[d] \in {sha[d], Absent} /\ HasNodes(d) /\ HasRows(d)

\* An entity the tombstone took from an unchanged document is read again.
ReadingAgain ==
  run.pc = "again" =>
    /\ run.mode \in {"incremental", "rebuilt"}
    /\ \A e \in Entities : run.kept[e] # NoDoc => run.kept[e] \in Tracked
    /\ run.mode = "rebuilt" => Live \subseteq run.todo \union Read(run.again)
    /\ \A d \in Live \ Read(run.fresh) :
         /\ HasRows(d)
         /\ d \in run.todo \union Read(run.again)
            \/ \A e \in Asserts[Entry(d)] \ joined : run.kept[e] \in OnDisk \union run.todo

\* What is about to be published has every live document.
Publishing ==
  run.pc = "publish" =>
    /\ run.mode \in {"full", "retry", "rebind", "noop"}
    /\ run.missing = {} /\ run.again = {}
    /\ \A e \in Entities : run.kept[e] # NoDoc => run.kept[e] \in Tracked
    /\ run.mode = "full" => run.kept = NoGraph
    /\ \A d \in Live \ Read(run.fresh) :
         /\ run.mode # "full" /\ HasRows(d)
         /\ \A e \in Asserts[Entry(d)] \ joined : run.kept[e] # NoDoc

\* What was published has.
Recording ==
  Finishing =>
    \A d \in Live :
      /\ HasNodes(d)
      /\ run.pc = "stamp" => HasRows(d)
      /\ run.pc = "record" => d \in Read(run.fresh) \/ (run.mode # "full" /\ HasRows(d))

StampsHold == GraphCoversCorpus => \A d \in Live : HasNodes(d) /\ HasRows(d)

CompileInv ==
  /\ TypeOK /\ Attributed /\ RowsTracked /\ GoneStaysGone /\ ReadsRecorded /\ ToRead
  /\ Extracting /\ ReadingAgain /\ Publishing /\ Recording /\ StampsHold

LEMMA EntryIs ==
  ASSUME TypeOK, NEW d \in Tracked
  PROVE  /\ Entry(d) \in Reads /\ Entry(d)[1] = d /\ Entry(d)[2] = sha[d]
         /\ Asserts[Entry(d)] \in SUBSET Entities
<1>1. Entry(d) \in Reads
  BY DEF Tracked, Entry, TypeOK, Held, Reads
<1> QED
  BY <1>1, CompileAssumption DEF CompileAssumption, Entry

LEMMA ReadIs ==
  ASSUME TypeOK, ReadsRecorded, NEW r \in run.fresh \union run.again
  PROVE  /\ r \in Reads /\ r[1] \in Docs /\ r[2] # Absent /\ r[1] \in Tracked
         /\ r = Entry(r[1]) /\ r[2] = sha[r[1]] /\ stamp[r[1]] = "no"
         /\ r[1] \in run.found /\ r[1] \notin run.missing
<1>1. r \in Reads
  BY TypeIs DEF RunType
<1>2. r[1] \in Docs /\ r[2] \in Contents /\ r[2] # Absent
  BY <1>1, CompileAssumption DEF Reads, CompileAssumption
<1>3. r = Entry(r[1]) /\ stamp[r[1]] = "no" /\ r[1] \in run.found /\ r[1] \notin run.missing
  BY DEF ReadsRecorded
<1>4. r[2] = sha[r[1]]
  BY <1>3 DEF Entry
<1> QED
  BY <1>1, <1>2, <1>3, <1>4 DEF Tracked

LEMMA ReadDocs ==
  ASSUME TypeOK, ReadsRecorded, NEW reads \in SUBSET (run.fresh \union run.again)
  PROVE  /\ \A d \in Read(reads) : Entry(d) \in reads /\ d \in Tracked /\ d \in run.found
         /\ Read(reads) \subseteq run.found
BY ReadIs DEF Read

(* A stamped manifest says nothing was read since. *)
LEMMA StampedMeansUnread ==
  ASSUME TypeOK, ReadsRecorded, GraphCoversCorpus
  PROVE  run.fresh = {} /\ run.again = {} /\ Read(run.fresh) = {}
<1>1. run.fresh \union run.again = {}
  BY ReadIs DEF GraphCoversCorpus
<1> QED
  BY <1>1 DEF Read

LEMMA InvInit == Init => CompileInv
<1> SUFFICES ASSUME Init PROVE CompileInv
  OBVIOUS
<1>1. run = Idle /\ rows = {} /\ graph = NoGraph /\ \A d \in Docs : sha[d] = Absent
  BY DEF Init
<1>2. run.pc = "idle" /\ run.fresh = {} /\ run.again = {} /\ run.missing = {}
  BY <1>1 DEF Idle
<1>3. Tracked = {} /\ InGraph = {} /\ Live = {}
  BY <1>1 DEF Tracked, InGraph, NoGraph, Live
<1> QED
  BY <1>1, <1>2, <1>3, TypeInit
     DEF CompileInv, Attributed, RowsTracked, GoneStaysGone, ReadsRecorded, ToRead, Extracting,
         ReadingAgain, Publishing, Recording, Finishing, StampsHold

(* A compile that ends leaves what it stored. *)
LEMMA InvEnds ==
  ASSUME CompileInv, TypeOK', run' = Idle, UNCHANGED <<disk, sha, outcome, stamp, graph, rows, joined>>
  PROVE  CompileInv'
<1>1. run'.pc = "idle" /\ run'.fresh = {} /\ run'.again = {} /\ run'.missing = {}
  BY DEF Idle
<1>2. Attributed'
  BY <1>1 DEF CompileInv, Attributed, Finishing, InGraph, Tracked
<1>3. RowsTracked'
  BY <1>1 DEF CompileInv, RowsTracked, Tracked
<1>4. StampsHold'
  BY DEF CompileInv, StampsHold, GraphCoversCorpus, Live, Tracked, OnDisk, HasNodes, HasRows, Entry,
         InGraph
<1> QED
  BY <1>1, <1>2, <1>3, <1>4
     DEF CompileInv, GoneStaysGone, ReadsRecorded, ToRead, Extracting, ReadingAgain, Publishing,
         Recording, Finishing

LEMMA ModeIs ==
  ASSUME TypeOK, NEW c \in Calls
  PROVE  /\ ModeOf(c) \in {"full", "incremental", "retry", "noop"}
         /\ ModeOf(c) # "full" => OnDisk = {} \/ GraphCoversCorpus
         /\ ModeOf(c) = "noop" => GraphCoversCorpus
BY DEF ModeOf, Reusable

LEMMA InvStart ==
  ASSUME Undisturbed, CompileInv, TypeOK', NEW c \in Calls, Start(c)
  PROVE  CompileInv'
<1> DEFINE mode == ModeOf(c)
           want == IF mode = "noop" THEN {} ELSE Wanted(c, mode)
<1>0. TypeOK /\ Attributed /\ RowsTracked /\ StampsHold /\ GoneStaysGone
  BY DEF CompileInv
<1>1. want \in SUBSET Docs /\ want \subseteq OnDisk /\ OnDisk \in SUBSET Docs
  BY DEF OnDisk, Wanted
<1>2. c.limit \in Nat /\ Cardinality(Docs) <= c.limit
  BY CompileAssumption DEF CompileAssumption, Call, Undisturbed
<1>3. Within(c.limit, want) = want
  <2> HIDE DEF want
  <2> QED
    BY <1>1, <1>2, WithinAll
<1>4. /\ run'.pc = IF mode = "noop" THEN "publish" ELSE "extract"
      /\ run'.mode = mode /\ run'.digest = disk /\ run'.found = OnDisk
      /\ run'.todo = want
      /\ run'.skipped = {d \in OnDisk \ want : Before(d, want) <= c.limit}
      /\ run'.kept = IF mode = "noop" THEN graph ELSE NoGraph
      /\ run'.fresh = {} /\ run'.again = {} /\ run'.missing = {}
  BY <1>3 DEF Start, Idle
<1>5. UNCHANGED <<disk, sha, outcome, stamp, graph, rows, joined>>
  BY DEF Start, manifest
<1>6. run'.skipped = OnDisk \ want
  <2> HIDE DEF want
  <2>1. \A x \in Docs : Before(x, want) < c.limit
    BY <1>1, <1>2, LimitIsEnough
  <2>2. \A x \in Docs : Before(x, want) \in Nat
    <3> TAKE x \in Docs
    <3>1. IsFiniteSet(want)
      BY <1>1, CompileAssumption, FS_Subset DEF CompileAssumption
    <3>2. IsFiniteSet({w \in want : w < x})
      BY <3>1, FS_Subset
    <3> QED
      BY <3>2, FS_CardinalityType DEF Before
  <2> QED
    BY <1>1, <1>2, <1>4, <2>1, <2>2
<1>7. /\ mode \in {"full", "incremental", "retry", "noop"}
      /\ mode # "full" => \A d \in Live : HasNodes(d) /\ HasRows(d)
  <2>1. OnDisk = {} => Live = {}
    BY DEF Live
  <2> QED
    BY <1>0, <2>1, ModeIs DEF StampsHold
<1>8. mode = "full" => want = OnDisk
  BY DEF Wanted, OnDisk
<1>9. mode \notin {"full", "noop"} => \A d \in OnDisk \ want : sha[d] = disk[d]
  BY DEF Wanted
<1> HIDE DEF mode, want
<1>10. Attributed'
  BY <1>0, <1>4, <1>5 DEF Attributed, Finishing, InGraph, Tracked
<1>11. RowsTracked'
  BY <1>0, <1>4, <1>5 DEF RowsTracked, Tracked
<1>12. GoneStaysGone'
  BY <1>0, <1>4, <1>5 DEF GoneStaysGone, Live, Tracked, OnDisk
<1>13. ToRead'
  BY <1>1, <1>4, <1>5 DEF ToRead, OnDisk
<1>14. Extracting'
  <2> SUFFICES ASSUME run'.pc = "extract" PROVE Extracting'
    BY DEF Extracting
  <2>1. mode # "noop" /\ Read(run'.fresh) = {}
    BY <1>4 DEF Read
  <2>2. ASSUME NEW d \in run'.skipped
        PROVE  (sha[d] # Absent /\ disk[d] \in {sha[d], Absent} /\ HasNodes(d) /\ HasRows(d))'
    <3>1. d \in OnDisk \ want /\ mode # "full"
      BY <1>6, <1>8, <2>2
    <3>2. sha[d] = disk[d] /\ disk[d] # Absent /\ d \in Live
      BY <1>9, <2>1, <3>1 DEF OnDisk, Live, Tracked
    <3>3. HasNodes(d) /\ HasRows(d)
      BY <1>7, <3>1, <3>2
    <3> QED
      BY <1>5, <3>2, <3>3 DEF HasNodes, HasRows, InGraph, Entry
  <2> QED
    BY <1>1, <1>4, <1>6, <1>7, <1>8, <2>1, <2>2 DEF Extracting
<1>15. Publishing'
  <2> SUFFICES ASSUME run'.pc = "publish" PROVE Publishing'
    BY DEF Publishing
  <2>1. mode = "noop" /\ run'.kept = graph
    BY <1>4
  <2>2. \A e \in Entities : graph[e] # NoDoc => graph[e] \in Tracked
    BY <1>0 DEF Attributed, InGraph
  <2>3. \A d \in Live : HasRows(d) /\ \A e \in Asserts[Entry(d)] \ joined : graph[e] # NoDoc
    BY <1>7, <2>1 DEF HasNodes, InGraph
  <2> QED
    BY <1>4, <1>5, <2>1, <2>2, <2>3 DEF Publishing, Live, Tracked, OnDisk, HasRows, Entry
<1>16. StampsHold'
  BY <1>0, <1>5 DEF StampsHold, GraphCoversCorpus, Live, Tracked, OnDisk, HasNodes, HasRows, Entry,
                    InGraph
<1>17. ReadsRecorded' /\ ReadingAgain' /\ Recording'
  BY <1>4 DEF ReadsRecorded, ReadingAgain, Recording, Finishing
<1> QED
  BY <1>10, <1>11, <1>12, <1>13, <1>14, <1>15, <1>16, <1>17 DEF CompileInv

(* What one read records of its document. *)
LEMMA ExtractIs ==
  ASSUME CompileInv, NEW d \in Docs, Extract(d)
  PROVE  \E o \in Outcomes :
           /\ run.pc \in {"extract", "again"} /\ run'.pc = run.pc /\ run'.mode = run.mode
           /\ run'.todo = run.todo \ {d} /\ d \in run.todo /\ d \in run.found
           /\ run'.fresh = IF run.pc = "extract" THEN run.fresh \union {<<d, disk[d], o>>} ELSE run.fresh
           /\ run'.again = IF run.pc = "extract" THEN run.again ELSE run.again \union {<<d, disk[d], o>>}
           /\ run'.found = run.found /\ run'.skipped = run.skipped /\ run'.missing = run.missing
           /\ run'.kept = run.kept /\ run'.digest = run.digest
           /\ d \notin run.missing
           /\ disk[d] # Absent /\ run.digest[d] = disk[d]
           /\ sha' = [sha EXCEPT ![d] = disk[d]] /\ outcome' = [outcome EXCEPT ![d] = o]
           /\ stamp' = [stamp EXCEPT ![d] = "no"]
           /\ UNCHANGED <<disk, graph, rows, joined>>
<1>1. run \in RunType /\ TypeOK /\ Answers(d) \subseteq Outcomes
  BY TypeIs DEF CompileInv, Answers, TypeOK
<1>2. run.pc \in {"extract", "again"} /\ d \in run.todo /\ disk[d] # Absent
  BY DEF Extract
<1>3. d \in run.found /\ run.digest[d] = disk[d] /\ d \notin run.missing
  BY <1>2 DEF CompileInv, ToRead, Extracting
<1>4. PICK o \in Answers(d) :
        /\ run' = IF run.pc = "extract"
                  THEN [run EXCEPT !.todo = @ \ {d}, !.fresh = @ \union {<<d, disk[d], o>>}]
                  ELSE [run EXCEPT !.todo = @ \ {d}, !.again = @ \union {<<d, disk[d], o>>}]
        /\ sha' = [sha EXCEPT ![d] = run.digest[d]]
        /\ outcome' = [outcome EXCEPT ![d] = o]
        /\ stamp' = [stamp EXCEPT ![d] = "no"]
  BY DEF Extract
<1>5. UNCHANGED <<disk, graph, rows, joined>>
  BY DEF Extract
<1> o \in Outcomes
  BY <1>1, <1>4
<1> WITNESS o \in Outcomes
<1>6. CASE run.pc = "extract"
  BY <1>1, <1>2, <1>3, <1>4, <1>5, <1>6 DEF RunType
<1>7. CASE run.pc = "again"
  BY <1>1, <1>2, <1>3, <1>4, <1>5, <1>7 DEF RunType
<1> QED
  BY <1>2, <1>6, <1>7

(* The second read of an unchanged document is answered from the cache.     *)
LEMMA AgainIsTheSame ==
  ASSUME Undisturbed, CompileInv, NEW d \in Docs, Extract(d), run.pc = "again"
  PROVE  UNCHANGED <<sha, outcome>>
<1>1. d \in run.todo /\ disk[d] # Absent /\ run.digest[d] = disk[d] /\ sha[d] = disk[d]
  BY DEF CompileInv, Extract, ToRead
<1>2. Answers(d) = {outcome[d]}
  BY <1>1 DEF Answers, Undisturbed
<1>3. sha' = [sha EXCEPT ![d] = sha[d]] /\ outcome' = [outcome EXCEPT ![d] = outcome[d]]
  BY <1>1, <1>2 DEF Extract
<1> QED
  BY <1>3 DEF CompileInv, TypeOK

LEMMA InvExtract ==
  ASSUME Undisturbed, CompileInv, TypeOK', NEW d \in Docs, Extract(d)
  PROVE  CompileInv'
<1>0. TypeOK /\ Attributed /\ RowsTracked /\ GoneStaysGone /\ ReadsRecorded /\ ToRead
      /\ Extracting /\ ReadingAgain
  BY DEF CompileInv
<1>1. PICK o \in Outcomes :
        /\ run.pc \in {"extract", "again"} /\ run'.pc = run.pc /\ run'.mode = run.mode
        /\ run'.todo = run.todo \ {d} /\ d \in run.todo /\ d \in run.found
        /\ run'.fresh = IF run.pc = "extract" THEN run.fresh \union {<<d, disk[d], o>>} ELSE run.fresh
        /\ run'.again = IF run.pc = "extract" THEN run.again ELSE run.again \union {<<d, disk[d], o>>}
        /\ run'.found = run.found /\ run'.skipped = run.skipped /\ run'.missing = run.missing
        /\ run'.kept = run.kept /\ run'.digest = run.digest
        /\ d \notin run.missing
        /\ disk[d] # Absent /\ run.digest[d] = disk[d]
        /\ sha' = [sha EXCEPT ![d] = disk[d]] /\ outcome' = [outcome EXCEPT ![d] = o]
        /\ stamp' = [stamp EXCEPT ![d] = "no"]
        /\ UNCHANGED <<disk, graph, rows, joined>>
  BY ExtractIs
<1>2. /\ sha'[d] = disk[d] /\ outcome'[d] = o /\ stamp'[d] = "no"
      /\ \A x \in Docs : x # d => sha'[x] = sha[x] /\ outcome'[x] = outcome[x] /\ stamp'[x] = stamp[x]
  BY <1>0, <1>1 DEF TypeOK
<1>3. Entry(d)' = <<d, disk[d], o>> /\ \A x \in Docs : x # d => Entry(x)' = Entry(x)
  BY <1>2 DEF Entry
<1>4. Tracked' = Tracked \union {d} /\ OnDisk' = OnDisk /\ InGraph' = InGraph
  BY <1>1, <1>2 DEF Tracked, OnDisk, InGraph
<1>5. Attributed'
  BY <1>0, <1>1, <1>4 DEF Attributed, Finishing
<1>6. RowsTracked'
  BY <1>0, <1>1, <1>4 DEF RowsTracked
<1>7. GoneStaysGone'
  BY <1>0, <1>1, <1>4 DEF GoneStaysGone, Live
<1>8. ReadsRecorded'
  <2>1. ASSUME NEW r \in run.fresh \union run.again
        PROVE  /\ r = Entry(r[1])' /\ stamp'[r[1]] = "no"
               /\ r[1] \in run.found /\ r[1] \notin run.missing
               /\ disk[r[1]] = r[2] \/ (disk[r[1]] = Absent /\ r[1] \in run'.todo)
    <3>1. r[1] \in Docs /\ r = Entry(r[1]) /\ r[2] = sha[r[1]] /\ stamp[r[1]] = "no"
          /\ r[1] \in run.found /\ r[1] \notin run.missing
      BY <1>0, ReadIs
    <3>2. disk[r[1]] = r[2] \/ (disk[r[1]] = Absent /\ r[1] \in run.todo)
      BY <1>0, <1>1 DEF ReadsRecorded
    <3>3. CASE r[1] # d
      BY <1>1, <1>2, <1>3, <3>1, <3>2, <3>3
    <3>4. CASE r[1] = d
      <4>1. run.pc = "again"
        <5>1. ASSUME run.pc = "extract" PROVE FALSE
          <6>1. run.again = {} /\ run.todo \intersect Read(run.fresh) = {}
            BY <1>0, <5>1 DEF Extracting
          <6>2. d \in Read(run.fresh)
            BY <3>4, <6>1 DEF Read
          <6> QED
            BY <1>1, <6>1, <6>2
        <5> QED
          BY <1>1, <5>1
      <4>2. UNCHANGED <<sha, outcome>>
        BY <4>1, AgainIsTheSame
      <4>3. Entry(r[1])' = Entry(r[1])
        BY <4>2 DEF Entry
      <4> QED
        BY <1>1, <1>2, <3>1, <3>2, <3>4, <4>3
    <3> QED
      BY <3>3, <3>4
  <2>2. ASSUME NEW r \in run'.fresh \union run'.again, r \notin run.fresh \union run.again
        PROVE  r = <<d, disk[d], o>>
    BY <1>1, <2>2
  <2>3. ASSUME NEW r, r = <<d, disk[d], o>>
        PROVE  /\ r = Entry(r[1])' /\ stamp'[r[1]] = "no"
               /\ r[1] \in run.found /\ r[1] \notin run.missing /\ disk[r[1]] = r[2]
    BY <1>1, <1>2, <1>3, <2>3
  <2>4. UNCHANGED disk /\ run'.found = run.found /\ run'.missing = run.missing
    BY <1>1
  <2> QED
    BY <2>1, <2>2, <2>3, <2>4 DEF ReadsRecorded
<1>9. ToRead'
  <2>1. \A x \in run'.todo : x \in run.todo /\ x # d /\ x \in Docs
    BY <1>0, <1>1, TypeIs DEF RunType
  <2> QED
    BY <1>0, <1>1, <1>2, <2>1 DEF ToRead
<1>10. Extracting'
  <2> SUFFICES ASSUME run.pc = "extract" PROVE Extracting'
    BY <1>1 DEF Extracting
  <2>1. Read(run'.fresh) = Read(run.fresh) \union {d}
    <3>1. run'.fresh = run.fresh \union {<<d, disk[d], o>>} /\ <<d, disk[d], o>>[1] = d
      BY <1>1
    <3> QED
      BY <3>1 DEF Read
  <2>2. ASSUME NEW x \in run.skipped
        PROVE  (sha[x] # Absent /\ disk[x] \in {sha[x], Absent} /\ HasNodes(x) /\ HasRows(x))'
    <3>1. x # d /\ x \in Docs
      BY <1>0, <1>1, <2>2, TypeIs DEF Extracting, RunType
    <3>2. sha[x] # Absent /\ disk[x] \in {sha[x], Absent} /\ HasNodes(x) /\ HasRows(x)
      BY <1>0, <2>2 DEF Extracting
    <3> QED
      BY <1>1, <1>2, <1>3, <1>4, <3>1, <3>2 DEF HasNodes, HasRows
  <2>3. d \notin run.skipped /\ d \notin Read(run.fresh)
    BY <1>0, <1>1 DEF Extracting
  <2>4. /\ run.found = run.todo \union Read(run.fresh) \union run.skipped
        /\ run.todo \intersect Read(run.fresh) = {}
        /\ run.skipped \intersect (run.todo \union Read(run.fresh)) = {}
    BY <1>0 DEF Extracting
  <2>5. /\ run.found = run'.todo \union Read(run'.fresh) \union run.skipped
        /\ run'.todo \intersect Read(run'.fresh) = {}
        /\ run.skipped \intersect (run'.todo \union Read(run'.fresh)) = {}
    <3>1. run'.todo = run.todo \ {d} /\ d \in run.todo
      BY <1>1
    <3>2. run'.todo \union Read(run'.fresh) = run.todo \union Read(run.fresh)
      BY <2>1, <3>1
    <3>3. run'.todo \intersect Read(run'.fresh) = {}
      BY <2>1, <2>4, <3>1
    <3> QED
      BY <2>4, <3>2, <3>3
  <2>6. /\ run.mode \in {"full", "incremental", "retry"}
        /\ run.again = {} /\ run.missing = {} /\ run.kept = NoGraph /\ NoGraph' = NoGraph
        /\ run.mode = "full" => run.skipped = {}
    BY <1>0 DEF Extracting, NoGraph
  <2>7. /\ run'.mode = run.mode /\ run'.again = run.again /\ run'.missing = run.missing
        /\ run'.kept = run.kept /\ run'.skipped = run.skipped /\ run'.found = run.found
    BY <1>1
  <2> QED
    BY <2>2, <2>5, <2>6, <2>7 DEF Extracting
<1>11. ReadingAgain'
  <2> SUFFICES ASSUME run.pc = "again" PROVE ReadingAgain'
    BY <1>1 DEF ReadingAgain
  <2>1. UNCHANGED <<sha, outcome>>
    BY AgainIsTheSame
  <2>2. Live' = Live /\ Tracked' = Tracked /\ \A x \in Docs : Entry(x)' = Entry(x)
    BY <1>4, <2>1 DEF Live, Tracked, Entry
  <2>3. Read(run'.again) = Read(run.again) \union {d}
    <3>1. run'.again = run.again \union {<<d, disk[d], o>>} /\ <<d, disk[d], o>>[1] = d
      BY <1>1
    <3> QED
      BY <3>1 DEF Read
  <2>4. run'.todo \union Read(run'.again) = run.todo \union Read(run.again)
    BY <1>1, <2>3
  <2>5. OnDisk \union run.todo = OnDisk \union run'.todo
    BY <1>1 DEF OnDisk
  <2>6. run'.fresh = run.fresh /\ run'.kept = run.kept /\ run'.mode = run.mode /\ run'.pc = "again"
        /\ Live \subseteq Docs /\ rows' = rows /\ joined' = joined /\ OnDisk' = OnDisk
    BY <1>1, <1>4 DEF Live, OnDisk
  <2>7. /\ run'.mode \in {"incremental", "rebuilt"}
        /\ \A e \in Entities : run'.kept[e] # NoDoc => run'.kept[e] \in Tracked'
        /\ run'.mode = "rebuilt" => Live' \subseteq run'.todo \union Read(run'.again)
    BY <1>0, <2>2, <2>4, <2>6 DEF ReadingAgain
  <2>8. ASSUME NEW x \in Live' \ Read(run'.fresh)
        PROVE  /\ HasRows(x)'
               /\ x \in run'.todo \union Read(run'.again)
                  \/ \A e \in Asserts[Entry(x)'] \ joined' : run'.kept[e] \in OnDisk' \union run'.todo
    <3>1. x \in Live \ Read(run.fresh) /\ x \in Docs /\ Entry(x)' = Entry(x)
      BY <2>2, <2>6
    <3>2. HasRows(x) /\ (x \in run.todo \union Read(run.again)
                         \/ \A e \in Asserts[Entry(x)] \ joined : run.kept[e] \in OnDisk \union run.todo)
      BY <1>0, <3>1 DEF ReadingAgain
    <3> QED
      BY <2>4, <2>5, <2>6, <3>1, <3>2 DEF HasRows
  <2> QED
    BY <2>7, <2>8 DEF ReadingAgain
<1>12. StampsHold'
  BY <1>2, <1>4 DEF StampsHold, GraphCoversCorpus
<1>13. Publishing' /\ Recording'
  BY <1>1 DEF Publishing, Recording, Finishing
<1> QED
  BY <1>5, <1>6, <1>7, <1>8, <1>9, <1>10, <1>11, <1>12, <1>13 DEF CompileInv

(* A full compile has read every live document. *)
LEMMA InvRebuild == ASSUME CompileInv, TypeOK', Rebuild PROVE CompileInv'
<1>0. TypeOK /\ Attributed /\ RowsTracked /\ GoneStaysGone /\ ReadsRecorded /\ Extracting
      /\ StampsHold /\ run \in RunType
  BY TypeIs DEF CompileInv
<1>1. /\ run' = [run EXCEPT !.pc = "publish"] /\ run.pc = "extract" /\ run.todo = {}
      /\ run.mode = "full" /\ UNCHANGED <<disk, sha, outcome, stamp, graph, rows, joined>>
  BY DEF Rebuild, Extracted, manifest
<1>2. /\ run'.pc = "publish" /\ run'.mode = "full" /\ run'.missing = {} /\ run'.again = {}
      /\ run'.fresh = run.fresh /\ run'.found = run.found /\ run'.kept = NoGraph
      /\ run.missing = {} /\ run.again = {}
  BY <1>0, <1>1 DEF RunType, Extracting
<1>3. run.found = Read(run.fresh)
  BY <1>0, <1>1 DEF Extracting
<1>4. Live' = Live /\ Live \subseteq Read(run'.fresh) /\ Tracked' = Tracked
  BY <1>0, <1>1, <1>2, <1>3 DEF Live, Tracked, OnDisk, GoneStaysGone
<1>5. Publishing'
  BY <1>2, <1>4 DEF Publishing, NoGraph
<1>6. ReadsRecorded'
  BY <1>0, <1>1, <1>2 DEF ReadsRecorded, Entry
<1>7. Attributed' /\ RowsTracked' /\ GoneStaysGone'
  BY <1>0, <1>1, <1>2, <1>4
     DEF Attributed, RowsTracked, GoneStaysGone, Finishing, InGraph, Tracked, OnDisk
<1>8. StampsHold'
  BY <1>0, <1>1 DEF StampsHold, GraphCoversCorpus, Live, Tracked, OnDisk, HasNodes, HasRows, Entry,
                    InGraph
<1> QED
  BY <1>2, <1>5, <1>6, <1>7, <1>8
     DEF CompileInv, ToRead, Extracting, ReadingAgain, Recording, Finishing

(* Where nothing changed, graph.json is published again. *)
LEMMA InvRebind == ASSUME Undisturbed, CompileInv, TypeOK', Rebind PROVE CompileInv'
<1>0. TypeOK /\ Attributed /\ RowsTracked /\ GoneStaysGone /\ ReadsRecorded /\ Extracting
      /\ StampsHold /\ run \in RunType
  BY TypeIs DEF CompileInv
<1>1. /\ run' = [run EXCEPT !.pc = "publish", !.mode = "rebind", !.kept = graph]
      /\ run.pc = "extract" /\ run.todo = {} /\ run.fresh = {}
      /\ UNCHANGED <<disk, sha, outcome, stamp, graph, rows, joined>>
  BY DEF Rebind, Extracted, manifest, NothingToDo
<1>2. /\ run'.pc = "publish" /\ run'.mode = "rebind" /\ run'.missing = {} /\ run'.again = {}
      /\ run'.fresh = {} /\ run'.found = run.found /\ run'.kept = graph
      /\ run.missing = {} /\ run.again = {} /\ Read(run.fresh) = {}
  BY <1>0, <1>1 DEF RunType, Extracting, Read
<1>3. run.found = run.skipped
  BY <1>0, <1>1, <1>2 DEF Extracting
<1>4. Live' = Live /\ Tracked' = Tracked /\ OnDisk' = OnDisk /\ Live \subseteq run.skipped
  BY <1>0, <1>1, <1>3 DEF Live, Tracked, OnDisk, GoneStaysGone
<1>5. \A d \in Live : HasRows(d) /\ \A e \in Asserts[Entry(d)] \ joined : graph[e] # NoDoc
  BY <1>0, <1>1, <1>4 DEF Extracting, HasNodes, InGraph
<1>6. \A e \in Entities : graph[e] # NoDoc => graph[e] \in Tracked
  BY <1>0 DEF Attributed, InGraph
<1>7. Publishing'
  BY <1>1, <1>2, <1>4, <1>5, <1>6 DEF Publishing, HasRows, Entry
<1>8. Attributed' /\ RowsTracked' /\ GoneStaysGone' /\ ReadsRecorded'
  BY <1>0, <1>1, <1>2, <1>4
     DEF Attributed, RowsTracked, GoneStaysGone, ReadsRecorded, Finishing, InGraph
<1>9. StampsHold'
  BY <1>0, <1>1 DEF StampsHold, GraphCoversCorpus, Live, Tracked, OnDisk, HasNodes, HasRows, Entry,
                    InGraph
<1> QED
  BY <1>2, <1>7, <1>8, <1>9
     DEF CompileInv, ToRead, Extracting, ReadingAgain, Recording, Finishing

(* What a delete takes is asserted by the deleted documents alone. *)
LEMMA RemovedIs ==
  ASSUME NEW docs, NEW d \in Docs, d \notin docs, NEW e, <<e, d>> \in rows
  PROVE  e \notin Removed(docs) /\ <<e, d>> \in Without(docs) /\ d \in Owners(e, Without(docs))
<1>1. <<e, d>>[2] = d
  OBVIOUS
<1>2. <<e, d>> \in Without(docs)
  BY <1>1 DEF Without
<1>3. d \in Owners(e, rows)
  BY DEF Owners
<1> QED
  BY <1>2, <1>3 DEF Removed, Owners

LEMMA InvRetry == ASSUME Undisturbed, CompileInv, TypeOK', RetryMarked PROVE CompileInv'
<1> DEFINE docs == Read(run.fresh)
           g    == [e \in Entities |-> IF e \in Removed(docs) THEN NoDoc ELSE graph[e]]
<1>0. TypeOK /\ Attributed /\ RowsTracked /\ GoneStaysGone /\ ReadsRecorded /\ Extracting
      /\ StampsHold /\ run \in RunType
  BY TypeIs DEF CompileInv
<1>1. /\ run' = [run EXCEPT !.pc = "publish", !.kept = g]
      /\ run.pc = "extract" /\ run.todo = {} /\ run.mode = "retry"
      /\ rows' = Without(docs) /\ UNCHANGED <<disk, sha, outcome, stamp, graph, joined>>
  BY DEF RetryMarked, Extracted, manifest
<1>2. /\ run'.pc = "publish" /\ run'.mode = "retry" /\ run'.missing = {} /\ run'.again = {}
      /\ run'.fresh = run.fresh /\ run'.found = run.found /\ run'.kept = g
      /\ run.missing = {} /\ run.again = {}
  <2> HIDE DEF g
  <2> QED
    BY <1>0, <1>1 DEF RunType, Extracting
<1>3. /\ Live' = Live /\ Tracked' = Tracked /\ OnDisk' = OnDisk /\ Live \subseteq Docs
      /\ Live \subseteq docs \union run.skipped
  BY <1>0, <1>1 DEF Live, Tracked, OnDisk, GoneStaysGone, Extracting
<1>4. ASSUME NEW d \in Live \ docs
      PROVE  HasRows(d)' /\ \A e \in Asserts[Entry(d)] \ joined : g[e] # NoDoc
  <2>1. d \in run.skipped /\ d \in Docs /\ HasNodes(d) /\ HasRows(d)
    BY <1>0, <1>1, <1>3, <1>4 DEF Extracting
  <2>2. ASSUME NEW e \in Asserts[Entry(d)] \ joined
        PROVE  <<e, d>> \in Without(docs) /\ g[e] # NoDoc
    <3>1. <<e, d>> \in rows /\ e \in Entities /\ graph[e] # NoDoc
      BY <2>1 DEF HasRows, HasNodes, InGraph
    <3>2. e \notin Removed(docs) /\ <<e, d>> \in Without(docs)
      BY <1>4, <2>1, <3>1, RemovedIs
    <3> QED
      BY <3>1, <3>2
  <2> QED
    BY <1>1, <2>2 DEF HasRows, Entry
<1>5. \A e \in Entities : g[e] # NoDoc => g[e] \in Tracked
  BY <1>0 DEF Attributed, InGraph
<1> HIDE DEF g
<1>6. Publishing'
  BY <1>1, <1>2, <1>3, <1>4, <1>5 DEF Publishing, Entry
<1>7. Attributed' /\ GoneStaysGone' /\ ReadsRecorded'
  BY <1>0, <1>1, <1>2, <1>3 DEF Attributed, GoneStaysGone, ReadsRecorded, Finishing, InGraph, Entry
<1>8. RowsTracked'
  BY <1>0, <1>1, <1>2, <1>3 DEF RowsTracked, Without
<1>9. StampsHold'
  <2> SUFFICES ASSUME GraphCoversCorpus PROVE \A d \in Live : HasNodes(d)' /\ HasRows(d)'
    BY <1>1, <1>3 DEF StampsHold, GraphCoversCorpus
  <2>1. docs = {}
    BY <1>0, StampedMeansUnread
  <2> QED
    BY <1>0, <1>1, <1>4, <2>1 DEF StampsHold, HasNodes, InGraph, Entry
<1> QED
  BY <1>2, <1>6, <1>7, <1>8, <1>9
     DEF CompileInv, ToRead, Extracting, ReadingAgain, Recording, Finishing

(* The first batch read or skipped each document it found, as it still is.   *)
LEMMA CaughtUp ==
  ASSUME CompileInv, run.pc = "extract", run.todo = {}
  PROVE  \A d \in run.found \intersect OnDisk : sha[d] = disk[d]
<1>0. TypeOK /\ ReadsRecorded /\ Extracting
  BY DEF CompileInv
<1> TAKE d \in run.found \intersect OnDisk
<1>1. disk[d] # Absent
  BY DEF OnDisk
<1>2. CASE d \in Read(run.fresh)
  <2>1. PICK r \in run.fresh : d = r[1]
    BY <1>2 DEF Read
  <2>2. r[2] = sha[r[1]]
    BY <1>0, ReadIs
  <2>3. disk[r[1]] = r[2]
    BY <1>0, <1>1, <2>1 DEF ReadsRecorded
  <2> QED
    BY <2>1, <2>2, <2>3
<1>3. CASE d \in run.skipped
  BY <1>0, <1>1, <1>3 DEF Extracting
<1> QED
  BY <1>0, <1>2, <1>3 DEF Extracting

(* The tombstone takes from a document that is live and unchanged only what  *)
(* the documents it reads again, that document among them, will give back.   *)
LEMMA InvTombstone == ASSUME Undisturbed, CompileInv, TypeOK', Tombstone PROVE CompileInv'
<1> PICK gone : TombstoneBut(gone)
  BY DEF Tombstone
<1> DEFINE changed  == Read(run.fresh) \union Missing
           table    == Without(changed)
           impacted == {e \in InGraph \ Removed(changed) : graph[e] \in changed}
           owners   == (UNION {Owners(e, table) : e \in impacted}) \intersect OnDisk
           covered  == {e \in impacted : Owners(e, table) \intersect owners # {}}
           lost     == Removed(changed) \union covered \union (impacted \ (Said(run.fresh) \ gone))
           kept     == [e \in Entities |->
                          IF e \in lost THEN NoDoc
                          ELSE IF e \in impacted /\ Owners(e, table) # {} THEN First(Owners(e, table))
                          ELSE graph[e]]
<1>0. /\ TypeOK /\ Attributed /\ RowsTracked /\ GoneStaysGone /\ ReadsRecorded /\ Extracting
      /\ StampsHold /\ run \in RunType /\ rows \subseteq Entities \X Docs
      /\ disk \in [Docs -> Held] /\ sha \in [Docs -> Held]
  BY TypeIs DEF CompileInv, StoredTyped
<1>1. run.call.named = "no" /\ run.call.limit \in Nat /\ Cardinality(Docs) <= run.call.limit
  BY <1>0, CompileAssumption DEF RunType, Undisturbed, CompileAssumption, Call
<1>2. /\ rows' = table /\ run.pc = "extract" /\ run.todo = {} /\ run.mode = "incremental"
      /\ run' = [run EXCEPT
           !.pc = "again", !.mode = IF Beyond(owners) THEN "rebuilt" ELSE @, !.digest = disk,
           !.todo = ReadAgain(owners), !.kept = kept, !.missing = Missing, !.dropped = changed]
      /\ UNCHANGED <<disk, sha, outcome, stamp, graph, joined>>
  <2>1. run.call.named # "yes"
    BY <1>1
  <2> QED
    BY <2>1 DEF TombstoneBut, Extracted, manifest
<1>3. Missing = Tracked \ OnDisk
  BY <1>1 DEF Missing
<1>4. run.fresh \in SUBSET Reads /\ run.missing = {} /\ run.again = {}
      /\ run.found = Read(run.fresh) \union run.skipped /\ run.found \in SUBSET Docs
  BY <1>0, <1>2 DEF RunType, Extracting
<1>5. /\ run'.pc = "again" /\ run'.mode = IF Beyond(owners) THEN "rebuilt" ELSE "incremental"
      /\ run'.digest = disk /\ run'.todo = ReadAgain(owners) /\ run'.kept = kept
      /\ run'.missing = Missing /\ run'.fresh = run.fresh /\ run'.again = {} /\ run'.found = run.found
  <2> HIDE DEF kept, owners
  <2> QED
    BY <1>0, <1>2, <1>4 DEF RunType
<1>6. Live' = Live /\ Tracked' = Tracked /\ OnDisk' = OnDisk /\ InGraph' = InGraph
      /\ \A d : Entry(d)' = Entry(d)
  BY <1>2 DEF Live, Tracked, OnDisk, InGraph, Entry
<1>7. Live \subseteq run.found /\ Live \subseteq Docs /\ OnDisk \subseteq Docs
  BY <1>0, <1>2 DEF GoneStaysGone, Live, OnDisk
<1>8. \A row \in table : row \in rows /\ row[2] \notin changed /\ row[2] \in Tracked
  BY <1>0 DEF Without, RowsTracked
<1>9. \A e : Owners(e, table) \subseteq Tracked /\ Owners(e, table) \in SUBSET Docs
  <2>1. ASSUME NEW e, NEW x \in Owners(e, table) PROVE x \in Tracked /\ x \in Docs
    <3>1. <<e, x>> \in table /\ <<e, x>>[2] = x /\ x \in Docs
      BY DEF Owners
    <3> HIDE DEF table
    <3> QED
      BY <1>8, <3>1
  <2> HIDE DEF table
  <2> QED
    BY <2>1
<1>10. owners \subseteq OnDisk /\ owners \subseteq Live
  BY <1>9 DEF Live
<1>11. \A d \in run.found \intersect OnDisk : sha[d] = disk[d]
  BY <1>2, CaughtUp
<1>12. /\ run'.todo = owners \/ run'.todo = run.found \intersect OnDisk
       /\ run'.mode = "rebuilt" => run'.todo = run.found \intersect OnDisk
  <2> HIDE DEF owners
  <2>1. run.found \intersect OnDisk \in SUBSET Docs
    BY <1>7
  <2>2. Within(run.call.limit, run.found \intersect OnDisk) = run.found \intersect OnDisk
    BY <1>1, <2>1, WithinAll
  <2> QED
    BY <1>5, <2>2 DEF ReadAgain
<1>13. owners \subseteq run'.todo /\ run'.todo \subseteq run.found \intersect OnDisk
  BY <1>7, <1>10, <1>12
<1>14. ASSUME NEW d \in Live \ Read(run.fresh)
       PROVE  /\ HasRows(d)'
              /\ d \in run'.todo \/ \A e \in Asserts[Entry(d)] \ joined : kept[e] \in OnDisk
  <2>1. d \in run.skipped /\ d \in Docs /\ d \in OnDisk
    BY <1>4, <1>7, <1>14 DEF Live
  <2>2. d \notin changed /\ HasNodes(d) /\ HasRows(d)
    BY <1>0, <1>2, <1>3, <1>14, <2>1 DEF Extracting
  <2>3. ASSUME NEW e \in Asserts[Entry(d)] \ joined
        PROVE  <<e, d>> \in table /\ (d \in owners \/ kept[e] \in OnDisk)
    <3>1. <<e, d>> \in rows /\ e \in InGraph /\ e \in Entities
      BY <2>2 DEF HasRows, HasNodes, InGraph
    <3>2. e \notin Removed(changed) /\ <<e, d>> \in table /\ d \in Owners(e, table)
      BY <2>1, <2>2, <3>1, RemovedIs
    <3>3. CASE graph[e] \in changed
      <4>1. e \in impacted
        BY <3>1, <3>2, <3>3
      <4> QED
        BY <2>1, <3>2, <4>1
    <3>4. CASE graph[e] \notin changed
      <4>1. kept[e] = graph[e]
        BY <3>1, <3>2, <3>4
      <4>2. graph[e] \in Tracked
        BY <1>0, <3>1 DEF Attributed
      <4> HIDE DEF kept
      <4> QED
        BY <1>3, <3>2, <3>4, <4>1, <4>2
    <3> QED
      BY <3>3, <3>4
  <2> HIDE DEF table, owners, kept
  <2> QED
    BY <1>2, <1>6, <1>13, <2>3 DEF HasRows
<1>15. \A e \in Entities : kept[e] # NoDoc => kept[e] \in Tracked
  <2> TAKE e \in Entities
  <2>1. graph[e] # NoDoc => graph[e] \in Tracked
    BY <1>0 DEF Attributed, InGraph
  <2>2. Owners(e, table) # {} => First(Owners(e, table)) \in Tracked
    <3> HIDE DEF table
    <3> QED
      BY <1>9, FirstIn
  <2> HIDE DEF lost, impacted, table
  <2> QED
    BY <2>1, <2>2
<1>16. Attributed' /\ GoneStaysGone'
  BY <1>0, <1>2, <1>3, <1>5, <1>6, <1>7 DEF Attributed, GoneStaysGone, Finishing
<1>17. RowsTracked'
  <2>1. \A row \in rows' : row[2] \in Tracked' /\ row[2] \notin run'.missing
    BY <1>2, <1>5, <1>6, <1>8
  <2> QED
    BY <1>5, <2>1 DEF RowsTracked
<1>18. ReadsRecorded'
  <2>1. ASSUME NEW r \in run.fresh
        PROVE  /\ r = Entry(r[1])' /\ stamp'[r[1]] = "no" /\ r[1] \in run.found
               /\ r[1] \notin Missing /\ disk[r[1]] = r[2]
    <3>1. r = Entry(r[1]) /\ stamp[r[1]] = "no" /\ r[1] \in run.found /\ r[1] \in Docs /\ r[2] # Absent
      BY <1>0, ReadIs
    <3>2. disk[r[1]] = r[2]
      BY <1>0, <1>2 DEF ReadsRecorded
    <3> QED
      BY <1>2, <1>3, <1>6, <3>1, <3>2 DEF OnDisk
  <2> QED
    BY <1>2, <1>5, <2>1 DEF ReadsRecorded
<1>19. ToRead'
  <2>1. ASSUME NEW x \in run'.todo
        PROVE  /\ x \in run'.found /\ x \notin run'.missing /\ sha'[x] = run'.digest[x]
               /\ run'.digest[x] # Absent /\ disk'[x] \in {run'.digest[x], Absent}
    <3>1. x \in run.found \intersect OnDisk
      BY <1>13, <2>1
    <3>2. sha[x] = disk[x] /\ disk[x] # Absent /\ x \notin Missing
      BY <1>3, <1>11, <3>1 DEF OnDisk
    <3> HIDE DEF kept, owners
    <3> QED
      BY <1>2, <1>5, <3>1, <3>2
  <2> QED
    BY <2>1 DEF ToRead
<1>20. ReadingAgain'
  <2> HIDE DEF kept, owners
  <2>1. run'.mode \in {"incremental", "rebuilt"}
    BY <1>5
  <2>2. run'.mode = "rebuilt" => Live' \subseteq run'.todo
    BY <1>6, <1>7, <1>12 DEF Live
  <2>3. joined' = joined
    BY <1>2
  <2> QED
    BY <1>5, <1>6, <1>14, <1>15, <2>1, <2>2, <2>3 DEF ReadingAgain
<1>21. StampsHold'
  <2> SUFFICES ASSUME GraphCoversCorpus PROVE \A d \in Live : HasNodes(d)' /\ HasRows(d)'
    BY <1>2, <1>6 DEF StampsHold, GraphCoversCorpus
  <2>1. Read(run.fresh) = {}
    BY <1>0, StampedMeansUnread
  <2>2. \A d \in Live : HasNodes(d)
    BY <1>0 DEF StampsHold
  <2> QED
    BY <1>2, <1>6, <1>14, <2>1, <2>2 DEF HasNodes
<1> QED
  BY <1>5, <1>16, <1>17, <1>18, <1>19, <1>20, <1>21
     DEF CompileInv, Extracting, Publishing, Recording, Finishing

(* The graph a compile publishes has every live document. *)
LEMMA InvPublish == ASSUME CompileInv, TypeOK', Publish PROVE CompileInv'
<1> DEFINE reads == run.fresh \union run.again
<1>0. /\ TypeOK /\ Attributed /\ RowsTracked /\ GoneStaysGone /\ ReadsRecorded
      /\ ReadingAgain /\ Publishing /\ StampsHold /\ run \in RunType
  BY TypeIs DEF CompileInv
<1>1. /\ run' = [run EXCEPT !.pc = "record"] /\ UNCHANGED <<disk, sha, outcome, stamp, rows>>
      /\ run.pc = "publish" \/ (run.pc = "again" /\ run.todo = {})
  BY DEF Publish, manifest
<1>2. /\ run'.pc = "record" /\ run'.mode = run.mode /\ run'.missing = run.missing
      /\ run'.again = run.again /\ run'.fresh = run.fresh /\ run'.found = run.found
  BY <1>0, <1>1 DEF RunType
<1>3. /\ run.kept \in Graphs /\ Standing(run.kept) \in Graphs /\ NoGraph \in Graphs
      /\ run.fresh \in SUBSET Reads /\ run.again \in SUBSET Reads /\ reads \in SUBSET Reads
  BY <1>0 DEF RunType, Standing, NoGraph, Graphs, OnDisk
<1>4. /\ Live' = Live /\ Tracked' = Tracked /\ OnDisk' = OnDisk /\ Live \subseteq Docs
      /\ Live \subseteq Tracked /\ \A d : Entry(d)' = Entry(d)
  BY <1>1 DEF Live, Tracked, OnDisk, Entry
<1>5. \A d \in Read(reads) : d \in Tracked /\ d \in run.found /\ d \notin run.missing
  BY <1>0, ReadIs DEF Read
<1>6. NoDoc \notin Docs /\ OnDisk \subseteq Docs
  BY CompileAssumption DEF CompileAssumption, NoDoc, OnDisk
<1>7. Read(run.fresh) \subseteq Read(reads) /\ Read(run.again) \subseteq Read(reads)
  BY DEF Read
<1>8. \A d \in Read(run.fresh) : Entry(d) \in run.fresh
  BY <1>0, ReadDocs
<1>9. \A d \in Read(run.again) : Entry(d) \in run.again
  BY <1>0, ReadDocs
<1>10. \A d \in Live : Asserts[Entry(d)] \in SUBSET Entities
  BY <1>0, <1>4, EntryIs
<1>11. /\ \A e \in Entities : graph'[e] # NoDoc => graph'[e] = Merged[e]
       /\ \A e \in Entities : Merged[e] # NoDoc => e \in joined' \/ graph'[e] # NoDoc
       /\ run.mode # "full" => joined \subseteq joined'
  BY PublishIs
(* What is merged attributes and holds, by the way it is built.             *)
<1>12. /\ \A e \in Entities : Merged[e] # NoDoc =>
            /\ Merged[e] \in Tracked /\ Merged[e] \notin run.missing
            /\ run.mode = "full" => Merged[e] \in run.found
       /\ \A d \in Live : \A e \in Asserts[Entry(d)] \ joined' : Merged[e] # NoDoc
  <2>1. CASE run.pc = "publish"
    <3>1. Merged = Merge(run.kept, run.fresh) /\ run.missing = {}
      BY <1>0, <2>1 DEF Publishing, Merged
    <3>2. ASSUME NEW e \in Entities, Merged[e] # NoDoc
          PROVE  Merged[e] \in Tracked /\ (run.mode = "full" => Merged[e] \in run.found)
      <4>1. Merged[e] = run.kept[e] \/ Merged[e] \in Read(run.fresh)
        BY <1>3, <3>1, MergeIs
      <4>2. run.kept[e] # NoDoc => run.kept[e] \in Tracked
        BY <1>0, <2>1 DEF Publishing
      <4>3. run.mode = "full" => run.kept[e] = NoDoc
        BY <1>0, <2>1 DEF Publishing, NoGraph
      <4> HIDE DEF reads
      <4> QED
        BY <1>5, <1>7, <3>2, <4>1, <4>2, <4>3
    <3>3. ASSUME NEW d \in Live, NEW e \in Asserts[Entry(d)] \ joined' PROVE Merged[e] # NoDoc
      <4>0. e \in Entities
        BY <1>10
      <4>1. CASE d \in Read(run.fresh)
        BY <1>3, <1>8, <3>1, <4>0, <4>1, MergeIs
      <4>2. CASE d \notin Read(run.fresh)
        <5>0. e \notin joined
          BY <1>0, <1>11, <2>1, <4>2 DEF Publishing
        <5>1. run.kept[e] # NoDoc
          BY <1>0, <2>1, <4>2, <5>0 DEF Publishing
        <5> QED
          BY <1>3, <3>1, <4>0, <5>1, MergeIs
      <4> QED
        BY <4>1, <4>2
    <3> QED
      BY <3>1, <3>2, <3>3
  <2>2. ASSUME run.pc = "again", run.todo = {}, run.mode = "incremental"
      PROVE  /\ \A e \in Entities : Merged[e] # NoDoc =>
                  /\ Merged[e] \in Tracked /\ Merged[e] \notin run.missing
                  /\ run.mode = "full" => Merged[e] \in run.found
             /\ \A d \in Live : \A e \in Asserts[Entry(d)] \ joined' : Merged[e] # NoDoc
    <3>1. Merged = Merge(Standing(run.kept), reads)
      BY <2>2 DEF Merged
    <3>2. \A e \in Entities : Standing(run.kept)[e] =
             IF run.kept[e] \in OnDisk THEN run.kept[e] ELSE NoDoc
      BY DEF Standing
    <3>3. ASSUME NEW e \in Entities, Merged[e] # NoDoc
          PROVE  Merged[e] \in Tracked /\ Merged[e] \notin run.missing
      <4>1. Merged[e] = Standing(run.kept)[e] \/ Merged[e] \in Read(reads)
        BY <1>3, <3>1, MergeIs
      <4>2. CASE Merged[e] = Standing(run.kept)[e]
        <5>1. Merged[e] = run.kept[e] /\ run.kept[e] \in OnDisk
          BY <3>2, <3>3, <4>2
        <5>2. run.kept[e] \in Tracked
          BY <1>0, <2>2, <3>3, <5>1 DEF ReadingAgain
        <5> QED
          BY <1>0, <5>1, <5>2 DEF GoneStaysGone
      <4> HIDE DEF reads
      <4> QED
        BY <1>5, <4>1, <4>2
    <3>4. ASSUME NEW d \in Live, NEW e \in Asserts[Entry(d)] \ joined' PROVE Merged[e] # NoDoc
      <4>0. e \in Entities
        BY <1>10
      <4>1. CASE Entry(d) \in reads
        <5> HIDE DEF reads
        <5> QED
          BY <1>3, <3>1, <4>0, <4>1, MergeIs
      <4>2. CASE Entry(d) \notin reads
        <5>1. d \notin Read(run.fresh) /\ d \notin Read(run.again)
          BY <1>8, <1>9, <4>2
        <5>2. run.kept[e] \in OnDisk
          BY <1>0, <1>11, <2>2, <5>1 DEF ReadingAgain
        <5>3. Standing(run.kept)[e] # NoDoc
          BY <1>6, <3>2, <4>0, <5>2
        <5> HIDE DEF reads
        <5> QED
          BY <1>3, <3>1, <4>0, <5>3, MergeIs
      <4> QED
        BY <4>1, <4>2
    <3> QED
      BY <2>2, <3>3, <3>4
  <2>3. ASSUME run.pc = "again", run.todo = {}, run.mode = "rebuilt"
      PROVE  /\ \A e \in Entities : Merged[e] # NoDoc =>
                  /\ Merged[e] \in Tracked /\ Merged[e] \notin run.missing
                  /\ run.mode = "full" => Merged[e] \in run.found
             /\ \A d \in Live : \A e \in Asserts[Entry(d)] \ joined' : Merged[e] # NoDoc
    <3>1. Merged = Merge(NoGraph, run.again)
      BY <2>3 DEF Merged
    <3>2. ASSUME NEW e \in Entities, Merged[e] # NoDoc
          PROVE  Merged[e] \in Tracked /\ Merged[e] \notin run.missing
      <4>1. Merged[e] \in Read(run.again)
        BY <1>3, <3>1, <3>2, MergeIs DEF NoGraph
      <4> HIDE DEF reads
      <4> QED
        BY <1>5, <1>7, <4>1
    <3>3. ASSUME NEW d \in Live, NEW e \in Asserts[Entry(d)] \ joined' PROVE Merged[e] # NoDoc
      <4>1. d \in Read(run.again)
        BY <1>0, <2>3 DEF ReadingAgain
      <4> QED
        BY <1>3, <1>9, <1>10, <3>1, <4>1, MergeIs
    <3> QED
      BY <2>3, <3>2, <3>3
  <2> QED
    BY <1>0, <1>1, <2>1, <2>2, <2>3 DEF ReadingAgain
<1>13. graph' \in Graphs
  BY DEF TypeOK
<1>14. Attributed'
  <2>0. \A e \in InGraph' : e \in Entities /\ graph'[e] = Merged[e] /\ Merged[e] # NoDoc
    BY <1>11 DEF InGraph
  <2>1. Pruned' = IF run.mode = "full" THEN Docs \ run.found ELSE run.missing
    BY <1>2 DEF Pruned
  <2>2. \A e \in InGraph' : graph'[e] \in Tracked /\ graph'[e] \notin Pruned'
    BY <1>12, <2>0, <2>1
  <2> QED
    BY <1>4, <2>2 DEF Attributed
<1>15. \A d \in Live : HasNodes(d)'
  BY <1>4, <1>10, <1>12, <1>11 DEF HasNodes, InGraph
<1>16. Recording'
  <2>1. ASSUME NEW d \in Live, d \notin Read(run.fresh) PROVE run.mode # "full" /\ HasRows(d)
    BY <1>0, <1>1, <2>1 DEF Publishing, ReadingAgain
  <2>2. run.mode # "full" => \A d \in Live : HasRows(d) => HasRows(d)'
    BY <1>1, <1>4, <1>11 DEF HasRows
  <2> QED
    BY <1>2, <1>4, <1>15, <2>1, <2>2 DEF Recording
<1>17. RowsTracked' /\ GoneStaysGone'
  BY <1>0, <1>1, <1>2, <1>4 DEF RowsTracked, GoneStaysGone
<1>18. ReadsRecorded'
  BY <1>0, <1>1, <1>2, <1>4 DEF ReadsRecorded
<1>19. StampsHold'
  <2> SUFFICES ASSUME GraphCoversCorpus, NEW d \in Live PROVE HasRows(d)'
    BY <1>1, <1>4, <1>15 DEF StampsHold, GraphCoversCorpus
  <2>1. d \notin Read(run.fresh)
    BY <1>0, StampedMeansUnread
  <2>2. run.mode # "full" /\ HasRows(d)
    BY <1>0, <1>1, <2>1 DEF Publishing, ReadingAgain
  <2> QED
    BY <1>1, <1>4, <1>11, <2>2 DEF HasRows
<1> QED
  BY <1>2, <1>14, <1>16, <1>17, <1>18, <1>19
     DEF CompileInv, ToRead, Extracting, ReadingAgain, Publishing

LEMMA InvRecord == ASSUME CompileInv, TypeOK', Record PROVE CompileInv'
<1>0. /\ TypeOK /\ Attributed /\ RowsTracked /\ GoneStaysGone /\ ReadsRecorded /\ Recording
      /\ StampsHold /\ run \in RunType
  BY TypeIs DEF CompileInv
<1>1. /\ run.pc = "record" /\ run' = [run EXCEPT !.pc = "stamp"]
      /\ rows' = {row \in RowsOf(run.fresh) \union (IF run.mode = "full" THEN {} ELSE rows) :
                     graph[row[1]] # NoDoc}
      /\ UNCHANGED <<disk, sha, outcome, stamp, graph, joined>>
  BY DEF Record, manifest
<1>2. /\ run'.pc = "stamp" /\ run'.mode = run.mode /\ run'.missing = run.missing
      /\ run'.again = run.again /\ run'.fresh = run.fresh /\ run'.found = run.found
      /\ run.fresh \in SUBSET Reads
  BY <1>0, <1>1 DEF RunType
<1>3. /\ Live' = Live /\ Tracked' = Tracked /\ OnDisk' = OnDisk /\ InGraph' = InGraph
      /\ Live \subseteq Docs /\ Live \subseteq Tracked /\ \A d : Entry(d)' = Entry(d)
  BY <1>1 DEF Live, Tracked, OnDisk, InGraph, Entry
<1>4. \A row \in RowsOf(run.fresh) :
         row[2] \in Tracked /\ row[2] \in run.found /\ row[2] \notin run.missing
  <2> TAKE row \in RowsOf(run.fresh)
  <2>1. PICK r \in run.fresh : row[2] = r[1]
    BY DEF RowsOf, Authors
  <2> QED
    BY <1>0, <2>1, ReadIs
<1>5. RowsTracked'
  <2>1. \A row \in rows' : row[2] \in Tracked /\ row[2] \notin run.missing
                         /\ (run.mode = "full" => row[2] \in run.found)
    BY <1>0, <1>1, <1>4 DEF RowsTracked
  <2>2. Pruned' = IF run.mode = "full" THEN Docs \ run.found ELSE run.missing
    BY <1>2 DEF Pruned
  <2> QED
    BY <1>2, <1>3, <2>1, <2>2 DEF RowsTracked
<1>6. ASSUME NEW d \in Live PROVE HasNodes(d) /\ HasRows(d)'
  <2>1. HasNodes(d) /\ Asserts[Entry(d)] \in SUBSET Entities
    BY <1>0, <1>1, <1>3, EntryIs DEF Recording, Finishing
  <2>2. ASSUME NEW e \in Asserts[Entry(d)] \ joined PROVE <<e, d>> \in rows'
    <3>1. e \in Entities /\ graph[e] # NoDoc /\ d \in Docs
      BY <1>3, <2>1 DEF HasNodes, InGraph
    <3>2. CASE d \in Read(run.fresh)
      <4>1. Entry(d) \in run.fresh /\ Entry(d)[1] = d
        BY <1>0, <1>3, <3>2, ReadDocs, EntryIs
      <4>2. d \in Authors(e, run.fresh)
        BY <1>2, <4>1, AuthorsAre
      <4>3. <<e, d>> \in RowsOf(run.fresh)
        BY <3>1, <4>2 DEF RowsOf
      <4> QED
        BY <1>1, <3>1, <4>3
    <3>3. CASE d \notin Read(run.fresh)
      <4>1. run.mode # "full" /\ <<e, d>> \in rows
        BY <1>0, <1>1, <3>3 DEF Recording, Finishing, HasRows
      <4> QED
        BY <1>1, <3>1, <4>1
    <3> QED
      BY <3>2, <3>3
  <2> QED
    BY <1>1, <1>3, <2>1, <2>2 DEF HasRows
<1>7. Recording' /\ StampsHold'
  BY <1>1, <1>2, <1>3, <1>6 DEF Recording, StampsHold, HasNodes
<1>8. Attributed' /\ GoneStaysGone'
  <2>1. Pruned' = Pruned
    BY <1>2 DEF Pruned
  <2> QED
    BY <1>0, <1>1, <1>2, <1>3, <2>1 DEF Attributed, GoneStaysGone, Finishing
<1>9. ReadsRecorded'
  BY <1>0, <1>1, <1>2, <1>3 DEF ReadsRecorded
<1> QED
  BY <1>2, <1>5, <1>7, <1>8, <1>9 DEF CompileInv, ToRead, Extracting, ReadingAgain, Publishing

(* The stamp pass prunes no document that a node or a row names.            *)
LEMMA InvStamp == ASSUME CompileInv, TypeOK', Stamp PROVE CompileInv'
<1>0. TypeOK /\ Attributed /\ RowsTracked /\ Recording
  BY DEF CompileInv
<1>1. /\ run.pc = "stamp" /\ run' = Idle /\ UNCHANGED <<disk, graph, rows, joined>>
      /\ sha' = [d \in Docs |-> IF d \in Pruned THEN Absent ELSE sha[d]]
      /\ outcome' = [d \in Docs |-> IF d \in Pruned THEN "typed" ELSE outcome[d]]
  BY DEF Stamp
<1>2. run'.pc = "idle" /\ run'.fresh = {} /\ run'.again = {} /\ run'.missing = {}
  BY <1>1 DEF Idle
<1>3. /\ Tracked' = Tracked \ Pruned /\ Live' = Live \ Pruned /\ InGraph' = InGraph
      /\ \A d \in Docs \ Pruned : Entry(d)' = Entry(d)
  BY <1>0, <1>1 DEF Tracked, Live, OnDisk, InGraph, Entry, TypeOK
<1>4. Attributed'
  BY <1>0, <1>1, <1>2, <1>3 DEF Attributed, Finishing
<1>5. RowsTracked'
  BY <1>0, <1>1, <1>2, <1>3 DEF RowsTracked
<1>6. StampsHold'
  <2>1. \A d \in Live : HasNodes(d) /\ HasRows(d)
    BY <1>0, <1>1 DEF Recording, Finishing
  <2>2. \A d \in Live' : d \in Live /\ d \in Docs \ Pruned
    BY <1>3 DEF Live, OnDisk
  <2> QED
    BY <1>1, <1>3, <2>1, <2>2 DEF StampsHold, HasNodes, HasRows
<1> QED
  BY <1>2, <1>4, <1>5, <1>6
     DEF CompileInv, GoneStaysGone, ReadsRecorded, ToRead, Extracting, ReadingAgain, Publishing,
         Recording, Finishing

(* A save changes nothing a compile has read, and brings no tracked document *)
(* back; a deletion leaves fewer documents to answer for.                    *)
LEMMA InvSave ==
  ASSUME Undisturbed, CompileInv, TypeOK', NEW d \in Docs, NEW v \in Held, Save(d, v)
  PROVE  CompileInv'
<1>0. /\ TypeOK /\ Attributed /\ RowsTracked /\ GoneStaysGone /\ ReadsRecorded /\ ToRead
      /\ Extracting /\ ReadingAgain /\ Publishing /\ Recording /\ StampsHold
  BY DEF CompileInv
<1>1. /\ disk' = [disk EXCEPT ![d] = v] /\ UNCHANGED <<sha, outcome, stamp, graph, rows, joined, run>>
      /\ run.pc \in {"extract", "again"} /\ v # disk[d] => v = Absent /\ d \in Unread
      /\ ~ (disk[d] = Absent /\ sha[d] # Absent)
  BY DEF Save, Undisturbed, manifest
<1>2. disk'[d] = v /\ \A x \in Docs : x # d => disk'[x] = disk[x]
  BY <1>0, <1>1 DEF TypeOK
<1>3. /\ Tracked' = Tracked /\ InGraph' = InGraph /\ \A x : Entry(x)' = Entry(x)
      /\ Live' \subseteq Live /\ Tracked \intersect OnDisk' \subseteq OnDisk
  <2>1. \A x \in Tracked : x \in OnDisk' => x \in OnDisk
    BY <1>1, <1>2 DEF Tracked, OnDisk
  <2> QED
    BY <1>1, <2>1 DEF Tracked, InGraph, Entry, Live
<1>4. \A x : HasNodes(x)' = HasNodes(x) /\ HasRows(x)' = HasRows(x)
  BY <1>1, <1>3 DEF HasNodes, HasRows
<1>5. Attributed' /\ RowsTracked'
  BY <1>0, <1>1, <1>3 DEF Attributed, RowsTracked, Finishing, Pruned
<1>6. GoneStaysGone'
  BY <1>0, <1>1, <1>3 DEF GoneStaysGone
<1>7. ReadsRecorded'
  <2>1. ASSUME NEW r \in run.fresh \union run.again, run.pc \in {"extract", "again"}
        PROVE  disk'[r[1]] = r[2] \/ (disk'[r[1]] = Absent /\ r[1] \in run.todo)
    <3>1. r[1] \in Docs /\ (disk[r[1]] = r[2] \/ (disk[r[1]] = Absent /\ r[1] \in run.todo))
      BY <1>0, <2>1, ReadIs DEF ReadsRecorded
    <3>2. r[1] \in Unread => r[1] \in run.todo
      <4>1. ASSUME run.pc = "extract" PROVE r[1] \notin run.skipped
        <5>1. r[1] \in Read(run.fresh)
          BY <1>0, <4>1 DEF Extracting, Read
        <5> QED
          BY <1>0, <4>1, <5>1 DEF Extracting
      <4> QED
        BY <4>1 DEF Unread
    <3> QED
      BY <1>1, <1>2, <2>1, <3>1, <3>2
  <2> QED
    BY <1>0, <1>1, <1>3, <2>1 DEF ReadsRecorded
<1>8. ToRead'
  <2>1. \A x \in run.todo : x \in Docs
    BY <1>0, TypeIs DEF RunType
  <2> QED
    BY <1>0, <1>1, <1>2, <2>1 DEF ToRead
<1>9. Extracting'
  <2>1. \A x \in run.skipped : x \in Docs
    BY <1>0, TypeIs DEF RunType
  <2> QED
    BY <1>0, <1>1, <1>2, <1>4, <2>1 DEF Extracting
<1>10. ReadingAgain'
  <2> SUFFICES ASSUME run.pc = "again" PROVE ReadingAgain'
    BY <1>1 DEF ReadingAgain
  <2>1. OnDisk \union run.todo \subseteq OnDisk' \union run.todo
    BY <1>1, <1>2 DEF OnDisk, Unread
  <2> QED
    BY <1>0, <1>1, <1>3, <1>4, <2>1 DEF ReadingAgain
<1>11. Publishing' /\ Recording' /\ StampsHold'
  BY <1>0, <1>1, <1>3, <1>4 DEF Publishing, Recording, Finishing, StampsHold, GraphCoversCorpus
<1> QED
  BY <1>5, <1>6, <1>7, <1>8, <1>9, <1>10, <1>11 DEF CompileInv

LEMMA InvNext == ASSUME Undisturbed, CompileInv, [Next]_vars PROVE CompileInv'
<1>0. TypeOK'
  BY TypeNext DEF CompileInv
<1>1. CASE \E c \in Calls : Start(c)
  BY <1>0, <1>1, InvStart
<1>2. CASE \E d \in Docs : Extract(d)
  BY <1>0, <1>2, InvExtract
<1>3. CASE \E d \in Docs : ExtractFails(d)
  BY <1>0, <1>3, InvEnds DEF ExtractFails, manifest
<1>4. CASE Rebuild
  BY <1>0, <1>4, InvRebuild
<1>5. CASE RetryMarked
  BY <1>0, <1>5, InvRetry
<1>6. CASE Rebind
  BY <1>0, <1>6, InvRebind
<1>7. CASE Tombstone
  BY <1>0, <1>7, InvTombstone
<1>8. CASE Publish
  BY <1>0, <1>8, InvPublish
<1>9. CASE Record
  BY <1>0, <1>9, InvRecord
<1>10. CASE Stamp
  BY <1>0, <1>10, InvStamp
<1>11. CASE ReuseEnds
  BY <1>0, <1>11, InvEnds DEF ReuseEnds, manifest
<1>12. CASE Kill
  BY <1>0, <1>12, InvEnds DEF Kill, manifest
<1>13. CASE \E d \in Docs, v \in Held : Save(d, v)
  BY <1>0, <1>13, InvSave
<1>14. CASE UNCHANGED vars
  <2>1. UNCHANGED <<disk, sha, outcome, stamp, graph, rows, joined, run>>
    BY <1>14 DEF vars, manifest
  <2>2. /\ Tracked' = Tracked /\ OnDisk' = OnDisk /\ InGraph' = InGraph /\ Pruned' = Pruned
        /\ Live' = Live /\ \A d : Entry(d)' = Entry(d)
    BY <2>1 DEF Tracked, OnDisk, InGraph, Pruned, Live, Entry
  <2>3. \A d : HasNodes(d)' = HasNodes(d) /\ HasRows(d)' = HasRows(d)
    BY <2>1, <2>2 DEF HasNodes, HasRows
  <2> QED
    BY <1>0, <2>1, <2>2, <2>3
       DEF CompileInv, Attributed, RowsTracked, GoneStaysGone, ReadsRecorded, ToRead, Extracting,
           ReadingAgain, Publishing, Recording, Finishing, StampsHold, GraphCoversCorpus
<1> QED
  BY <1>1, <1>2, <1>3, <1>4, <1>5, <1>6, <1>7, <1>8, <1>9, <1>10, <1>11, <1>12, <1>13, <1>14 DEF Next

LEMMA InvIsWhole == CompileInv => CompleteIsWhole
<1> SUFFICES ASSUME CompileInv, GraphCoversCorpus, NEW d \in OnDisk, sha[d] = disk[d]
             PROVE  Asserts[Entry(d)] \subseteq InGraph \union joined
  BY DEF CompleteIsWhole
<1>1. d \in Live
  BY DEF Live, Tracked, OnDisk
<1> QED
  BY <1>1 DEF CompileInv, StampsHold, HasNodes

(* However many documents, calls, kills and edits between the compiles: when  *)
(* every entry is stamped, the graph holds all an unchanged document asserts, *)
(* but for entities that resolution joined since the last full compile.       *)
THEOREM NothingLostBehindItsStamp == ASSUME Undisturbed PROVE Spec => []CompleteIsWhole
<1>1. CompileInv /\ [Next]_vars => CompileInv'
  BY InvNext
<1> QED
  BY <1>1, InvInit, InvIsWhole, PTL DEF Spec

-----------------------------------------------------------------------------
(* A compile of documents that stand still leaves what a full one would. *)

AssertedBy(e, docs) == \E d \in docs : e \in Asserts[Entry(d)]
Right(row)          == row[1] \in Asserts[Entry(row[2])]
Staying             == Tracked \ Pruned
Computed            == run.pc \in {"again", "publish", "record", "stamp"}

\* A stamped document asserts what its rows say.
RowsBelieved == \A row \in rows : stamp[row[2]] = "yes" => Right(row)

\* In a stamped graph every node is asserted.
NodesAsserted == GraphCoversCorpus => \A e \in InGraph : AssertedBy(e, Tracked)

\* The differ and the retry start from a sidecar that knows every node.
StartedExact ==
  run.pc = "extract" =>
    /\ \A row \in rows : row[2] \in run.skipped => Right(row)
    /\ run.mode # "full" => \A e \in InGraph : Owners(e, rows) # {}
    /\ run.mode = "retry" => Tracked \subseteq run.found

\* From then on every row that stays is right ...
RowsRight ==
  Computed /\ (run.mode # "full" \/ run.pc = "stamp") => \A row \in rows : Right(row)

\* ... and so is every node.
NodesRight ==
  /\ run.pc \in {"again", "publish"} =>
       \A e \in Entities : run.kept[e] # NoDoc => AssertedBy(e, Staying)
  /\ Finishing => \A e \in InGraph : AssertedBy(e, Staying)

\* While no document changes, the manifest catches up with the disk.
CatchesUp ==
  clean = "running" =>
    /\ run.pc # "idle" /\ run.found = OnDisk
    /\ Computed => Staying \subseteq OnDisk /\ \A d \in OnDisk : sha[d] = disk[d]

ReusePrunesNothing == run.mode = "noop" => run.missing = {}

ExactInv ==
  /\ ReusePrunesNothing /\ RowsBelieved /\ NodesAsserted /\ StartedExact /\ RowsRight /\ NodesRight /\ CatchesUp
  /\ Parity /\ RowsExact

LEMMA RowsOfIs ==
  ASSUME NEW reads, NEW row \in Entities \X Docs
  PROVE  row \in RowsOf(reads) <=> \E r \in reads : row[1] \in Asserts[r] /\ r[1] = row[2]
BY DEF RowsOf, Authors

LEMMA MergedFrom ==
  ASSUME NEW base, NEW reads, NEW e \in Entities, Merge(base, reads)[e] # NoDoc, base[e] = NoDoc
  PROVE  \E r \in reads : e \in Asserts[r]
<1>1. e \in Said(reads)
  BY DEF Merge
<1> QED
  BY <1>1 DEF Said, Authors

(* A node that a delete leaves is still asserted by one of its other owners. *)
LEMMA OwnerStays ==
  ASSUME NEW docs, NEW e \in Entities, e \notin Removed(docs), Owners(e, rows) # {}
  PROVE  \E d \in Docs : <<e, d>> \in rows /\ <<e, d>> \in Without(docs) /\ d \notin docs
<1>1. PICK d \in Owners(e, rows) : d \notin docs
  BY DEF Removed
<1>2. <<e, d>> \in rows /\ d \in Docs /\ <<e, d>>[2] = d
  BY DEF Owners
<1> QED
  BY <1>1, <1>2 DEF Without

LEMMA ExactInit == Init => ExactInv
<1> SUFFICES ASSUME Init PROVE ExactInv
  OBVIOUS
<1>1. run.pc = "idle" /\ run.mode = "full" /\ rows = {} /\ InGraph = {} /\ clean = "no"
  BY DEF Init, Idle, InGraph, NoGraph
<1> QED
  BY <1>1 DEF ExactInv, ReusePrunesNothing, RowsBelieved, NodesAsserted, StartedExact, RowsRight,
              Computed, NodesRight, Finishing, CatchesUp, Parity, RowsExact, Settled

LEMMA ExactEnds ==
  ASSUME ExactInv, run' = Idle, clean' = "no", UNCHANGED <<disk, sha, outcome, stamp, graph, rows, joined>>
  PROVE  ExactInv'
<1>1. run'.pc = "idle" /\ run'.mode = "full"
  BY DEF Idle
<1>2. RowsBelieved'
  BY DEF ExactInv, RowsBelieved, Right, Entry
<1>3. NodesAsserted'
  BY DEF ExactInv, NodesAsserted, AssertedBy, Entry, GraphCoversCorpus, InGraph, Tracked
<1> QED
  BY <1>1, <1>2, <1>3
     DEF ExactInv, ReusePrunesNothing, StartedExact, RowsRight, Computed, NodesRight, Finishing,
         CatchesUp, Parity, RowsExact, Settled

LEMMA ModeNeeds ==
  ASSUME NEW c \in Calls
  PROVE  /\ ModeOf(c) \in {"full", "incremental", "retry", "noop"}
         /\ ModeOf(c) \in {"incremental", "retry"} => SidecarReady
         /\ ModeOf(c) \in {"retry", "noop"} => CorpusUnchanged
         /\ ModeOf(c) # "full" => OnDisk = {} \/ GraphCoversCorpus
         /\ ModeOf(c) = "noop" => GraphCoversCorpus
BY DEF ModeOf, Reusable, Differs

LEMMA ExactStart ==
  ASSUME Undisturbed, CompileInv, CompileInv', ExactInv, NEW c \in Calls, Start(c)
  PROVE  ExactInv'
<1> DEFINE mode == ModeOf(c)
<1>0. /\ TypeOK /\ RowsTracked /\ Extracting' /\ Publishing'
      /\ RowsBelieved /\ NodesAsserted
  BY DEF CompileInv, ExactInv
<1>1. /\ run'.pc = IF mode = "noop" THEN "publish" ELSE "extract"
      /\ run'.mode = mode /\ run'.found = OnDisk /\ run'.skipped \subseteq OnDisk
      /\ run'.kept = (IF mode = "noop" THEN graph ELSE NoGraph) /\ run'.missing = {}
  BY DEF Start, Idle
<1>2. UNCHANGED <<disk, sha, outcome, stamp, graph, rows, joined>> /\ clean' = "running"
  BY DEF Start, manifest
<1>3. /\ Tracked' = Tracked /\ OnDisk' = OnDisk /\ InGraph' = InGraph /\ \A d : Entry(d)' = Entry(d)
      /\ \A row : Right(row)' = Right(row)
  BY <1>2 DEF Tracked, OnDisk, InGraph, Entry, Right
<1>4. GraphCoversCorpus => \A row \in rows : Right(row)
  BY <1>0 DEF RowsTracked, RowsBelieved, GraphCoversCorpus
<1>5. mode \in {"full", "incremental", "retry", "noop"}
  BY ModeNeeds
<1>6. mode \in {"retry", "noop"} => Tracked = OnDisk /\ \A d \in OnDisk : sha[d] = disk[d]
  BY ModeNeeds DEF CorpusUnchanged, Tracked, OnDisk
<1>7. mode \in {"incremental", "retry"} => \A e \in InGraph : Owners(e, rows) # {}
  BY ModeNeeds DEF SidecarReady
<1>8. mode = "noop" => GraphCoversCorpus
  BY ModeNeeds
<1>9. mode # "full" => OnDisk = {} \/ GraphCoversCorpus
  BY ModeNeeds
<1> HIDE DEF mode
<1>10. RowsBelieved' /\ NodesAsserted'
  BY <1>0, <1>2, <1>3 DEF RowsBelieved, NodesAsserted, AssertedBy, GraphCoversCorpus
<1>11. StartedExact'
  <2> SUFFICES ASSUME run'.pc = "extract" PROVE StartedExact'
    BY DEF StartedExact
  <2>1. mode # "noop"
    BY <1>1
  <2>2. ASSUME NEW row \in rows, row[2] \in run'.skipped PROVE Right(row)
    <3>1. run'.mode # "full" /\ OnDisk # {}
      BY <1>0, <1>1, <2>2 DEF Extracting
    <3> QED
      BY <1>1, <1>4, <1>9, <3>1
  <2>3. mode # "full" => \A e \in InGraph : Owners(e, rows) # {}
    BY <1>5, <1>7, <2>1
  <2> QED
    BY <1>1, <1>2, <1>3, <1>6, <2>2, <2>3 DEF StartedExact, Owners
<1>12. RowsRight'
  BY <1>1, <1>2, <1>3, <1>4, <1>5, <1>8 DEF RowsRight, Computed
<1>13. NodesRight'
  <2>1. run'.pc \notin {"again", "record", "stamp"}
    BY <1>1
  <2>2. ASSUME run'.pc = "publish", NEW e \in Entities, run'.kept[e] # NoDoc
        PROVE  AssertedBy(e, Tracked)
    <3>1. mode = "noop"
      BY <1>1, <2>2
    <3>2. e \in InGraph
      BY <1>1, <2>2, <3>1 DEF InGraph
    <3> QED
      BY <1>0, <1>8, <3>1, <3>2 DEF NodesAsserted
  <2>3. ASSUME run'.pc = "publish" PROVE Staying' = Tracked
    <3>1. run'.mode = "noop" /\ run'.missing = {}
      BY <1>1, <2>3
    <3> QED
      BY <1>3, <3>1 DEF Staying, Pruned
  <2> QED
    BY <1>3, <2>1, <2>2, <2>3 DEF NodesRight, Finishing, AssertedBy
<1>14. CatchesUp'
  <2>1. ASSUME Computed' PROVE mode = "noop"
    BY <1>1, <2>1 DEF Computed
  <2> QED
    BY <1>1, <1>2, <1>3, <1>6, <2>1 DEF CatchesUp, Staying
<1> QED
  BY <1>1, <1>10, <1>11, <1>12, <1>13, <1>14
     DEF ExactInv, ReusePrunesNothing, Parity, RowsExact, Settled

LEMMA ExactExtract ==
  ASSUME Undisturbed, CompileInv, ExactInv, NEW d \in Docs, Extract(d)
  PROVE  ExactInv'
<1>0. /\ TypeOK /\ RowsTracked /\ Extracting /\ ReusePrunesNothing /\ RowsBelieved /\ StartedExact
      /\ RowsRight /\ NodesRight /\ CatchesUp /\ rows \subseteq Entities \X Docs
  BY DEF CompileInv, ExactInv, TypeOK
<1>1. PICK o \in Outcomes :
        /\ run.pc \in {"extract", "again"} /\ run'.pc = run.pc /\ run'.mode = run.mode
        /\ run'.todo = run.todo \ {d} /\ d \in run.todo /\ d \in run.found
        /\ run'.fresh = IF run.pc = "extract" THEN run.fresh \union {<<d, disk[d], o>>} ELSE run.fresh
        /\ run'.again = IF run.pc = "extract" THEN run.again ELSE run.again \union {<<d, disk[d], o>>}
        /\ run'.found = run.found /\ run'.skipped = run.skipped /\ run'.missing = run.missing
        /\ run'.kept = run.kept /\ run'.digest = run.digest
        /\ d \notin run.missing
        /\ disk[d] # Absent /\ run.digest[d] = disk[d]
        /\ sha' = [sha EXCEPT ![d] = disk[d]] /\ outcome' = [outcome EXCEPT ![d] = o]
        /\ stamp' = [stamp EXCEPT ![d] = "no"]
        /\ UNCHANGED <<disk, graph, rows, joined>>
  BY ExtractIs
<1>2. clean' = clean
  BY DEF Extract
<1>3. /\ sha'[d] = disk[d] /\ stamp'[d] = "no"
      /\ \A x \in Docs : x # d => /\ sha'[x] = sha[x] /\ outcome'[x] = outcome[x]
                                  /\ stamp'[x] = stamp[x] /\ Entry(x)' = Entry(x)
  BY <1>0, <1>1 DEF TypeOK, Entry
<1>4. Tracked' = Tracked \union {d} /\ OnDisk' = OnDisk /\ InGraph' = InGraph
  BY <1>1, <1>3 DEF Tracked, OnDisk, InGraph
<1>5. RowsBelieved'
  BY <1>0, <1>1, <1>3 DEF RowsBelieved, Right
<1>6. NodesAsserted'
  BY <1>3, <1>4 DEF NodesAsserted, GraphCoversCorpus
<1>7. CASE run.pc = "extract"
  <2>1. d \notin run.skipped
    BY <1>0, <1>1, <1>7 DEF Extracting
  <2>2. StartedExact'
    BY <1>0, <1>1, <1>3, <1>4, <1>7, <2>1 DEF StartedExact, Right, Owners
  <2> QED
    BY <1>0, <1>1, <1>2, <1>4, <1>5, <1>6, <1>7, <2>2
       DEF ExactInv, ReusePrunesNothing, RowsRight, Computed, NodesRight, Finishing, CatchesUp,
           Parity, RowsExact, Settled
<1>8. CASE run.pc = "again"
  <2>1. UNCHANGED <<sha, outcome>>
    BY <1>8, AgainIsTheSame
  <2>2. /\ Tracked' = Tracked /\ Pruned' = Pruned /\ Staying' = Staying
        /\ \A x : Entry(x)' = Entry(x) /\ \A row : Right(row)' = Right(row)
    BY <1>1, <2>1 DEF Tracked, Pruned, Staying, Entry, Right
  <2>3. RowsRight' /\ CatchesUp'
    BY <1>0, <1>1, <1>2, <1>4, <1>8, <2>1, <2>2 DEF RowsRight, Computed, CatchesUp
  <2>4. NodesRight'
    BY <1>0, <1>1, <1>8, <2>2 DEF NodesRight, Finishing, AssertedBy
  <2> QED
    BY <1>0, <1>1, <1>5, <1>6, <1>8, <2>3, <2>4
       DEF ExactInv, ReusePrunesNothing, StartedExact, Parity, RowsExact, Settled
<1> QED
  BY <1>1, <1>7, <1>8

LEMMA ExactRebuild ==
  ASSUME CompileInv, CompileInv', ExactInv, Rebuild
  PROVE  ExactInv'
<1>0. Extracting /\ RowsBelieved /\ NodesAsserted /\ CatchesUp /\ Publishing' /\ run \in RunType
  BY TypeIs DEF CompileInv, ExactInv
<1>1. /\ run' = [run EXCEPT !.pc = "publish"] /\ run.pc = "extract" /\ run.todo = {}
      /\ run.mode = "full" /\ UNCHANGED <<disk, sha, outcome, stamp, graph, rows, joined, clean>>
  BY DEF Rebuild, Extracted, manifest
<1>2. run'.pc = "publish" /\ run'.mode = "full" /\ run'.found = run.found
  BY <1>0, <1>1 DEF RunType
<1>3. OnDisk' = OnDisk /\ Staying' \subseteq run.found
  BY <1>1, <1>2 DEF OnDisk, Staying, Tracked, Pruned
<1>4. \A d \in run.found \intersect OnDisk : sha[d] = disk[d]
  BY <1>1, CaughtUp
<1>5. CatchesUp'
  BY <1>0, <1>1, <1>2, <1>3, <1>4 DEF CatchesUp
<1>6. NodesRight'
  BY <1>0, <1>2 DEF NodesRight, Publishing, Finishing, NoGraph
<1>7. RowsBelieved' /\ NodesAsserted'
  BY <1>0, <1>1 DEF RowsBelieved, Right, Entry, NodesAsserted, AssertedBy, GraphCoversCorpus, InGraph,
                    Tracked
<1> QED
  BY <1>2, <1>5, <1>6, <1>7
     DEF ExactInv, ReusePrunesNothing, StartedExact, RowsRight, Computed, Parity, RowsExact, Settled

LEMMA ExactRebind ==
  ASSUME Undisturbed, CompileInv, ExactInv, Rebind
  PROVE  ExactInv'
<1>0. /\ TypeOK /\ Attributed /\ RowsTracked /\ GoneStaysGone /\ Extracting /\ RowsBelieved
      /\ NodesAsserted /\ StartedExact /\ CatchesUp /\ run \in RunType
  BY TypeIs DEF CompileInv, ExactInv
<1>1. /\ run' = [run EXCEPT !.pc = "publish", !.mode = "rebind", !.kept = graph]
      /\ run.pc = "extract" /\ run.todo = {} /\ run.fresh = {} /\ Missing = {}
      /\ run.mode = "incremental" /\ UNCHANGED <<disk, sha, outcome, stamp, graph, rows, joined, clean>>
  BY DEF Rebind, Extracted, manifest, NothingToDo
<1>2. /\ run'.pc = "publish" /\ run'.mode = "rebind" /\ run'.found = run.found /\ run'.kept = graph
      /\ run'.missing = {}
  BY <1>0, <1>1 DEF RunType, Extracting
<1>3. Tracked \subseteq OnDisk
  <2>1. run.call.named = "no"
    BY <1>0 DEF RunType, Undisturbed
  <2> QED
    BY <1>1, <2>1 DEF Missing
<1>4. Tracked \subseteq run.skipped
  <2>1. Read(run.fresh) = {}
    BY <1>1 DEF Read
  <2> QED
    BY <1>0, <1>1, <1>3, <2>1 DEF Extracting, GoneStaysGone, Live
<1>5. \A row \in rows : Right(row)
  BY <1>0, <1>1, <1>4 DEF RowsTracked, StartedExact
<1>6. /\ Tracked' = Tracked /\ OnDisk' = OnDisk /\ InGraph' = InGraph /\ \A d : Entry(d)' = Entry(d)
      /\ \A row : Right(row)' = Right(row) /\ Staying' = Tracked
  BY <1>1, <1>2 DEF Tracked, OnDisk, InGraph, Entry, Right, Staying, Pruned
<1>7. ASSUME NEW e \in InGraph PROVE AssertedBy(e, Tracked)
  <2>1. PICK d \in Owners(e, rows) : TRUE
    BY <1>0, <1>1 DEF StartedExact
  <2>2. <<e, d>> \in rows
    BY DEF Owners
  <2>3. Right(<<e, d>>) /\ d \in Tracked
    BY <1>0, <1>5, <2>2 DEF RowsTracked
  <2> QED
    BY <2>3 DEF Right, AssertedBy
<1>8. NodesRight'
  BY <1>2, <1>6, <1>7 DEF NodesRight, Finishing, InGraph, AssertedBy
<1>9. CatchesUp'
  <2>1. \A d \in run.found \intersect OnDisk : sha[d] = disk[d]
    BY <1>1, CaughtUp
  <2> QED
    BY <1>0, <1>1, <1>2, <1>3, <1>6, <2>1 DEF CatchesUp
<1>10. RowsRight' /\ RowsBelieved' /\ NodesAsserted'
  BY <1>0, <1>1, <1>5, <1>6
     DEF RowsRight, RowsBelieved, NodesAsserted, AssertedBy, GraphCoversCorpus
<1> QED
  BY <1>2, <1>8, <1>9, <1>10
     DEF ExactInv, ReusePrunesNothing, StartedExact, Parity, RowsExact, Settled

(* The retry reads the marked documents and skipped the rest, which still    *)
(* owns every node it keeps.                                                 *)
LEMMA ExactRetry ==
  ASSUME CompileInv, ExactInv, RetryMarked
  PROVE  ExactInv'
<1> DEFINE docs == Read(run.fresh)
           g    == [e \in Entities |-> IF e \in Removed(docs) THEN NoDoc ELSE graph[e]]
<1>0. /\ TypeOK /\ RowsTracked /\ Extracting /\ RowsBelieved /\ NodesAsserted /\ StartedExact
      /\ CatchesUp /\ run \in RunType
  BY TypeIs DEF CompileInv, ExactInv
<1>1. /\ run' = [run EXCEPT !.pc = "publish", !.kept = g]
      /\ run.pc = "extract" /\ run.todo = {} /\ run.mode = "retry"
      /\ rows' = Without(docs) /\ UNCHANGED <<disk, sha, outcome, stamp, graph, joined, clean>>
  BY DEF RetryMarked, Extracted, manifest
<1>2. /\ run'.pc = "publish" /\ run'.mode = "retry" /\ run'.found = run.found /\ run'.kept = g
      /\ run'.missing = {}
  <2> HIDE DEF g
  <2> QED
    BY <1>0, <1>1 DEF RunType, Extracting
<1>3. /\ Tracked' = Tracked /\ OnDisk' = OnDisk /\ InGraph' = InGraph /\ \A d : Entry(d)' = Entry(d)
      /\ \A row : Right(row)' = Right(row) /\ Staying' = Tracked
  BY <1>1, <1>2 DEF Tracked, OnDisk, InGraph, Entry, Right, Staying, Pruned
<1>4. Tracked \subseteq run.found /\ run.found = docs \union run.skipped
  BY <1>0, <1>1 DEF StartedExact, Extracting
<1>5. \A row \in rows' : row \in rows /\ Right(row) /\ row[2] \in Tracked
  BY <1>0, <1>1, <1>4 DEF Without, RowsTracked, StartedExact
<1>6. ASSUME NEW e \in Entities, g[e] # NoDoc PROVE AssertedBy(e, Tracked)
  <2>1. e \in InGraph /\ e \notin Removed(docs)
    BY <1>6 DEF InGraph
  <2>2. Owners(e, rows) # {}
    BY <1>0, <1>1, <2>1 DEF StartedExact
  <2>3. PICK d \in Docs : <<e, d>> \in Without(docs)
    BY <2>1, <2>2, OwnerStays
  <2>4. Right(<<e, d>>) /\ d \in Tracked
    BY <1>1, <1>5, <2>3
  <2> QED
    BY <2>4 DEF Right, AssertedBy
<1> HIDE DEF g
<1>7. NodesRight'
  BY <1>2, <1>3, <1>6 DEF NodesRight, Finishing, AssertedBy
<1>8. CatchesUp'
  <2>1. \A d \in run.found \intersect OnDisk : sha[d] = disk[d]
    BY <1>1, CaughtUp
  <2> QED
    BY <1>0, <1>1, <1>2, <1>3, <1>4, <2>1 DEF CatchesUp
<1>9. RowsRight' /\ RowsBelieved' /\ NodesAsserted'
  BY <1>0, <1>1, <1>3, <1>5
     DEF RowsRight, RowsBelieved, NodesAsserted, AssertedBy, GraphCoversCorpus
<1> QED
  BY <1>2, <1>7, <1>8, <1>9
     DEF ExactInv, ReusePrunesNothing, StartedExact, Parity, RowsExact, Settled

(* The differ keeps what an unchanged document asserts, and no more.         *)
LEMMA ExactTombstone ==
  ASSUME Undisturbed, CompileInv, ExactInv, Tombstone
  PROVE  ExactInv'
<1> PICK gone : TombstoneBut(gone)
  BY DEF Tombstone
<1> DEFINE changed  == Read(run.fresh) \union Missing
           table    == Without(changed)
           impacted == {e \in InGraph \ Removed(changed) : graph[e] \in changed}
           owners   == (UNION {Owners(e, table) : e \in impacted}) \intersect OnDisk
           covered  == {e \in impacted : Owners(e, table) \intersect owners # {}}
           lost     == Removed(changed) \union covered \union (impacted \ (Said(run.fresh) \ gone))
           kept     == [e \in Entities |->
                          IF e \in lost THEN NoDoc
                          ELSE IF e \in impacted /\ Owners(e, table) # {} THEN First(Owners(e, table))
                          ELSE graph[e]]
<1>0. /\ TypeOK /\ RowsTracked /\ GoneStaysGone /\ Extracting /\ RowsBelieved /\ NodesAsserted
      /\ StartedExact /\ CatchesUp /\ run \in RunType
  BY TypeIs DEF CompileInv, ExactInv
<1>1. run.call.named = "no"
  BY <1>0 DEF RunType, Undisturbed
<1>2. /\ rows' = table /\ run.pc = "extract" /\ run.todo = {} /\ run.mode = "incremental"
      /\ run' = [run EXCEPT
           !.pc = "again", !.mode = IF Beyond(owners) THEN "rebuilt" ELSE @, !.digest = disk,
           !.todo = ReadAgain(owners), !.kept = kept, !.missing = Missing, !.dropped = changed]
      /\ UNCHANGED <<disk, sha, outcome, stamp, graph, joined, clean>>
  <2>1. run.call.named # "yes"
    BY <1>1
  <2> QED
    BY <2>1 DEF TombstoneBut, Extracted, manifest
<1>3. Missing = Tracked \ OnDisk
  BY <1>1 DEF Missing
<1>4. /\ run'.pc = "again" /\ run'.mode \in {"rebuilt", "incremental"} /\ run'.kept = kept
      /\ run'.missing = Missing /\ run'.found = run.found
  <2> HIDE DEF kept, owners
  <2> QED
    BY <1>0, <1>2 DEF RunType
<1>5. /\ Tracked' = Tracked /\ OnDisk' = OnDisk /\ InGraph' = InGraph /\ \A d : Entry(d)' = Entry(d)
      /\ \A row : Right(row)' = Right(row) /\ Staying' = Tracked \intersect OnDisk
  BY <1>2, <1>3, <1>4 DEF Tracked, OnDisk, InGraph, Entry, Right, Staying, Pruned
<1>6. ASSUME NEW row \in table
      PROVE  row \in rows /\ Right(row) /\ row[2] \in Tracked \intersect OnDisk
  <2>1. row \in rows /\ row[2] \notin changed
    BY DEF Without
  <2>2. row[2] \in Tracked
    BY <1>0, <2>1 DEF RowsTracked
  <2>3. row[2] \in OnDisk /\ row[2] \notin Read(run.fresh)
    BY <1>3, <2>1, <2>2
  <2>4. row[2] \in run.found
    BY <1>0, <1>2, <2>2, <2>3 DEF GoneStaysGone, Live
  <2>5. row[2] \in run.skipped
    BY <1>0, <1>2, <2>3, <2>4 DEF Extracting
  <2> QED
    BY <1>0, <1>2, <2>1, <2>2, <2>3, <2>5 DEF StartedExact
<1>7. ASSUME NEW e \in Entities, kept[e] # NoDoc PROVE AssertedBy(e, Tracked \intersect OnDisk)
  <2>1. e \notin lost
    BY <1>7
  <2>2. e \notin Removed(changed) /\ e \in InGraph
    BY <1>7, <2>1 DEF InGraph
  <2>3. Owners(e, rows) # {}
    BY <1>0, <1>2, <2>2 DEF StartedExact
  <2>4. PICK d \in Docs : <<e, d>> \in table
    <3> HIDE DEF changed
    <3> QED
      BY <2>2, <2>3, OwnerStays
  <2>5. Right(<<e, d>>) /\ d \in Tracked \intersect OnDisk
    BY <1>6, <2>4
  <2> QED
    BY <2>5 DEF Right, AssertedBy
<1> HIDE DEF table, owners, kept
<1>8. NodesRight'
  BY <1>4, <1>5, <1>7 DEF NodesRight, Finishing, AssertedBy
<1>9. CatchesUp'
  <2>1. \A d \in run.found \intersect OnDisk : sha[d] = disk[d]
    BY <1>2, CaughtUp
  <2> QED
    BY <1>0, <1>2, <1>4, <1>5, <2>1 DEF CatchesUp
<1>10. RowsRight' /\ RowsBelieved' /\ NodesAsserted'
  BY <1>0, <1>2, <1>5, <1>6
     DEF RowsRight, RowsBelieved, NodesAsserted, AssertedBy, GraphCoversCorpus
<1> QED
  BY <1>4, <1>8, <1>9, <1>10
     DEF ExactInv, ReusePrunesNothing, StartedExact, Parity, RowsExact, Settled

(* A node of the published graph was kept, or said by a read.               *)
LEMMA ExactPublish ==
  ASSUME CompileInv, ExactInv, Publish
  PROVE  ExactInv'
<1>0. /\ TypeOK /\ ReadsRecorded /\ ReusePrunesNothing /\ RowsBelieved /\ RowsRight /\ NodesRight
      /\ CatchesUp /\ ReadingAgain /\ Publishing /\ run \in RunType
  BY TypeIs DEF CompileInv, ExactInv
<1>1. /\ run' = [run EXCEPT !.pc = "record"] /\ UNCHANGED <<disk, sha, outcome, stamp, rows, clean>>
      /\ run.pc \in {"publish", "again"}
  BY DEF Publish, manifest
<1>2. /\ run'.pc = "record" /\ run'.mode = run.mode /\ run'.missing = run.missing
      /\ run'.found = run.found
  BY <1>0, <1>1 DEF RunType
<1>3. /\ Tracked' = Tracked /\ OnDisk' = OnDisk /\ \A d : Entry(d)' = Entry(d)
      /\ \A row : Right(row)' = Right(row) /\ Pruned' = Pruned /\ Staying' = Staying
  BY <1>1, <1>2 DEF Tracked, OnDisk, Entry, Right, Staying, Pruned
<1>4. ASSUME NEW e \in Entities, NEW r \in run.fresh \union run.again, e \in Asserts[r]
      PROVE  AssertedBy(e, Staying)
  <2>1. r = Entry(r[1]) /\ r[1] \in Tracked /\ r[1] \in run.found /\ r[1] \notin run.missing
    BY <1>0, ReadIs
  <2>2. r[1] \in Staying
    BY <2>1 DEF Staying, Pruned
  <2> QED
    BY <1>4, <2>1, <2>2 DEF AssertedBy
<1>5. \A e \in Entities : run.kept[e] # NoDoc => AssertedBy(e, Staying)
  BY <1>0, <1>1 DEF NodesRight
<1>6. ASSUME NEW e \in Entities, Merged[e] # NoDoc PROVE AssertedBy(e, Staying)
  <2>1. CASE run.mode = "incremental"
    <3>1. Merged = Merge(Standing(run.kept), run.fresh \union run.again)
      BY <2>1 DEF Merged
    <3>2. Standing(run.kept)[e] # NoDoc => run.kept[e] # NoDoc
      BY DEF Standing
    <3>3. CASE Standing(run.kept)[e] = NoDoc
      BY <1>4, <1>6, <3>1, <3>3, MergedFrom
    <3> QED
      BY <1>5, <3>2, <3>3
  <2>2. CASE run.mode = "rebuilt"
    <3>1. Merged = Merge(NoGraph, run.again) /\ NoGraph[e] = NoDoc
      BY <2>2 DEF NoGraph, Merged
    <3> QED
      BY <1>4, <1>6, <3>1, MergedFrom
  <2>3. CASE run.mode \notin {"incremental", "rebuilt"}
    <3>1. Merged = Merge(run.kept, run.fresh)
      BY <2>3 DEF Merged
    <3>2. CASE run.kept[e] = NoDoc
      BY <1>4, <1>6, <3>1, <3>2, MergedFrom
    <3> QED
      BY <1>5, <3>2
  <2> QED
    BY <2>1, <2>2, <2>3
<1>7. ASSUME NEW e \in InGraph' PROVE AssertedBy(e, Staying)
  <2>1. e \in Entities /\ Merged[e] # NoDoc
    BY PublishIs DEF InGraph
  <2> QED
    BY <1>6, <2>1
<1>8. NodesRight'
  BY <1>2, <1>3, <1>7 DEF NodesRight, AssertedBy
<1>9. NodesAsserted'
  BY <1>3, <1>7 DEF NodesAsserted, AssertedBy, Staying
<1>10. RowsRight'
  BY <1>0, <1>1, <1>2, <1>3 DEF RowsRight, Computed
<1>11. CatchesUp'
  BY <1>0, <1>1, <1>2, <1>3 DEF CatchesUp, Computed
<1>12. RowsBelieved'
  BY <1>0, <1>1, <1>3 DEF RowsBelieved
<1> QED
  BY <1>0, <1>2, <1>8, <1>9, <1>10, <1>11, <1>12
     DEF ExactInv, ReusePrunesNothing, StartedExact, Parity, RowsExact, Settled

LEMMA ExactRecord ==
  ASSUME CompileInv, ExactInv, Record
  PROVE  ExactInv'
<1>0. /\ TypeOK /\ ReadsRecorded /\ ReusePrunesNothing /\ RowsRight /\ NodesRight /\ CatchesUp
      /\ NodesAsserted /\ run \in RunType
  BY TypeIs DEF CompileInv, ExactInv
<1>1. /\ run.pc = "record" /\ run' = [run EXCEPT !.pc = "stamp"]
      /\ rows' = {row \in RowsOf(run.fresh) \union (IF run.mode = "full" THEN {} ELSE rows) :
                     graph[row[1]] # NoDoc}
      /\ UNCHANGED <<disk, sha, outcome, stamp, graph, joined, clean>>
  BY DEF Record, manifest
<1>2. /\ run'.pc = "stamp" /\ run'.mode = run.mode /\ run'.missing = run.missing
      /\ run'.found = run.found
  BY <1>0, <1>1 DEF RunType
<1>3. /\ Tracked' = Tracked /\ OnDisk' = OnDisk /\ InGraph' = InGraph /\ \A d : Entry(d)' = Entry(d)
      /\ \A row : Right(row)' = Right(row) /\ Pruned' = Pruned /\ Staying' = Staying
  BY <1>1, <1>2 DEF Tracked, OnDisk, InGraph, Entry, Right, Staying, Pruned
<1>4. ASSUME NEW row \in RowsOf(run.fresh) PROVE Right(row)
  <2>1. row \in Entities \X Docs
    BY DEF RowsOf
  <2>2. PICK r \in run.fresh : row[1] \in Asserts[r] /\ r[1] = row[2]
    BY <2>1, RowsOfIs
  <2>3. r = Entry(r[1])
    BY <1>0, ReadIs
  <2> QED
    BY <2>2, <2>3 DEF Right
<1>5. \A row \in rows' : Right(row)
  BY <1>0, <1>1, <1>4 DEF RowsRight, Computed
<1>6. RowsRight' /\ RowsBelieved'
  BY <1>3, <1>5 DEF RowsRight, RowsBelieved
<1>7. NodesRight' /\ NodesAsserted'
  BY <1>0, <1>1, <1>2, <1>3
     DEF NodesRight, NodesAsserted, Finishing, AssertedBy, GraphCoversCorpus
<1>8. CatchesUp'
  BY <1>0, <1>1, <1>2, <1>3 DEF CatchesUp, Computed
<1> QED
  BY <1>0, <1>2, <1>6, <1>7, <1>8
     DEF ExactInv, ReusePrunesNothing, StartedExact, Parity, RowsExact, Settled

(* At the end of a compile during which nothing changed, the documents on    *)
(* disk are those of the manifest that stay, and graph and rows are theirs.  *)
LEMMA EndIsExact ==
  ASSUME CompileInv, ExactInv, run.pc = "stamp", clean = "running"
  PROVE  /\ OnDisk = Staying /\ OnDisk \intersect Pruned = {} /\ \A d \in OnDisk : sha[d] = disk[d]
         /\ \A d \in Docs \ OnDisk : d \in Pruned \/ sha[d] = Absent
         /\ InGraph \subseteq UNION {Asserts[Entry(d)] : d \in OnDisk}
         /\ UNION {Asserts[Entry(d)] : d \in OnDisk} \subseteq InGraph \union joined
         /\ rows \subseteq RowsOf({Entry(d) : d \in OnDisk})
         /\ \A row \in RowsOf({Entry(d) : d \in OnDisk}) : row[1] \notin joined => row \in rows
<1>0. /\ TypeOK /\ Recording /\ RowsTracked /\ GoneStaysGone /\ RowsRight /\ NodesRight /\ CatchesUp
      /\ rows \subseteq Entities \X Docs
  BY DEF CompileInv, ExactInv, TypeOK
<1>1. Staying \subseteq OnDisk /\ run.found = OnDisk /\ \A d \in OnDisk : sha[d] = disk[d]
  BY <1>0 DEF CatchesUp, Computed
<1>2. OnDisk \subseteq Tracked /\ Live = OnDisk
  BY <1>1 DEF OnDisk, Tracked, Live
<1>3. OnDisk \intersect Pruned = {}
  BY <1>0, <1>1 DEF Pruned, GoneStaysGone
<1>4. OnDisk = Staying
  BY <1>1, <1>2, <1>3 DEF Staying
<1>5. \A d \in Docs \ OnDisk : d \in Pruned \/ sha[d] = Absent
  BY <1>4 DEF Staying, Tracked
<1>6. \A d \in OnDisk : HasNodes(d) /\ HasRows(d)
  BY <1>0, <1>2 DEF Recording, Finishing
<1>7. /\ InGraph \subseteq UNION {Asserts[Entry(d)] : d \in OnDisk}
      /\ UNION {Asserts[Entry(d)] : d \in OnDisk} \subseteq InGraph \union joined
  <2>1. ASSUME NEW e \in InGraph PROVE \E d \in OnDisk : e \in Asserts[Entry(d)]
    BY <1>0, <1>4 DEF NodesRight, Finishing, AssertedBy
  <2>2. ASSUME NEW d \in OnDisk, NEW e \in Asserts[Entry(d)] PROVE e \in InGraph \union joined
    BY <1>6 DEF HasNodes
  <2> QED
    BY <2>1, <2>2
<1>8. ASSUME NEW row \in Entities \X Docs
      PROVE  /\ row \in rows => row \in RowsOf({Entry(d) : d \in OnDisk})
             /\ row \in RowsOf({Entry(d) : d \in OnDisk}) /\ row[1] \notin joined => row \in rows
  <2>1. row \in RowsOf({Entry(d) : d \in OnDisk}) <=>
          \E r \in {Entry(d) : d \in OnDisk} : row[1] \in Asserts[r] /\ r[1] = row[2]
    BY RowsOfIs
  <2>2. \A d : Entry(d)[1] = d
    BY DEF Entry
  <2>3. row = <<row[1], row[2]>>
    OBVIOUS
  <2>4. ASSUME row \in rows PROVE row[2] \in OnDisk /\ row[1] \in Asserts[Entry(row[2])]
    <3>1. row[2] \in Staying
      BY <1>0, <2>4 DEF RowsTracked, Staying
    <3> QED
      BY <1>0, <1>4, <2>4, <3>1 DEF RowsRight, Computed, Right
  <2>5. ASSUME NEW d \in OnDisk, row[1] \in Asserts[Entry(d)] \ joined, d = row[2]
        PROVE  row \in rows
    BY <1>6, <2>3, <2>5 DEF HasRows
  <2> QED
    BY <2>1, <2>2, <2>4, <2>5
<1>9. RowsOf({Entry(d) : d \in OnDisk}) \subseteq Entities \X Docs
  BY DEF RowsOf
<1> QED
  BY <1>0, <1>1, <1>3, <1>4, <1>5, <1>7, <1>8, <1>9

LEMMA ExactStamp ==
  ASSUME CompileInv, ExactInv, Stamp
  PROVE  ExactInv'
<1>0. TypeOK /\ RowsTracked /\ RowsRight /\ NodesRight /\ rows \subseteq Entities \X Docs
  BY DEF CompileInv, ExactInv, TypeOK
<1>1. /\ run.pc = "stamp" /\ run' = Idle /\ UNCHANGED <<disk, graph, rows, joined>>
      /\ sha' = [d \in Docs |-> IF d \in Pruned THEN Absent ELSE sha[d]]
      /\ outcome' = [d \in Docs |-> IF d \in Pruned THEN "typed" ELSE outcome[d]]
      /\ clean' \in {"yes", "no"} /\ (clean' = "yes" => clean = "running")
  BY DEF Stamp
<1>2. run'.pc = "idle" /\ run'.mode = "full"
  BY <1>1 DEF Idle
<1>3. /\ Tracked' = Staying /\ InGraph' = InGraph /\ OnDisk' = OnDisk
      /\ \A d \in Docs \ Pruned : Entry(d)' = Entry(d)
  BY <1>0, <1>1 DEF Tracked, Staying, InGraph, OnDisk, Entry
<1>4. RowsBelieved'
  <2>1. \A row \in rows : row[2] \in Docs \ Pruned /\ Right(row)
    BY <1>0, <1>1 DEF RowsTracked, RowsRight, Computed
  <2> QED
    BY <1>1, <1>3, <2>1 DEF RowsBelieved, Right
<1>5. NodesAsserted'
  <2>1. \A e \in InGraph : AssertedBy(e, Staying)
    BY <1>0, <1>1 DEF NodesRight, Finishing
  <2>2. \A d \in Staying : d \in Docs \ Pruned
    BY DEF Staying, Tracked
  <2> QED
    BY <1>3, <2>1, <2>2 DEF NodesAsserted, AssertedBy
<1>6. ASSUME clean' = "yes" PROVE Parity' /\ RowsExact'
  <2>1. /\ OnDisk \intersect Pruned = {} /\ \A d \in OnDisk : sha[d] = disk[d]
        /\ \A d \in Docs \ OnDisk : d \in Pruned \/ sha[d] = Absent
        /\ InGraph \subseteq UNION {Asserts[Entry(d)] : d \in OnDisk}
        /\ UNION {Asserts[Entry(d)] : d \in OnDisk} \subseteq InGraph \union joined
        /\ rows \subseteq RowsOf({Entry(d) : d \in OnDisk})
        /\ \A row \in RowsOf({Entry(d) : d \in OnDisk}) : row[1] \notin joined => row \in rows
    BY <1>1, <1>6, EndIsExact
  <2>2. sha' = disk
    <3>1. \A d \in Docs : sha'[d] = disk[d]
      BY <1>1, <2>1 DEF OnDisk
    <3> QED
      BY <1>0, <1>1, <3>1 DEF TypeOK
  <2>3. \A d \in OnDisk : Entry(d)' = Entry(d)
    BY <1>3, <2>1 DEF OnDisk
  <2>4. /\ {Asserts[Entry(d)'] : d \in OnDisk} = {Asserts[Entry(d)] : d \in OnDisk}
        /\ {Entry(d)' : d \in OnDisk} = {Entry(d) : d \in OnDisk}
    BY <2>3
  <2>5. /\ InGraph' \subseteq UNION {Asserts[Entry(d)'] : d \in OnDisk'}
        /\ UNION {Asserts[Entry(d)'] : d \in OnDisk'} \subseteq InGraph' \union joined'
    BY <1>1, <1>3, <2>1, <2>4
  <2>6. /\ rows' \subseteq RowsOf({Entry(d)' : d \in OnDisk'})
        /\ \A row \in RowsOf({Entry(d)' : d \in OnDisk'}) : row[1] \notin joined' => row \in rows'
    BY <1>1, <1>3, <2>1, <2>4
  <2> QED
    BY <1>1, <2>2, <2>5, <2>6 DEF Parity, RowsExact, CorpusUnchanged
<1>7. clean' # "yes" => Parity' /\ RowsExact'
  BY DEF Parity, RowsExact, Settled
<1> QED
  BY <1>1, <1>2, <1>4, <1>5, <1>6, <1>7
     DEF ExactInv, ReusePrunesNothing, StartedExact, RowsRight, Computed, NodesRight, Finishing,
         CatchesUp

LEMMA ExactReuseEnds ==
  ASSUME CompileInv, ExactInv, ReuseEnds
  PROVE  ExactInv'
<1>0. TypeOK /\ RowsBelieved /\ NodesAsserted /\ ReusePrunesNothing
  BY DEF CompileInv, ExactInv
<1>1. /\ run.pc = "stamp" /\ run.mode = "noop" /\ run' = Idle
      /\ UNCHANGED <<disk, sha, outcome, stamp, graph, rows, joined>>
      /\ clean' \in {"yes", "no"} /\ (clean' = "yes" => clean = "running")
  BY DEF ReuseEnds, manifest
<1>2. run'.pc = "idle" /\ run'.mode = "full"
  BY <1>1 DEF Idle
<1>3. /\ Tracked' = Tracked /\ InGraph' = InGraph /\ OnDisk' = OnDisk /\ \A d : Entry(d)' = Entry(d)
      /\ \A row : Right(row)' = Right(row)
  BY <1>1 DEF Tracked, InGraph, OnDisk, Entry, Right
<1>4. RowsBelieved' /\ NodesAsserted'
  BY <1>0, <1>1, <1>3 DEF RowsBelieved, NodesAsserted, AssertedBy, GraphCoversCorpus
<1>5. ASSUME clean' = "yes" PROVE Parity' /\ RowsExact'
  <2>1. Pruned = {}
    BY <1>0, <1>1 DEF Pruned, ReusePrunesNothing
  <2>2. /\ \A d \in OnDisk : sha[d] = disk[d]
        /\ \A d \in Docs \ OnDisk : sha[d] = Absent
        /\ InGraph \subseteq UNION {Asserts[Entry(d)] : d \in OnDisk}
        /\ UNION {Asserts[Entry(d)] : d \in OnDisk} \subseteq InGraph \union joined
        /\ rows \subseteq RowsOf({Entry(d) : d \in OnDisk})
        /\ \A row \in RowsOf({Entry(d) : d \in OnDisk}) : row[1] \notin joined => row \in rows
    BY <1>1, <1>5, <2>1, EndIsExact
  <2>3. sha = disk
    <3>1. \A d \in Docs : sha[d] = disk[d]
      BY <2>2 DEF OnDisk
    <3> QED
      BY <1>0, <3>1 DEF TypeOK
  <2>4. /\ {Asserts[Entry(d)'] : d \in OnDisk} = {Asserts[Entry(d)] : d \in OnDisk}
        /\ {Entry(d)' : d \in OnDisk} = {Entry(d) : d \in OnDisk}
    BY <1>3
  <2> QED
    BY <1>1, <1>3, <2>2, <2>3, <2>4 DEF Parity, RowsExact, CorpusUnchanged
<1>6. clean' # "yes" => Parity' /\ RowsExact'
  BY DEF Parity, RowsExact, Settled
<1> QED
  BY <1>1, <1>2, <1>4, <1>5, <1>6
     DEF ExactInv, ReusePrunesNothing, StartedExact, RowsRight, Computed, NodesRight, Finishing,
         CatchesUp

(* A save that changes a document ends the claim to be settled.              *)
LEMMA ExactSave ==
  ASSUME Undisturbed, ExactInv, NEW d \in Docs, NEW v \in Held, Save(d, v)
  PROVE  ExactInv'
<1>0. /\ ReusePrunesNothing /\ RowsBelieved /\ NodesAsserted /\ StartedExact /\ RowsRight
      /\ NodesRight
  BY DEF ExactInv
<1>1. clean' = "no" /\ UNCHANGED <<sha, outcome, stamp, graph, rows, joined, run>>
  <2>1. ~ Watched
    BY DEF Watched, Undisturbed
  <2> QED
    BY <2>1 DEF Save, manifest
<1>2. /\ Tracked' = Tracked /\ InGraph' = InGraph /\ Staying' = Staying /\ \A x : Entry(x)' = Entry(x)
      /\ \A row : Right(row)' = Right(row)
  BY <1>1 DEF Tracked, InGraph, Staying, Pruned, Entry, Right
<1>3. RowsBelieved' /\ NodesAsserted' /\ RowsRight' /\ NodesRight'
  BY <1>0, <1>1, <1>2
     DEF RowsBelieved, NodesAsserted, RowsRight, Computed, NodesRight, Finishing, AssertedBy,
         GraphCoversCorpus
<1>4. StartedExact'
  BY <1>0, <1>1, <1>2 DEF StartedExact, Owners
<1> QED
  BY <1>0, <1>1, <1>3, <1>4 DEF ExactInv, ReusePrunesNothing, CatchesUp, Parity, RowsExact, Settled

LEMMA ExactNext == ASSUME Undisturbed, CompileInv, ExactInv, [Next]_vars PROVE ExactInv'
<1>0. CompileInv'
  BY InvNext
<1>1. CASE \E c \in Calls : Start(c)
  BY <1>0, <1>1, ExactStart
<1>2. CASE \E d \in Docs : Extract(d)
  BY <1>2, ExactExtract
<1>3. CASE \E d \in Docs : ExtractFails(d)
  BY <1>3, ExactEnds DEF ExtractFails, manifest
<1>4. CASE Rebuild
  BY <1>0, <1>4, ExactRebuild
<1>5. CASE RetryMarked
  BY <1>5, ExactRetry
<1>6. CASE Rebind
  BY <1>6, ExactRebind
<1>7. CASE Tombstone
  BY <1>7, ExactTombstone
<1>8. CASE Publish
  BY <1>8, ExactPublish
<1>9. CASE Record
  BY <1>9, ExactRecord
<1>10. CASE Stamp
  BY <1>10, ExactStamp
<1>11. CASE ReuseEnds
  BY <1>11, ExactReuseEnds
<1>12. CASE Kill
  BY <1>12, ExactEnds DEF Kill, manifest
<1>13. CASE \E d \in Docs, v \in Held : Save(d, v)
  BY <1>13, ExactSave
<1>14. CASE UNCHANGED vars
  <2>1. UNCHANGED <<disk, sha, outcome, stamp, graph, rows, joined, run, clean>>
    BY <1>14 DEF vars, manifest
  <2>2. /\ Tracked' = Tracked /\ OnDisk' = OnDisk /\ InGraph' = InGraph /\ Staying' = Staying
        /\ \A d : Entry(d)' = Entry(d) /\ \A row : Right(row)' = Right(row)
    BY <2>1 DEF Tracked, OnDisk, InGraph, Staying, Pruned, Entry, Right
  <2>3. ReusePrunesNothing' /\ RowsBelieved' /\ NodesAsserted' /\ RowsRight' /\ NodesRight'
    BY <2>1, <2>2
       DEF ExactInv, ReusePrunesNothing, RowsBelieved, NodesAsserted, RowsRight, Computed, NodesRight,
           Finishing, AssertedBy, GraphCoversCorpus
  <2>4. StartedExact' /\ CatchesUp'
    BY <2>1, <2>2 DEF ExactInv, StartedExact, Owners, CatchesUp, Computed
  <2>5. Parity' /\ RowsExact'
    BY <2>1 DEF ExactInv, Parity, RowsExact, Settled, CorpusUnchanged, InGraph, OnDisk, Entry
  <2> QED
    BY <2>3, <2>4, <2>5 DEF ExactInv
<1> QED
  BY <1>1, <1>2, <1>3, <1>4, <1>5, <1>6, <1>7, <1>8, <1>9, <1>10, <1>11, <1>12, <1>13, <1>14 DEF Next

(* Whatever mix of full, incremental, retried, rebuilt and reused compiles, *)
(* killed or not, led here: a whole compile of documents that stand still   *)
(* leaves nothing that nobody asserts, and all that is asserted but for the *)
(* entities that resolution joined since the last full compile.             *)
THEOREM IncrementalIsFull == ASSUME Undisturbed PROVE Spec => []Parity
<1>1. CompileInv /\ [Next]_vars => CompileInv'
  BY InvNext
<1>2. CompileInv /\ ExactInv /\ [Next]_vars => ExactInv'
  BY ExactNext
<1>3. ExactInv => Parity
  BY DEF ExactInv
<1> QED
  BY <1>1, <1>2, <1>3, InvInit, ExactInit, PTL DEF Spec

(* ... and the provenance rows of exactly the documents that assert each node, *)
(* of one that was joined perhaps not all.                                     *)
THEOREM SidecarIsExact == ASSUME Undisturbed PROVE Spec => []RowsExact
<1>1. CompileInv /\ [Next]_vars => CompileInv'
  BY InvNext
<1>2. CompileInv /\ ExactInv /\ [Next]_vars => ExactInv'
  BY ExactNext
<1>3. ExactInv => RowsExact
  BY DEF ExactInv
<1> QED
  BY <1>1, <1>2, <1>3, InvInit, ExactInit, PTL DEF Spec
=============================================================================
