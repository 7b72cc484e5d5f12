-------------------------- MODULE IncrementalCompile --------------------------
(***************************************************************************)
(* One project's compiles (ProjectWiki._ingest of project.py, the batch    *)
(* runner of batch.py and the provenance tables of graph_stores/sqlite.py) *)
(* while its documents are edited and deleted and the process is killed.   *)
(* What is stored: the manifest, written per document as each is extracted *)
(* and stamped "graphed" at the end; graph.json, published once; and the   *)
(* provenance rows, one per entity and document that asserts it.  An       *)
(* entity stands for a node, and of its payload only the document it is    *)
(* attributed to (source_path) is kept; an edge has rows of its own and    *)
(* shares the fate of its ends, so the edges are left out.                 *)
(*                                                                         *)
(* Entity resolution (entity_resolution.py) joins entities that several    *)
(* documents name alike, in the full, the retried and the reused graph but *)
(* not in the differ's.  Which it joins depends on names, degrees and an   *)
(* embedder that may fail: any set of entities may go, each for one of its *)
(* Kin that stays.  What a document says of an entity that was joined has  *)
(* no row, so nothing brings it back but a full compile; `joined' remembers*)
(* those entities, and the properties are about the others.                *)
(***************************************************************************)
EXTENDS Naturals, FiniteSets

CONSTANTS Docs,      \* the documents, numbered in path order
          Contents,  \* what a document may say
          Absent,    \* no such file, or no manifest entry
          Entities,  \* the nodes of the graph
          Asserts,   \* the entities an extraction yields, of <<document, content, outcome>>
          Kin,       \* for each entity, those that resolution may take it for
          Calls,     \* the ways compile is called
          Writes,    \* bound: how many times a document is saved or deleted
          Kills,     \* bound: how many compiles are killed
          Hazards    \* "during" documents may change while a compile reads them,
                     \* "restore" a deleted document may return before its entry is pruned,
                     \* "reread" a document read again unchanged may fare otherwise

Outcomes == {"typed", "fallback"}
Reads    == Docs \X Contents \X Outcomes
NoDoc    == 0
YesNo    == {"yes", "no"}
Call     == [changed_only: YesNo, incremental: YesNo, retry: YesNo, named: YesNo,
             limit: Nat, cap: Nat]

ASSUME CompileAssumption ==
  /\ Docs \subseteq Nat \ {0} /\ IsFiniteSet(Docs)
  /\ Absent \notin Contents
  /\ Asserts \in [Reads -> SUBSET Entities]
  /\ Kin \in [Entities -> SUBSET Entities]
  /\ Calls \subseteq Call /\ Calls # {}
  /\ Writes \in Nat /\ Kills \in Nat

VARIABLES
  disk,    \* what each document holds
  noticed, \* the documents the engine's watcher reported since its last compile
  sha,     \* manifest: the content recorded of each document
  outcome, \* manifest: whether its extraction fell back to the deterministic one
  stamp,   \* manifest: whether it is stamped "graphed"
  graph,   \* graph.json: the document each entity is attributed to, or NoDoc
  rows,    \* the provenance sidecar: <<entity, document>>
  joined,  \* the entities resolution dropped from the graph of the last full
           \* compile or of one since (history)
  run,     \* the compile in progress, in memory
  clean,   \* "yes" after a whole compile during and since which no document
           \* changed, "running" while that is still possible (history)
  writes, kills

vars == <<disk, noticed, sha, outcome, stamp, graph, rows, joined, run, clean, writes, kills>>
manifest == <<sha, outcome, stamp>>

NoGraph == [e \in Entities |-> NoDoc]
Graphs  == [Entities -> Docs \union {NoDoc}]
Held    == Contents \union {Absent}
AnyCall == CHOOSE c \in Calls : TRUE

Idle == [pc |-> "idle", mode |-> "full", call |-> AnyCall, paths |-> {}, found |-> {},
         skipped |-> {}, todo |-> {}, digest |-> [d \in Docs |-> Absent], fresh |-> {},
         again |-> {}, kept |-> NoGraph, missing |-> {}, dropped |-> {}]

TypeOK ==
  /\ disk \in [Docs -> Held] /\ noticed \subseteq Docs
  /\ sha \in [Docs -> Held] /\ outcome \in [Docs -> Outcomes] /\ stamp \in [Docs -> YesNo]
  /\ graph \in Graphs /\ rows \subseteq Entities \X Docs /\ joined \subseteq Entities
  /\ run \in [pc: {"idle", "extract", "again", "publish", "record", "stamp"},
              mode: {"full", "incremental", "rebind", "rebuilt", "retry", "noop"},
              call: Calls, paths: SUBSET Docs, found: SUBSET Docs, skipped: SUBSET Docs,
              todo: SUBSET Docs, digest: [Docs -> Held], fresh: SUBSET Reads,
              again: SUBSET Reads, kept: Graphs, missing: SUBSET Docs, dropped: SUBSET Docs]
  /\ clean \in {"yes", "running", "no"}
  /\ writes \in 0..Writes /\ kills \in 0..Kills

Init ==
  /\ disk \in [Docs -> Held] /\ noticed = {}
  /\ sha = [d \in Docs |-> Absent]
  /\ outcome = [d \in Docs |-> "typed"] /\ stamp = [d \in Docs |-> "no"]
  /\ graph = NoGraph /\ rows = {} /\ joined = {}
  /\ run = Idle /\ clean = "no" /\ writes = 0 /\ kills = 0

-----------------------------------------------------------------------------
OnDisk    == {d \in Docs : disk[d] # Absent}
Tracked   == {d \in Docs : sha[d] # Absent}
InGraph   == {e \in Entities : graph[e] # NoDoc}
Owners(e, table) == {d \in Docs : <<e, d>> \in table}
First(S)  == CHOOSE d \in S : \A x \in S : d <= x
Authors(e, reads) == {r[1] : r \in {s \in reads : e \in Asserts[s]}}
Said(reads) == {e \in Entities : Authors(e, reads) # {}}
RowsOf(reads) == {row \in Entities \X Docs : row[2] \in Authors(row[1], reads)}
Read(reads) == {r[1] : r \in reads}

\* merge_graphs: what base holds stays, then the first document in path order wins.
Merge(base, reads) ==
  [e \in Entities |-> IF base[e] # NoDoc \/ e \notin Said(reads) THEN base[e]
                      ELSE First(Authors(e, reads))]

\* What resolve_entities may drop of a graph, each for one that it keeps.
Joins(g) ==
  {gone \in SUBSET {e \in Entities : g[e] # NoDoc} :
     \A e \in gone : \E w \in Kin[e] \ gone : g[w] # NoDoc}

SidecarReady      == InGraph # {} /\ \A e \in InGraph : Owners(e, rows) # {}
GraphCoversCorpus == \A d \in Tracked : stamp[d] = "yes"
CorpusUnchanged   == sha = disk

\* The reuse the call asks for, and the demotions that refuse it.
Differs(c)  == c.changed_only = "yes" /\ c.incremental = "yes" /\ SidecarReady
Reusable(c) == /\ c.changed_only = "yes" /\ ~Differs(c) /\ OnDisk # {}
               /\ CorpusUnchanged /\ GraphCoversCorpus
Pending(c)  == c.retry = "yes" /\ \E d \in OnDisk : sha[d] # Absent /\ outcome[d] = "fallback"

ModeOf(c) ==
  CASE Differs(c) /\ (OnDisk # {} => GraphCoversCorpus) -> "incremental"
    [] Reusable(c) /\ ~Pending(c) -> "noop"
    [] Reusable(c) /\ Pending(c) /\ SidecarReady -> "retry"
    [] OTHER -> "full"

\* BatchIngestRunner's work-list: in path order, cut at the limit.
Wanted(c, mode) ==
  {d \in OnDisk : \/ mode = "full" \/ sha[d] # disk[d]
                  \/ c.retry = "yes" /\ outcome[d] = "fallback"}
Before(d, S) == Cardinality({w \in S : w < d})
Within(limit, S) == {d \in S : Before(d, S) < limit}

Start(c) ==
  LET mode == ModeOf(c)
      want == IF mode = "noop" THEN {} ELSE Wanted(c, mode) IN
  /\ run.pc = "idle"
  /\ c.named = "yes" => noticed # {}
  /\ run' = [Idle EXCEPT
       !.pc = IF mode = "noop" THEN "publish" ELSE "extract",
       !.mode = mode, !.call = c, !.digest = disk, !.found = OnDisk,
       !.paths = IF c.named = "yes" THEN noticed ELSE {},
       !.todo = Within(c.limit, want),
       !.skipped = {d \in OnDisk \ want : Before(d, want) <= c.limit},
       !.kept = IF mode = "noop" THEN graph ELSE NoGraph]
  /\ noticed' = IF c.named = "yes" THEN {} ELSE noticed
  /\ clean' = "running"
  /\ UNCHANGED <<disk, manifest, graph, rows, joined, writes, kills>>

\* The response cache answers for a document the differ reads again unchanged.
Answers(d) == IF run.pc = "again" /\ sha[d] = disk[d] /\ "reread" \notin Hazards
              THEN {outcome[d]} ELSE Outcomes

\* Mutant: the entry is updated in place and keeps its stamp.
ExtractInPlace(d) ==
  /\ run.pc \in {"extract", "again"} /\ d \in run.todo /\ disk[d] # Absent
  /\ \E o \in Answers(d) :
       /\ run' = IF run.pc = "extract"
                 THEN [run EXCEPT !.todo = @ \ {d}, !.fresh = @ \union {<<d, disk[d], o>>}]
                 ELSE [run EXCEPT !.todo = @ \ {d}, !.again = @ \union {<<d, disk[d], o>>}]
       /\ sha' = [sha EXCEPT ![d] = run.digest[d]]
       /\ outcome' = [outcome EXCEPT ![d] = o]
  /\ UNCHANGED <<disk, noticed, stamp, graph, rows, joined, clean, writes, kills>>

\* _extract_one reads the document again, and records the digest of the scan.
Extract(d) ==
  /\ run.pc \in {"extract", "again"} /\ d \in run.todo /\ disk[d] # Absent
  /\ \E o \in Answers(d) :
       /\ run' = IF run.pc = "extract"
                 THEN [run EXCEPT !.todo = @ \ {d}, !.fresh = @ \union {<<d, disk[d], o>>}]
                 ELSE [run EXCEPT !.todo = @ \ {d}, !.again = @ \union {<<d, disk[d], o>>}]
       /\ sha' = [sha EXCEPT ![d] = run.digest[d]]
       /\ outcome' = [outcome EXCEPT ![d] = o]
       /\ stamp' = [stamp EXCEPT ![d] = "no"]
  /\ UNCHANGED <<disk, noticed, graph, rows, joined, clean, writes, kills>>

\* A document that vanished after the scan fails the whole compile.
ExtractFails(d) ==
  /\ run.pc \in {"extract", "again"} /\ d \in run.todo /\ disk[d] = Absent
  /\ run' = Idle /\ clean' = "no"
  /\ UNCHANGED <<disk, noticed, manifest, graph, rows, joined, writes, kills>>

-----------------------------------------------------------------------------
\* delete_nodes_by_source_with_edges
Without(docs) == {row \in rows : row[2] \notin docs}
Removed(docs) == {e \in Entities : /\ Owners(e, rows) \intersect docs # {}
                                   /\ Owners(e, rows) \subseteq docs}

Extracted(mode) == run.pc = "extract" /\ run.todo = {} /\ run.mode = mode

\* A full recompile builds the graph from this run's extractions alone.
Rebuild ==
  /\ Extracted("full")
  /\ run' = [run EXCEPT !.pc = "publish"]
  /\ UNCHANGED <<disk, noticed, manifest, graph, rows, joined, clean, writes, kills>>

\* The scoped retry drops what the marked documents alone asserted.
RetryMarked ==
  LET docs == Read(run.fresh) IN
  /\ Extracted("retry")
  /\ rows' = Without(docs)
  /\ run' = [run EXCEPT !.pc = "publish",
       !.kept = [e \in Entities |-> IF e \in Removed(docs) THEN NoDoc ELSE graph[e]]]
  /\ UNCHANGED <<disk, noticed, manifest, graph, joined, clean, writes, kills>>

\* Mutant: a deletion nobody named goes unnoticed.
MissingNamed == run.paths \ OnDisk

Missing == IF run.call.named = "yes" THEN run.paths \ OnDisk ELSE Tracked \ OnDisk
NothingToDo == run.fresh = {} /\ Missing = {}

Rebind ==
  /\ Extracted("incremental") /\ NothingToDo
  /\ run' = [run EXCEPT !.pc = "publish", !.mode = "rebind", !.kept = graph]
  /\ UNCHANGED <<disk, noticed, manifest, graph, rows, joined, clean, writes, kills>>

\* The documents the differ reads again: past the cap, the whole corpus.
Beyond(owners)    == Cardinality(owners) > run.call.cap
ReadAgain(owners) == IF Beyond(owners) THEN Within(run.call.limit, run.found \intersect OnDisk)
                     ELSE owners

\* The differ: drop what the changed documents alone asserted; an entity that
\* is still asserted but was attributed to one of them is extracted again from
\* every other document that asserts it.  What was extracted is resolved first,
\* and an entity that is gone from it does not count as extracted here.
TombstoneBut(gone) ==
  LET changed  == IF run.call.named = "yes" THEN run.paths ELSE Read(run.fresh) \union Missing
      table    == Without(changed)
      impacted == {e \in InGraph \ Removed(changed) : graph[e] \in changed}
      owners   == (UNION {Owners(e, table) : e \in impacted}) \intersect OnDisk
      covered  == {e \in impacted : Owners(e, table) \intersect owners # {}}
      lost     == Removed(changed) \union covered \union (impacted \ (Said(run.fresh) \ gone))
      kept     == [e \in Entities |->
                     IF e \in lost THEN NoDoc
                     ELSE IF e \in impacted /\ Owners(e, table) # {} THEN First(Owners(e, table))
                     ELSE graph[e]]
  IN
  /\ Extracted("incremental") /\ ~NothingToDo
  /\ rows' = table
  /\ run' = [run EXCEPT
       !.pc = "again", !.mode = IF Beyond(owners) THEN "rebuilt" ELSE @, !.digest = disk,
       !.todo = ReadAgain(owners), !.kept = kept, !.missing = Missing, !.dropped = changed]
  /\ UNCHANGED <<disk, noticed, manifest, graph, joined, clean, writes, kills>>

Tombstone == \E gone \in Joins(Merge(NoGraph, run.fresh)) : TombstoneBut(gone)

\* A kept entity whose document is gone from disk is not authoritative.
Standing(base) == [e \in Entities |-> IF base[e] \in OnDisk THEN base[e] ELSE NoDoc]

\* The differ merges what was extracted, not what was resolved.
Merged ==
  CASE run.mode = "incremental" -> Merge(Standing(run.kept), run.fresh \union run.again)
    [] run.mode = "rebuilt" -> Merge(NoGraph, run.again)
    [] OTHER -> Merge(run.kept, run.fresh)

Publish ==
  /\ run.pc = "publish" \/ (run.pc = "again" /\ run.todo = {})
  /\ \E gone \in (IF run.mode \in {"full", "retry", "noop"} THEN Joins(Merged) ELSE {{}}) :
       /\ graph' = [e \in Entities |-> IF e \in gone THEN NoDoc ELSE Merged[e]]
       /\ joined' = gone \union (IF run.mode = "full" THEN {} ELSE joined)
  /\ run' = [run EXCEPT !.pc = "record"]
  /\ UNCHANGED <<disk, noticed, manifest, rows, clean, writes, kills>>

\* Mutant: a full compile keeps the rows of earlier ones.
RecordAdds ==
  /\ run.pc = "record"
  /\ rows' = {row \in rows \union RowsOf(run.fresh) : graph[row[1]] # NoDoc}
  /\ run' = [run EXCEPT !.pc = "stamp"]
  /\ UNCHANGED <<disk, noticed, manifest, graph, joined, clean, writes, kills>>

\* Only a full compile's rows are the whole table; another run adds its own.  Rows
\* keep the entity the document named: those of one that is gone are pruned.
Record ==
  /\ run.pc = "record"
  /\ rows' = {row \in RowsOf(run.fresh) \union (IF run.mode = "full" THEN {} ELSE rows) :
                graph[row[1]] # NoDoc}
  /\ run' = [run EXCEPT !.pc = "stamp"]
  /\ UNCHANGED <<disk, noticed, manifest, graph, joined, clean, writes, kills>>

\* Which entries leave the manifest, gain the stamp and lose it.
Pruned  == IF run.mode = "full" THEN Docs \ run.found ELSE run.missing
Stamped == Read(run.fresh \union run.again)
Carried == run.skipped \union (IF run.mode = "full" THEN {} ELSE run.found \ run.dropped)

Stamp ==
  /\ run.pc = "stamp" /\ run.mode # "noop"
  /\ sha' = [d \in Docs |-> IF d \in Pruned THEN Absent ELSE sha[d]]
  /\ outcome' = [d \in Docs |-> IF d \in Pruned THEN "typed" ELSE outcome[d]]
  /\ stamp' = [d \in Docs |->
       IF sha[d] = Absent \/ d \in Pruned THEN "no"
       ELSE IF d \in Stamped THEN "yes"
       ELSE IF d \in Carried THEN stamp[d] ELSE "no"]
  /\ run' = Idle
  /\ clean' = IF clean = "running" /\ Cardinality(run.found) <= run.call.limit THEN "yes" ELSE "no"
  /\ UNCHANGED <<disk, noticed, graph, rows, joined, writes, kills>>

ReuseEnds ==
  /\ run.pc = "stamp" /\ run.mode = "noop"
  /\ run' = Idle
  /\ clean' = IF clean = "running" THEN "yes" ELSE "no"
  /\ UNCHANGED <<disk, noticed, manifest, graph, rows, joined, writes, kills>>

Kill ==
  /\ run.pc # "idle" /\ kills < Kills
  /\ run' = Idle /\ kills' = kills + 1 /\ clean' = "no"
  /\ UNCHANGED <<disk, noticed, manifest, graph, rows, joined, writes>>

-----------------------------------------------------------------------------
Watched == \E c \in Calls : c.named = "yes"

\* What a compile has yet to read, or has no need to.
Unread == run.todo \union (IF run.pc = "extract" THEN run.skipped ELSE {})

\* A document is saved, perhaps with the bytes it had, or deleted.
Save(d, v) ==
  /\ writes < Writes
  /\ v # disk[d] \/ (Watched /\ v # Absent)
  /\ run.pc \in {"extract", "again"} /\ v # disk[d] =>
       "during" \in Hazards \/ (v = Absent /\ d \in Unread)
  /\ disk[d] = Absent /\ sha[d] # Absent => "restore" \in Hazards
  /\ disk' = [disk EXCEPT ![d] = v]
  /\ noticed' = IF Watched THEN noticed \union {d} ELSE noticed
  /\ clean' = IF v = disk[d] THEN clean ELSE "no"
  /\ writes' = writes + 1
  /\ UNCHANGED <<manifest, graph, rows, joined, run, kills>>

Next ==
  \/ \E c \in Calls : Start(c)
  \/ \E d \in Docs : Extract(d) \/ ExtractFails(d)
  \/ Rebuild \/ RetryMarked \/ Rebind \/ Tombstone
  \/ Publish \/ Record \/ Stamp \/ ReuseEnds \/ Kill
  \/ \E d \in Docs, v \in Held : Save(d, v)

Spec == Init /\ [][Next]_vars

-----------------------------------------------------------------------------
Entry(d) == <<d, sha[d], outcome[d]>>
Settled  == run.pc = "idle" /\ clean = "yes"

\* No document is lost behind its stamp.  When every manifest entry is stamped
\* "graphed", the no-op, the scoped retry and the differ all take graph.json for
\* the corpus, so it must hold everything an unchanged document asserts, but for
\* what resolution has joined: nothing else would ever make a later compile read
\* that document again.
CompleteIsWhole ==
  run.pc = "idle" /\ GraphCoversCorpus =>
    \A d \in OnDisk : sha[d] = disk[d] => Asserts[Entry(d)] \subseteq InGraph \union joined

\* Whatever mix of full, incremental, retried, rebuilt and no-op compiles led
\* here, a whole compile of documents that stand still leaves the graph a full
\* recompile would build, up to the entities that resolution joins: nothing else
\* is lost, and nothing stays that nobody asserts any more.
Parity ==
  Settled =>
    LET asserted == UNION {Asserts[Entry(d)] : d \in OnDisk} IN
    /\ CorpusUnchanged
    /\ InGraph \subseteq asserted
    /\ asserted \subseteq InGraph \union joined

\* ... and the sidecar, which each mode updates in its own way, names exactly the
\* documents that assert each entity that was not joined: a row too many keeps an
\* entity alive at the next tombstone, a row too few drops one that is still asserted.
\* Of an entity that was joined it may lack rows.
RowsExact ==
  Settled =>
    LET asserted == RowsOf({Entry(d) : d \in OnDisk}) IN
    /\ rows \subseteq asserted
    /\ \A row \in asserted : row[1] \notin joined => row \in rows
=============================================================================
