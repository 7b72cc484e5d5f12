------------------------------ MODULE VaultSync ------------------------------
(***************************************************************************)
(* The round trip of an Obsidian vault (project.py, vault_pull.py,         *)
(* vault_snapshot.py, vault_watch.py, markdown_projection.py).  A compile  *)
(* and the vault watcher's reprojection both pull what the user changed in *)
(* the vault into the graph, publish it, project the graph back into the   *)
(* vault and write a snapshot, the baseline of the next pull.  A compile   *)
(* holds the compile lock and a reprojection does not, so the two overlap, *)
(* and write the snapshot through one temporary file.                      *)
(* The model follows one node and its pages: a page lies at the path of    *)
(* the name its node had when it was written, so a node that was renamed   *)
(* may have several.                                                       *)
(***************************************************************************)

EXTENDS Naturals

CONSTANTS Names,    \* the names of the node, each the path of a page
          LastPath, \* of a set of paths, the last in the order they are read
          Descs,    \* the descriptions there are
          ReadBack, \* what extract_description makes of each, once projected
          Links,    \* the wikilinks a user may note on a page
          Docs,     \* what an extraction may read in the node's document
          First,    \* what the first compile read there
          Edits, Compiles, Kills, \* bounds on what happens
          Events,   \* and on all of it
          Torn,     \* a snapshot that two passes wrote at once, which is not JSON
          None

Doc   == [name : Names, desc : Descs]
Graph == [name : Names, desc : Descs, links : SUBSET Links]
Page  == [title : Names, desc : Descs, notes : SUBSET Links]
Pass  == {"compile", "sync"}

ASSUME VaultAssumption ==
  /\ LastPath \in [(SUBSET Names) \ {{}} -> Names]
  /\ \A S \in (SUBSET Names) \ {{}} : LastPath[S] \in S
  /\ ReadBack \in [Descs -> Descs]
  /\ Docs \subseteq Doc /\ First \in Docs
  /\ {Edits, Compiles, Kills, Events} \subseteq Nat
  /\ None \notin Names \union Descs \union Doc \union Graph \union Page
  /\ Torn \notin Doc \union {None}

VARIABLES
  \* the project
  source,    \* what an extraction would read in the node's document
  extracted, \* what the last compile that ended had read there, if one did since
  pages,     \* the vault: of each name the page at its path, or None
  graph,     \* graph.json
  snap,      \* vault_snapshot.json
  tmp,       \* vault_snapshot.json.tmp, or None
  \* the two passes
  pc,
  mem,       \* the graph in memory
  disk,      \* the graph that export_obsidian loaded again
  taken,     \* what the running compile read in the document
  altered,   \* "yes": the overlay of the running reprojection changed the graph
  \* the engine's watchers and its queue
  watched,   \* "new": the document was written since the source watch looked
  seen,      \* "new": the vault was written since the baseline was taken
  look,      \* "moved": it was written since this tick looked
  queued,    \* what compile is asked for: "bare" when no path was named with it
  \* history
  typed,     \* the fields the user set since the last snapshot
  calm,      \* of a running pass: nobody changed what it had read
  story,     \* "settled": the last pass was calm and no page was edited since
  unread,    \* "yes": a page was edited since a pass pulled, and the vault watch
             \* was not past its own pull, nor dead
  lost,      \* "yes": a compile failed, or it or the engine was killed, and no
             \* compile began since
  spent      \* edits, compiles by hand and kills so far

stores  == <<extracted, graph, snap, tmp>>
passes  == <<pc, mem, disk, taken, altered>>
watcher == <<watched, seen, look, queued>>
tale    == <<story, unread, lost>>
history == <<typed, calm, tale>>
vars    == <<source, pages, stores, passes, watcher, history, spent>>

Running == {p \in Pass : pc[p] \notin {"idle", "settle", "dead"}}
Here    == {n \in Names : pages[n] # None}
OnePage == \E n \in Names : Here = {n}
Noted   == UNION {pages[n].notes : n \in Here}
Untyped == [name |-> None, desc |-> None]
Fields(g) == [name |-> g.name, desc |-> g.desc]

TypeOK ==
  /\ source \in Docs /\ extracted \in Docs \union {None}
  /\ snap \in Doc \union {Torn} /\ tmp \in Doc \union {Torn, None}
  /\ pages \in [Names -> Page \union {None}]
  /\ graph \in Graph /\ {mem, disk} \subseteq [Pass -> Graph \union {None}]
  /\ pc \in [Pass -> {"idle", "settle", "pull", "publish", "load", "write", "prune",
                      "snapshot", "replace", "baseline", "dead"}]
  /\ pc["compile"] \notin {"settle", "baseline", "dead"}
  /\ \A p \in Running : mem[p] # None /\ (pc[p] \in {"write", "prune"} => disk[p] # None)
  /\ taken \in Docs \union {None} /\ ("compile" \in Running <=> taken # None)
  /\ altered \in {"no", "yes"}
  /\ {watched, seen} \subseteq {"same", "new"} /\ look \in {"still", "moved"}
  /\ queued \in {"no", "bare", "paths"}
  /\ typed \in [name : Names \union {None}, desc : Descs \union {None}]
  /\ calm \in [Pass -> {"calm", "raced"}]
  /\ story \in {"settled", "edited", "raced"}
  /\ unread \in {"no", "yes"} /\ lost \in {"no", "yes"}
  /\ spent \in [edits : 0..Edits, compiles : 0..Compiles, kills : 0..Kills]

\* A project that was compiled once and whose vault nobody edited.
Init ==
  /\ source = First /\ extracted = First /\ snap = First /\ tmp = None
  /\ graph = [name |-> First.name, desc |-> First.desc, links |-> {}]
  /\ pages = [n \in Names |->
                IF n = First.name
                THEN [title |-> n, desc |-> First.desc, notes |-> {}] ELSE None]
  /\ pc = [p \in Pass |-> "idle"]
  /\ mem = [p \in Pass |-> None] /\ disk = mem /\ taken = None /\ altered = "no"
  /\ watched = "same" /\ seen = "same" /\ look = "still" /\ queued = "no"
  /\ typed = Untyped
  /\ calm = [p \in Pass |-> "calm"] /\ story = "settled" /\ unread = "no" /\ lost = "no"
  /\ spent = [edits |-> 0, compiles |-> 0, kills |-> 0]

-----------------------------------------------------------------------------
(* Pull: what the vault says, laid over a graph. *)

\* A title, or a description as it is read, is compared with the snapshot's; a
\* snapshot that cannot be read is no baseline, and nothing differs from it.
SameTitle(t) == snap = Torn \/ t = snap.name
SameDesc(d)  == snap = Torn \/ ReadBack[d] = snap.desc
Retitled     == {n \in Here : ~ SameTitle(pages[n].title)}
Redescribed  == {n \in Here : ~ SameDesc(pages[n].desc)}

OverlayOfAll(g) ==
  [name  |-> IF Here = {} THEN g.name ELSE pages[LastPath[Here]].title,
   desc  |-> IF Here = {} THEN g.desc ELSE ReadBack[pages[LastPath[Here]].desc],
   links |-> Noted]

OverlayAddsOnly(g) ==
  [name  |-> IF Retitled = {} THEN g.name ELSE pages[LastPath[Retitled]].title,
   desc  |-> IF Redescribed = {} THEN g.desc
             ELSE ReadBack[pages[LastPath[Redescribed]].desc],
   links |-> g.links \union Noted]

\* Overrides are applied in the order of the paths, so the last page counts.
\* The links of the notes are added and the links in no note are removed.
Overlay(g) ==
  [name  |-> IF Retitled = {} THEN g.name ELSE pages[LastPath[Retitled]].title,
   desc  |-> IF Redescribed = {} THEN g.desc
             ELSE ReadBack[pages[LastPath[Redescribed]].desc],
   links |-> Noted]

-----------------------------------------------------------------------------
Left == spent.edits + spent.compiles + spent.kills < Events

Goto(p, next) == pc' = [pc EXCEPT ![p] = next]

Begin(p, g, next) ==
  /\ Goto(p, next)
  /\ mem' = [mem EXCEPT ![p] = g]

Stop(p, at) ==
  /\ Begin(p, None, at)
  /\ disk' = [disk EXCEPT ![p] = None]
  /\ calm' = [calm EXCEPT ![p] = "calm"]

Leave(p) == Stop(p, "idle")

\* What p writes is news to a pass that had read the old; from there on nothing
\* is said of what the user typed.
Races(p, differs) ==
  /\ calm' = [q \in Pass |-> IF differs /\ q \in Running \ {p} THEN "raced" ELSE calm[q]]
  /\ typed' = IF calm' = calm THEN typed ELSE Untyped

\* The vault was written, which is a change to the watcher whoever did it.
Touch ==
  /\ seen' = IF pc["sync"] = "dead" THEN seen ELSE "new"
  /\ look' = IF pc["sync"] = "settle" THEN "moved" ELSE "still"
  /\ UNCHANGED <<watched, queued>>

-----------------------------------------------------------------------------
(* The two passes. *)

\* A compile extracts the document if it is a full one or the document changed;
\* otherwise it starts from the graph there is.
StartCompile(mode) ==
  /\ pc["compile"] = "idle"
  /\ Begin("compile",
           IF mode = "full" \/ source # extracted
           THEN [name |-> source.name, desc |-> source.desc,
                 links |-> IF mode = "full" THEN {} ELSE graph.links]
           ELSE graph,
           "pull")
  /\ taken' = source
  /\ lost' = "no"
  /\ UNCHANGED <<source, pages, stores, disk, altered, watched, seen, look, typed, calm, story,
                 unread>>

\* The engine's: a full one when no trigger of the batch named a path.
QueuedCompile ==
  /\ queued # "no"
  /\ StartCompile(IF queued = "paths" THEN "changed" ELSE "full")
  /\ queued' = "no"
  /\ UNCHANGED spent

HandCompile ==
  /\ spent.compiles < Compiles /\ Left
  /\ \E mode \in {"full", "changed"} : StartCompile(mode)
  /\ spent' = [spent EXCEPT !.compiles = @ + 1]
  /\ UNCHANGED queued

\* A tick of the watcher: the vault differs from the baseline.
Look ==
  /\ pc["sync"] = "idle" /\ seen = "new"
  /\ Goto("sync", "settle")
  /\ UNCHANGED <<source, pages, stores, mem, disk, taken, altered, watcher, history, spent>>

SettleTakesIt ==
  /\ pc["sync"] = "settle"
  /\ IF look = "moved" THEN Goto("sync", "idle") /\ seen' = "same" /\ UNCHANGED mem
     ELSE Begin("sync", graph, "pull") /\ UNCHANGED seen
  /\ look' = "still"
  /\ UNCHANGED <<source, pages, stores, disk, taken, altered, watched, queued, history, spent>>

\* One interval later the vault has settled and the graph is loaded, or the
\* tick is left to the next.
Settle ==
  /\ pc["sync"] = "settle"
  /\ IF look = "moved" THEN Goto("sync", "idle") /\ UNCHANGED mem
     ELSE Begin("sync", graph, "pull")
  /\ look' = "still"
  /\ UNCHANGED <<source, pages, stores, disk, taken, altered, watched, seen, queued, history, spent>>

PullForProjectionOnly(p) ==
  /\ pc[p] = "pull"
  /\ Begin(p, Overlay(mem[p]), IF p = "sync" THEN "load" ELSE "publish")
  /\ altered' = IF p = "sync" /\ Overlay(mem[p]) # mem[p] THEN "yes" ELSE altered
  /\ unread' = "no"
  /\ UNCHANGED <<source, pages, stores, disk, taken, watcher, typed, calm, story, lost, spent>>

\* _apply_vault_overlay.  A reprojection whose overlay changed nothing does
\* not publish.
Pull(p) ==
  /\ pc[p] = "pull"
  /\ Begin(p, Overlay(mem[p]),
           IF p = "sync" /\ Overlay(mem[p]) = mem[p] THEN "load" ELSE "publish")
  /\ altered' = IF p = "sync" /\ Overlay(mem[p]) # mem[p] THEN "yes" ELSE altered
  /\ unread' = "no"
  /\ UNCHANGED <<source, pages, stores, disk, taken, watcher, typed, calm, story, lost, spent>>

Publish(p) ==
  /\ pc[p] = "publish"
  /\ graph' = mem[p]
  /\ Races(p, mem[p] # graph)
  /\ Goto(p, "load")
  /\ UNCHANGED <<source, pages, extracted, snap, tmp, mem, disk, taken, altered, watcher, tale,
                 spent>>

\* export_obsidian reads graph.json again.
Load(p) ==
  /\ pc[p] = "load"
  /\ disk' = [disk EXCEPT ![p] = graph]
  /\ Goto(p, "write")
  /\ UNCHANGED <<source, pages, stores, mem, taken, altered, watcher, history, spent>>

\* The node's page, with the notes that are on it.
Written(g) ==
  [pages EXCEPT ![g.name] =
     [title |-> g.name, desc |-> g.desc, notes |-> IF @ = None THEN {} ELSE @.notes]]

WritePage(p) ==
  /\ pc[p] = "write"
  /\ pages' = Written(disk[p])
  /\ Races(p, pages' # pages)
  /\ Touch
  /\ Goto(p, "prune")
  /\ UNCHANGED <<source, stores, mem, disk, taken, altered, tale, spent>>

PrunedWithNotes(g) == [n \in Names |-> IF n # g.name THEN None ELSE pages[n]]

\* The pages the node no longer projects to go, unless they hold notes.
Pruned(g) ==
  [n \in Names |-> IF n \in Here /\ n # g.name /\ pages[n].notes = {}
                   THEN None ELSE pages[n]]

Prune(p) ==
  /\ pc[p] = "prune"
  /\ pages' = Pruned(disk[p])
  /\ Races(p, pages' # pages)
  /\ IF pages' = pages THEN UNCHANGED watcher ELSE Touch
  /\ Goto(p, "snapshot")
  /\ disk' = [disk EXCEPT ![p] = None]
  /\ UNCHANGED <<source, stores, mem, taken, altered, tale, spent>>

\* write_snapshot: of the graph in memory, not of the one that was projected.
\* The passes write the same temporary file, and what two wrote at once, unless
\* it is the same, may be neither's.
Stage(p) ==
  /\ pc[p] = "snapshot"
  /\ tmp' \in {Fields(mem[p])} \union
       IF tmp \notin {None, Fields(mem[p])} /\ \E q \in Pass : pc[q] = "replace"
       THEN {Torn} ELSE {}
  /\ Goto(p, "replace")
  /\ UNCHANGED <<source, pages, extracted, graph, snap, mem, disk, taken, altered, watcher,
                 history, spent>>

\* It takes the snapshot's place, whoever wrote it last, and a compile ends.
Replace(p) ==
  /\ pc[p] = "replace" /\ tmp # None
  /\ snap' = tmp /\ tmp' = None
  /\ extracted' = IF p = "compile" THEN taken ELSE extracted
  /\ IF p = "compile" THEN Leave(p) /\ taken' = None
     ELSE Goto(p, "baseline") /\ UNCHANGED <<mem, disk, taken, calm>>
  /\ typed' = Untyped
  /\ story' = IF tmp # Fields(mem[p]) \/ \E q \in Running : calm[q] = "raced"
              THEN "raced" ELSE "settled"
  /\ UNCHANGED <<source, pages, graph, altered, watcher, unread, lost, spent>>

\* The other pass has replaced the file: a compile fails, which is only logged,
\* and the watcher's thread ends for as long as the engine runs.
ReplaceFails(p) ==
  /\ pc[p] = "replace" /\ tmp = None
  /\ Stop(p, IF p = "compile" THEN "idle" ELSE "dead")
  /\ IF p = "compile"
     THEN /\ taken' = None /\ extracted' \in {extracted, None} /\ lost' = "yes"
          /\ UNCHANGED <<altered, seen>>
     ELSE altered' = "no" /\ seen' = "same" /\ UNCHANGED <<taken, extracted, lost>>
  /\ story' = "raced"
  /\ UNCHANGED <<source, pages, graph, snap, tmp, watched, look, queued, typed, unread, spent>>

BaselineQueuesAlways ==
  /\ pc["sync"] = "baseline"
  /\ Leave("sync")
  /\ seen' = "same"
  /\ queued' = IF queued = "paths" THEN queued ELSE "bare"
  /\ altered' = "no"
  /\ UNCHANGED <<source, pages, stores, taken, watched, look, typed, tale, spent>>

\* The watcher takes its baseline again; on_change queues a compile if the
\* overlay changed the graph.
Baseline ==
  /\ pc["sync"] = "baseline"
  /\ Leave("sync")
  /\ seen' = "same"
  /\ queued' = IF altered = "yes" /\ queued = "no" THEN "bare" ELSE queued
  /\ altered' = "no"
  /\ UNCHANGED <<source, pages, stores, taken, watched, look, typed, tale, spent>>

WatchSourceWhenIdle ==
  /\ watched = "new"
  /\ watched' = "same"
  /\ queued' = IF pc["compile"] = "idle" THEN "paths" ELSE queued
  /\ UNCHANGED <<source, pages, stores, passes, seen, look, history, spent>>

\* The source watch, whose baseline is what it saw last.
WatchSource ==
  /\ watched = "new"
  /\ watched' = "same" /\ queued' = "paths"
  /\ UNCHANGED <<source, pages, stores, passes, seen, look, history, spent>>

-----------------------------------------------------------------------------
(* The user, and the end of a process. *)

\* An edit is late when a running pass has pulled already, or is out of date.
Late == \E p \in Running : pc[p] # "pull" \/ calm[p] = "raced"

\* The vault watch has pulled and is to take its baseline, or is dead.
Blind == pc["sync"] \notin {"idle", "settle", "pull"}

Edit(n, page, name, desc) ==
  /\ page # pages[n]
  /\ spent.edits < Edits /\ Left
  /\ spent' = [spent EXCEPT !.edits = @ + 1]
  /\ pages' = [pages EXCEPT ![n] = page]
  /\ Touch
  /\ typed' = IF Late \/ ~ OnePage THEN Untyped ELSE [name |-> name, desc |-> desc]
  /\ calm' = [p \in Pass |-> IF p \in Running /\ pc[p] # "pull" THEN "raced" ELSE calm[p]]
  /\ story' = IF Late THEN "raced" ELSE IF story = "settled" THEN "edited" ELSE story
  /\ unread' = IF Blind THEN "no" ELSE "yes"
  /\ UNCHANGED <<source, stores, passes, lost>>

\* A title or description that the next pull will not tell from the snapshot's
\* is not an edit to be applied.
Retitle ==
  \E n \in Here, t \in Names :
    Edit(n, [pages[n] EXCEPT !.title = t], IF SameTitle(t) THEN None ELSE t, typed.desc)

Redescribe ==
  \E n \in Here, d \in Descs :
    Edit(n, [pages[n] EXCEPT !.desc = d], typed.name,
         IF SameDesc(d) THEN None ELSE ReadBack[d])

Annotate ==
  \E n \in Here, L \in SUBSET Links :
    Edit(n, [pages[n] EXCEPT !.notes = L], typed.name, typed.desc)

\* The document is edited.
Rewrite ==
  /\ spent.edits < Edits /\ Left
  /\ source' \in Docs \ {source}
  /\ spent' = [spent EXCEPT !.edits = @ + 1]
  /\ watched' = "new"
  /\ UNCHANGED <<pages, stores, passes, seen, look, queued, history>>

\* What a killed pass leaves of the snapshot matters to who is to replace it; if
\* nobody is, the next pass writes it anew.
Abandon(p) ==
  tmp' = IF \E q \in Pass \ {p} : pc[q] = "replace" THEN tmp ELSE None

\* A compile is killed or fails.  What it extracted is then not known to be in
\* the graph, and the next compile extracts it again.
KillCompile ==
  /\ "compile" \in Running
  /\ spent.kills < Kills /\ Left
  /\ spent' = [spent EXCEPT !.kills = @ + 1]
  /\ Leave("compile") /\ taken' = None
  /\ story' = "raced" /\ lost' = "yes"
  /\ extracted' \in {extracted, None}
  /\ Abandon("compile")
  /\ UNCHANGED <<source, pages, graph, snap, altered, watcher, typed, unread>>

\* The engine ends and starts again: its queue is empty, and the vault and the
\* document as it finds them are the watchers' first baselines.
KillEngine ==
  /\ spent.kills < Kills /\ Left
  /\ spent' = [spent EXCEPT !.kills = @ + 1]
  /\ Leave("sync")
  /\ watched' = "same" /\ seen' = "same" /\ look' = "still" /\ queued' = "no"
  /\ altered' = "no"
  /\ story' = "raced" /\ unread' = "no" /\ lost' = "yes"
  /\ Abandon("sync")
  /\ UNCHANGED <<source, pages, extracted, graph, snap, taken, typed>>

-----------------------------------------------------------------------------
Steps(p) == \/ Pull(p) \/ Publish(p) \/ Load(p) \/ WritePage(p) \/ Prune(p)
            \/ Stage(p) \/ Replace(p) \/ ReplaceFails(p)
Compile  == QueuedCompile \/ Steps("compile")
Watch    == Look \/ Settle \/ Steps("sync") \/ Baseline
User     == Retitle \/ Redescribe \/ Annotate \/ Rewrite
Next     == Compile \/ HandCompile \/ Watch \/ WatchSource \/ User \/ KillCompile \/ KillEngine

\* The engine's threads go on, and so does a compile that was queued or begun;
\* nobody has to edit, to compile by hand or to kill.
Fairness == WF_vars(Watch) /\ WF_vars(WatchSource) /\ WF_vars(Compile)
Spec     == Init /\ [][Next]_vars /\ Fairness

-----------------------------------------------------------------------------
(* Whatever overlaps and whatever is killed, no pass adds to the notes of   *)
(* the node's pages or takes from them: the projector carries them over and *)
(* a page that holds some is not pruned, under any name.                    *)
NotesKept == [][User \/ Noted' = Noted]_vars

Agree ==
  /\ pages[graph.name] # None
  /\ pages[graph.name].title = graph.name /\ pages[graph.name].desc = graph.desc
  /\ snap = Fields(graph)
  /\ graph.links = Noted

(* The graph, the node's page and the snapshot agree once a pass has ended  *)
(* during which nobody changed what it read, also after a killed one.       *)
SettledAgree == story = "settled" /\ Running = {} => Agree

(* An edit that was saved while no pass had pulled is in the graph when the *)
(* next pass ends, whatever the document says and although passes were      *)
(* killed meanwhile.                                                        *)
EditIsApplied ==
  [][\A p \in Pass : Replace(p) =>
       /\ typed.name # None => graph.name = typed.name
       /\ typed.desc # None => graph.desc = typed.desc]_vars

ReadsAsWritten == \A n \in Here : ReadBack[pages[n].desc] = pages[n].desc

RoundTrip(p) ==
  Pull(p) /\ story = "settled" /\ Running = {p} => Fields(mem'[p]) = Fields(mem[p])

(* A pull overrides nothing when nobody edited a page since the last pass,  *)
(* so a page that was only projected never wins over the document.          *)
RoundTripStable == [][OnePage /\ ReadsAsWritten => \A p \in Pass : RoundTrip(p)]_vars

Noticed == watched = "new" \/ queued = "paths"

(* Nothing the user saves is forgotten, short of what is excepted here.  A  *)
(* document that is not what the last compile extracted is news to the      *)
(* source watch, or a compile of changed documents is queued, or one runs   *)
(* that has read it as it is; but a compile that fails, or is killed, has   *)
(* consumed the trigger, and the engine's queue ends with it.  An edit of a *)
(* page that no pass has pulled is news to the vault watch; but one saved   *)
(* between a reprojection's pull and its baseline becomes part of the       *)
(* baseline, and a watcher that died, or an engine that was killed, has no  *)
(* eye for it: such an edit waits for the next change of the vault.         *)
NothingForgotten ==
  /\ lost = "no" /\ source # extracted =>
       Noticed \/ ("compile" \in Running /\ taken = source)
  /\ unread = "yes" => seen = "new"

(* An edit reaches the graph, the page and the snapshot without a compile   *)
(* by hand, unless another edit or pass came in between, or the watcher had *)
(* died of a snapshot that the other pass put in place.                     *)
QuietlyApplied ==
  story = "edited" ~> \/ story = "raced" \/ pc["sync"] = "dead"
                      \/ story = "settled" /\ Agree

(* A document that is saved at any moment, of a running compile too, is     *)
(* extracted in the end, unless a compile failed, or it or the engine was   *)
(* killed.                                                                  *)
ExtractionArrives == source # extracted ~> source = extracted \/ lost = "yes"

Racing == \E p \in Running : calm[p] = "raced"
Astray == \E n \in Here : pages[n].notes # {} /\ n # source.name
Cut    == ReadBack[source.desc] # source.desc
Quiet  == /\ pc["compile"] = "idle" /\ pc["sync"] \in {"idle", "dead"}
          /\ watched = "same" /\ seen = "same" /\ queued = "no"

(* A compile writes the vault, which the watcher takes for an edit, and a   *)
(* reprojection that changed the graph queues a compile.  The two come to   *)
(* rest, unless they race for ever, a page of another name than the         *)
(* document's holds notes, or what is extracted is not read back from the   *)
(* page as it was written.                                                  *)
Quiesces == []<>(Racing \/ Astray \/ Cut) \/ <>[]Quiet

(* "Recompiling the same vault with no source-side changes produces no      *)
(* diffs": a compile that ran alone after a settled pass publishes what is  *)
(* published, unless the document was edited.                               *)
RecompileStable ==
  [][Publish("compile") /\ story = "settled" /\ Running = {"compile"} /\ taken = extracted
       => Fields(graph') = Fields(graph)]_vars
=============================================================================
