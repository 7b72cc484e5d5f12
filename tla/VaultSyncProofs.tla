--------------------------- MODULE VaultSyncProofs ---------------------------
(***************************************************************************)
(* Proofs about VaultSync, for every set of names, descriptions, links and *)
(* documents, whatever the pages read back as, and every bound.            *)
(***************************************************************************)

EXTENDS VaultSync, TLAPS

-----------------------------------------------------------------------------
(* Type correctness. *)

(* The notes of the pages are links. *)
LEMMA NotedAreLinks ==
  ASSUME pages \in [Names -> Page \union {None}]
  PROVE  Noted \in SUBSET Links
<1> SUFFICES ASSUME NEW n \in Here, NEW l \in pages[n].notes PROVE l \in Links
  BY DEF Noted
<1> pages[n] \in Page
  BY DEF Here
<1> QED
  BY DEF Page

(* What a pull makes of a graph is a graph. *)
LEMMA OverlayIsGraph ==
  ASSUME TypeOK, NEW g \in Graph
  PROVE  Overlay(g) \in Graph
<1>1. Overlay(g).name \in Names
  <2>1. CASE Retitled = {}
    BY <2>1 DEF Overlay, Graph
  <2>2. CASE Retitled # {}
    <3>1. Retitled \in (SUBSET Names) \ {{}}
      BY <2>2 DEF Retitled, Here
    <3>2. LastPath[Retitled] \in Here
      BY <3>1, VaultAssumption DEF VaultAssumption, Retitled
    <3>3. pages[LastPath[Retitled]] \in Page
      BY <3>2 DEF Here, TypeOK
    <3> QED
      BY <2>2, <3>3 DEF Overlay, Page
  <2> QED
    BY <2>1, <2>2
<1>2. Overlay(g).desc \in Descs
  <2>1. CASE Redescribed = {}
    BY <2>1 DEF Overlay, Graph
  <2>2. CASE Redescribed # {}
    <3>1. Redescribed \in (SUBSET Names) \ {{}}
      BY <2>2 DEF Redescribed, Here
    <3>2. LastPath[Redescribed] \in Here
      BY <3>1, VaultAssumption DEF VaultAssumption, Redescribed
    <3>3. pages[LastPath[Redescribed]] \in Page
      BY <3>2 DEF Here, TypeOK
    <3>4. ReadBack[pages[LastPath[Redescribed]].desc] \in Descs
      BY <3>3, VaultAssumption DEF VaultAssumption, Page
    <3> QED
      BY <2>2, <3>4 DEF Overlay
  <2> QED
    BY <2>1, <2>2
<1>3. Noted \in SUBSET Links
  BY NotedAreLinks DEF TypeOK
<1> QED
  BY <1>1, <1>2, <1>3 DEF Overlay, Graph

LEMMA TypeInit == Init => TypeOK
<1> SUFFICES ASSUME Init PROVE TypeOK
  OBVIOUS
<1>1. First \in Doc /\ First.name \in Names /\ First.desc \in Descs /\ First \in Docs
  BY VaultAssumption DEF VaultAssumption, Doc
<1>2. pages \in [Names -> Page \union {None}]
  BY <1>1 DEF Init, Page
<1>3. graph \in Graph
  BY <1>1 DEF Init, Graph
<1>4. Running = {}
  BY DEF Init, Running, Pass
<1>5. "compile" \in Pass /\ "sync" \in Pass
  BY DEF Pass
<1> QED
  BY <1>1, <1>2, <1>3, <1>4, <1>5, VaultAssumption DEF Init, TypeOK, Untyped, VaultAssumption

(* Each group of variables keeps its types. *)
StoresOK ==
  /\ source \in Docs /\ extracted \in Docs \union {None}
  /\ snap \in Doc \union {Torn} /\ tmp \in Doc \union {Torn, None}
  /\ pages \in [Names -> Page \union {None}]
  /\ graph \in Graph

PassesOK ==
  /\ {mem, disk} \subseteq [Pass -> Graph \union {None}]
  /\ pc \in [Pass -> {"idle", "settle", "pull", "publish", "load", "write", "prune",
                      "snapshot", "replace", "baseline", "dead"}]
  /\ pc["compile"] \notin {"settle", "baseline", "dead"}
  /\ \A p \in Running : mem[p] # None /\ (pc[p] \in {"write", "prune"} => disk[p] # None)
  /\ taken \in Docs \union {None} /\ ("compile" \in Running <=> taken # None)
  /\ altered \in {"no", "yes"}

WatcherOK ==
  /\ {watched, seen} \subseteq {"same", "new"} /\ look \in {"still", "moved"}
  /\ queued \in {"no", "bare", "paths"}

HistoryOK ==
  /\ typed \in [name : Names \union {None}, desc : Descs \union {None}]
  /\ calm \in [Pass -> {"calm", "raced"}]
  /\ story \in {"settled", "edited", "raced"}
  /\ unread \in {"no", "yes"} /\ lost \in {"no", "yes"}

SpentOK == spent \in [edits : 0..Edits, compiles : 0..Compiles, kills : 0..Kills]

LEMMA TypeParts == TypeOK <=> StoresOK /\ PassesOK /\ WatcherOK /\ HistoryOK /\ SpentOK
BY DEF TypeOK, StoresOK, PassesOK, WatcherOK, HistoryOK, SpentOK

(* What a projection writes is a page, and what it prunes leaves pages. *)
LEMMA WrittenArePages ==
  ASSUME TypeOK, NEW g \in Graph
  PROVE  /\ Written(g) \in [Names -> Page \union {None}]
         /\ Pruned(g) \in [Names -> Page \union {None}]
<1>1. g.name \in Names /\ g.desc \in Descs
  BY DEF Graph
<1>2. (IF pages[g.name] = None THEN {} ELSE pages[g.name].notes) \in SUBSET Links
  <2> pages[g.name] \in Page \union {None}
    BY <1>1 DEF TypeOK
  <2> QED
    BY DEF Page
<1>3. Written(g) \in [Names -> Page \union {None}]
  BY <1>1, <1>2 DEF Written, TypeOK, Page
<1>4. Pruned(g) \in [Names -> Page \union {None}]
  BY DEF Pruned, TypeOK
<1> QED
  BY <1>3, <1>4

LEMMA StoresNext == TypeOK /\ [Next]_vars => StoresOK'
<1> SUFFICES ASSUME TypeOK, [Next]_vars PROVE StoresOK'
  OBVIOUS
<1> USE DEF StoresOK, stores
<1>0. StoresOK
  BY TypeParts
<1>1. CASE UNCHANGED <<source, pages, stores>>
  BY <1>0, <1>1
<1>2. ASSUME NEW p \in Pass, Publish(p) PROVE StoresOK'
  <2>1. p \in Running
    BY <1>2 DEF Publish, Running
  <2>2. mem[p] \in Graph
    BY <2>1 DEF TypeOK
  <2> QED
    BY <1>0, <1>2, <2>2 DEF Publish
<1>3. ASSUME NEW p \in Pass, WritePage(p) \/ Prune(p) PROVE StoresOK'
  <2>1. p \in Running /\ pc[p] \in {"write", "prune"}
    BY <1>3 DEF WritePage, Prune, Running
  <2>2. disk[p] \in Graph
    BY <2>1 DEF TypeOK
  <2> QED
    BY <1>0, <1>3, <2>2, WrittenArePages DEF WritePage, Prune
<1>4. ASSUME NEW p \in Pass, Stage(p) \/ Replace(p) \/ ReplaceFails(p) PROVE StoresOK'
  <2>1. p \in Running
    BY <1>4 DEF Stage, Replace, ReplaceFails, Running
  <2>2. mem[p] \in Graph
    BY <2>1 DEF TypeOK
  <2>3. Fields(mem[p]) \in Doc
    BY <2>2 DEF Fields, Graph, Doc
  <2>4. taken \in Docs \union {None}
    BY DEF TypeOK
  <2>5. CASE Stage(p)
    <3>1. tmp' \in {Fields(mem[p]), Torn} /\ UNCHANGED <<source, pages, extracted, graph, snap>>
      BY <2>5 DEF Stage
    <3> QED
      BY <1>0, <2>3, <3>1
  <2>6. CASE Replace(p)
    BY <1>0, <2>4, <2>6 DEF Replace
  <2>7. CASE ReplaceFails(p)
    <3>1. extracted' \in {extracted, None} /\ UNCHANGED <<source, pages, graph, snap, tmp>>
      BY <2>7 DEF ReplaceFails
    <3> QED
      BY <1>0, <3>1
  <2> QED
    BY <1>4, <2>5, <2>6, <2>7
<1>5. CASE User
  <2>1. CASE Rewrite
    BY <1>0, <2>1 DEF Rewrite
  <2>2. ASSUME NEW n \in Here, NEW t \in Names, Edit(n, [pages[n] EXCEPT !.title = t], IF SameTitle(t) THEN None ELSE t, typed.desc)
        PROVE  StoresOK'
    <3> pages[n] \in Page
      BY <1>0 DEF Here
    <3> [pages[n] EXCEPT !.title = t] \in Page
      BY DEF Page
    <3> QED
      BY <1>0, <2>2 DEF Edit
  <2>3. ASSUME NEW n \in Here, NEW d \in Descs,
               Edit(n, [pages[n] EXCEPT !.desc = d], typed.name,
                    IF SameDesc(d) THEN None ELSE ReadBack[d])
        PROVE  StoresOK'
    <3> pages[n] \in Page
      BY <1>0 DEF Here
    <3> [pages[n] EXCEPT !.desc = d] \in Page
      BY DEF Page
    <3> QED
      BY <1>0, <2>3 DEF Edit
  <2>4. ASSUME NEW n \in Here, NEW L \in SUBSET Links,
               Edit(n, [pages[n] EXCEPT !.notes = L], typed.name, typed.desc)
        PROVE  StoresOK'
    <3> pages[n] \in Page
      BY <1>0 DEF Here
    <3> [pages[n] EXCEPT !.notes = L] \in Page
      BY DEF Page
    <3> QED
      BY <1>0, <2>4 DEF Edit
  <2> QED
    BY <1>5, <2>1, <2>2, <2>3, <2>4 DEF User, Retitle, Redescribe, Annotate
<1>6. CASE KillCompile \/ KillEngine
  <2>1. /\ extracted' \in {extracted, None} /\ tmp' \in {tmp, None}
        /\ UNCHANGED <<source, pages, graph, snap>>
    BY <1>6 DEF KillCompile, KillEngine, Abandon
  <2> QED
    BY <1>0, <2>1
<1>7. ASSUME NEW p \in Pass, Pull(p) \/ Load(p) PROVE StoresOK'
  BY <1>1, <1>7 DEF Pull, Load
<1>8. CASE QueuedCompile \/ HandCompile
  BY <1>1, <1>8 DEF QueuedCompile, HandCompile, StartCompile
<1>9. CASE Look \/ Settle \/ Baseline \/ WatchSource \/ UNCHANGED vars
  BY <1>1, <1>9 DEF Look, Settle, Baseline, WatchSource, vars
<1> "compile" \in Pass /\ "sync" \in Pass
  BY DEF Pass
<1> QED
  BY <1>2, <1>3, <1>4, <1>5, <1>6, <1>7, <1>8, <1>9
     DEF Next, Compile, Watch, Steps

LEMMA PassesNext == TypeOK /\ [Next]_vars => PassesOK'
<1> SUFFICES ASSUME TypeOK, [Next]_vars PROVE PassesOK'
  OBVIOUS
<1> USE DEF PassesOK, passes, Begin, Goto, Leave, Stop, Running
<1> "compile" \in Pass /\ "sync" \in Pass /\ Pass = {"compile", "sync"}
  BY DEF Pass
<1>0. PassesOK /\ graph \in Graph /\ source \in Docs
  BY TypeParts DEF StoresOK
<1>a. None \notin Graph \union Docs
  BY VaultAssumption DEF VaultAssumption, Doc, Page
<1>1. CASE UNCHANGED passes
  BY <1>0, <1>1
<1>2. ASSUME NEW mode, StartCompile(mode) PROVE PassesOK'
  <2>1. source.name \in Names /\ source.desc \in Descs
    BY <1>0, VaultAssumption DEF VaultAssumption, Doc
  <2>2. (IF mode = "full" \/ source # extracted
         THEN [name |-> source.name, desc |-> source.desc,
               links |-> IF mode = "full" THEN {} ELSE graph.links]
         ELSE graph) \in Graph
    BY <2>1, <1>0 DEF Graph
  <2> QED
    BY <1>0, <1>a, <1>2, <2>2 DEF StartCompile
<1>3. CASE Look
  BY <1>0, <1>3 DEF Look
<1>4. CASE Settle
  BY <1>0, <1>a, <1>4 DEF Settle
<1>5. ASSUME NEW p \in Pass, Pull(p) PROVE PassesOK'
  <2>1. mem[p] \in Graph
    BY <1>0, <1>5 DEF Pull
  <2>2. Overlay(mem[p]) \in Graph
    BY <2>1, OverlayIsGraph
  <2>3. PICK next \in {"load", "publish"} : Begin(p, Overlay(mem[p]), next)
    BY <1>5 DEF Pull
  <2> QED
    BY <1>0, <1>a, <1>5, <2>2, <2>3 DEF Pull
<1>6. ASSUME NEW p \in Pass, Publish(p) PROVE PassesOK'
  BY <1>0, <1>6 DEF Publish
<1>7. ASSUME NEW p \in Pass, Load(p) PROVE PassesOK'
  BY <1>0, <1>a, <1>7 DEF Load
<1>8. ASSUME NEW p \in Pass, WritePage(p) PROVE PassesOK'
  BY <1>0, <1>8 DEF WritePage
<1>9. ASSUME NEW p \in Pass, Prune(p) PROVE PassesOK'
  BY <1>0, <1>9 DEF Prune
<1>10. ASSUME NEW p \in Pass, Stage(p) \/ Replace(p) \/ ReplaceFails(p) PROVE PassesOK'
  <2>1. CASE Stage(p)
    BY <1>0, <2>1 DEF Stage
  <2>2. CASE Replace(p)
    BY <1>0, <2>2 DEF Replace
  <2>3. CASE ReplaceFails(p)
    BY <1>0, <2>3 DEF ReplaceFails
  <2> QED
    BY <1>10, <2>1, <2>2, <2>3
<1>11. CASE Baseline
  BY <1>0, <1>11 DEF Baseline
<1>12. CASE KillCompile
  BY <1>0, <1>12 DEF KillCompile
<1>13. CASE KillEngine
  BY <1>0, <1>13 DEF KillEngine
<1>14. CASE WatchSource \/ User \/ UNCHANGED vars
  BY <1>1, <1>14
     DEF WatchSource, User, Retitle, Redescribe, Annotate, Edit, Rewrite, vars
<1> QED
  BY <1>2, <1>3, <1>4, <1>5, <1>6, <1>7, <1>8, <1>9, <1>10, <1>11, <1>12, <1>13, <1>14
     DEF Next, Compile, Watch, Steps, QueuedCompile, HandCompile

LEMMA WatcherNext == TypeOK /\ [Next]_vars => WatcherOK'
<1> SUFFICES ASSUME TypeOK, [Next]_vars PROVE WatcherOK'
  OBVIOUS
<1> USE DEF WatcherOK, watcher, Touch
<1>0. WatcherOK
  BY TypeParts
<1>1. CASE UNCHANGED watcher
  BY <1>0, <1>1
<1>2. ASSUME NEW p \in Pass, Steps(p) PROVE WatcherOK'
  BY <1>0, <1>2 DEF Steps, Pull, Publish, Load, WritePage, Prune, Stage, Replace, ReplaceFails
<1>3. CASE QueuedCompile \/ HandCompile
  BY <1>0, <1>3 DEF QueuedCompile, HandCompile, StartCompile
<1>4. CASE Look \/ Settle \/ Baseline \/ WatchSource
  BY <1>0, <1>4 DEF Look, Settle, Baseline, WatchSource
<1>5. CASE User
  BY <1>0, <1>5 DEF User, Retitle, Redescribe, Annotate, Edit, Rewrite
<1>6. CASE KillCompile \/ KillEngine \/ UNCHANGED vars
  BY <1>0, <1>6 DEF KillCompile, KillEngine, vars
<1> "compile" \in Pass /\ "sync" \in Pass
  BY DEF Pass
<1> QED
  BY <1>2, <1>3, <1>4, <1>5, <1>6 DEF Next, Compile, Watch

LEMMA HistoryNext == TypeOK /\ [Next]_vars => HistoryOK'
<1> SUFFICES ASSUME TypeOK, [Next]_vars PROVE HistoryOK'
  OBVIOUS
<1> USE DEF HistoryOK, history, tale, Leave, Stop
<1>0. HistoryOK
  BY TypeParts
<1>a. Untyped \in [name : Names \union {None}, desc : Descs \union {None}]
  BY DEF Untyped
<1>b. ReadBack \in [Descs -> Descs]
  BY VaultAssumption DEF VaultAssumption
<1>1. CASE UNCHANGED history
  BY <1>0, <1>1
<1>2. ASSUME NEW p \in Pass, Pull(p) PROVE HistoryOK'
  BY <1>0, <1>2 DEF Pull
<1>3. ASSUME NEW p \in Pass, Publish(p) \/ WritePage(p) \/ Prune(p) PROVE HistoryOK'
  BY <1>0, <1>a, <1>3 DEF Publish, WritePage, Prune, Races
<1>4. ASSUME NEW p \in Pass, Load(p) PROVE HistoryOK'
  BY <1>1, <1>4 DEF Load
<1>5. ASSUME NEW p \in Pass, Stage(p) \/ Replace(p) \/ ReplaceFails(p) PROVE HistoryOK'
  <2>1. CASE Stage(p)
    BY <1>1, <2>1 DEF Stage
  <2>2. CASE Replace(p)
    BY <1>0, <1>a, <2>2 DEF Replace
  <2>3. CASE ReplaceFails(p)
    BY <1>0, <2>3 DEF ReplaceFails
  <2> QED
    BY <1>5, <2>1, <2>2, <2>3
<1>6. CASE QueuedCompile \/ HandCompile \/ Look \/ Settle \/ WatchSource \/ UNCHANGED vars
  BY <1>0, <1>6 DEF QueuedCompile, HandCompile, StartCompile, Look, Settle, WatchSource, vars
<1>7. CASE Baseline \/ KillCompile \/ KillEngine
  BY <1>0, <1>7 DEF Baseline, KillCompile, KillEngine
<1>8. ASSUME NEW n, NEW page, NEW t \in Names \union {None}, NEW d \in Descs \union {None},
             Edit(n, page, t, d)
      PROVE  HistoryOK'
  <2>1. typed' \in [name : Names \union {None}, desc : Descs \union {None}]
    BY <1>a, <1>8 DEF Edit
  <2> QED
    BY <1>0, <1>8, <2>1 DEF Edit
<1>9. CASE Retitle
  BY <1>0, <1>8, <1>9 DEF Retitle
<1>10. CASE Redescribe
  BY <1>0, <1>b, <1>8, <1>10 DEF Redescribe
<1>11. CASE Annotate
  BY <1>0, <1>8, <1>11 DEF Annotate
<1>12. CASE Rewrite
  BY <1>1, <1>12 DEF Rewrite
<1> "compile" \in Pass /\ "sync" \in Pass
  BY DEF Pass
<1> QED
  BY <1>2, <1>3, <1>4, <1>5, <1>6, <1>7, <1>9, <1>10, <1>11, <1>12
     DEF Next, Compile, Watch, Steps, User

LEMMA SpentNext == TypeOK /\ [Next]_vars => SpentOK'
<1> SUFFICES ASSUME TypeOK, [Next]_vars PROVE SpentOK'
  OBVIOUS
<1> USE DEF SpentOK
<1>0. SpentOK /\ Edits \in Nat /\ Compiles \in Nat /\ Kills \in Nat
  BY TypeParts, VaultAssumption DEF VaultAssumption
<1>1. CASE UNCHANGED spent
  BY <1>0, <1>1
<1>2. CASE /\ spent.edits < Edits
           /\ spent' = [spent EXCEPT !.edits = @ + 1]
  BY <1>0, <1>2
<1>3. CASE /\ spent.compiles < Compiles
           /\ spent' = [spent EXCEPT !.compiles = @ + 1]
  BY <1>0, <1>3
<1>4. CASE /\ spent.kills < Kills
           /\ spent' = [spent EXCEPT !.kills = @ + 1]
  BY <1>0, <1>4
<1>5. ASSUME NEW p \in Pass, Steps(p) PROVE UNCHANGED spent
  BY <1>5 DEF Steps, Pull, Publish, Load, WritePage, Prune, Stage, Replace, ReplaceFails
<1>6. CASE QueuedCompile \/ Look \/ Settle \/ Baseline \/ WatchSource \/ UNCHANGED vars
  BY <1>1, <1>6 DEF QueuedCompile, Look, Settle, Baseline, WatchSource, vars
<1>7. CASE User
  BY <1>2, <1>7 DEF User, Retitle, Redescribe, Annotate, Edit, Rewrite
<1>8. CASE HandCompile
  BY <1>3, <1>8 DEF HandCompile
<1>9. CASE KillCompile \/ KillEngine
  BY <1>4, <1>9 DEF KillCompile, KillEngine
<1> "compile" \in Pass /\ "sync" \in Pass
  BY DEF Pass
<1> QED
  BY <1>1, <1>5, <1>6, <1>7, <1>8, <1>9 DEF Next, Compile, Watch

LEMMA TypeNext == TypeOK /\ [Next]_vars => TypeOK'
BY StoresNext, PassesNext, WatcherNext, HistoryNext, SpentNext
   DEF TypeOK, StoresOK, PassesOK, WatcherOK, HistoryOK, SpentOK

(* Every variable keeps its type, whatever passes overlap and are killed.   *)
THEOREM TypeCorrect == Spec => []TypeOK
BY TypeInit, TypeNext, PTL DEF Spec

-----------------------------------------------------------------------------
(* The notes. *)

LEMMA NotedIff ==
  ASSUME NEW l
  PROVE  l \in Noted <=> \E n \in Names : pages[n] # None /\ l \in pages[n].notes
BY DEF Noted, Here

(* A projection carries the notes of the page it replaces over to the new   *)
(* one.                                                                     *)
LEMMA WrittenKeepsNotes ==
  ASSUME TypeOK, NEW g \in Graph, pages' = Written(g)
  PROVE  Noted' = Noted
<1>0. None \notin Page
  BY VaultAssumption DEF VaultAssumption
<1>1. g.name \in Names
  BY DEF Graph
<1>2. [title |-> g.name, desc |-> g.desc,
       notes |-> IF pages[g.name] = None THEN {} ELSE pages[g.name].notes] \in Page
  <2> pages[g.name] \in Page \union {None} /\ g.desc \in Descs
    BY <1>1 DEF TypeOK, Graph
  <2> QED
    BY <1>1 DEF Page
<1>3. \A n \in Names : n # g.name => pages'[n] = pages[n]
  BY DEF Written, TypeOK
<1>4. /\ pages'[g.name] # None
      /\ pages'[g.name].notes = IF pages[g.name] = None THEN {} ELSE pages[g.name].notes
  BY <1>0, <1>1, <1>2 DEF Written, TypeOK
<1>5. ASSUME NEW l PROVE l \in Noted' <=> l \in Noted
  <2>1. l \in Noted' <=> \E n \in Names : pages'[n] # None /\ l \in pages'[n].notes
    BY DEF Noted, Here
  <2> QED
    BY <1>1, <1>3, <1>4, <2>1, NotedIff
<1> QED
  BY <1>5 DEF Noted

(* What is pruned holds none. *)
LEMMA PrunedKeepsNotes ==
  ASSUME TypeOK, NEW g \in Graph, pages' = Pruned(g)
  PROVE  Noted' = Noted
<1>1. \A n \in Names : \/ pages'[n] = pages[n]
                       \/ pages'[n] = None /\ pages[n].notes = {}
  BY DEF Pruned
<1>2. ASSUME NEW l PROVE l \in Noted' <=> l \in Noted
  <2>1. l \in Noted' <=> \E n \in Names : pages'[n] # None /\ l \in pages'[n].notes
    BY DEF Noted, Here
  <2> QED
    BY <1>1, <2>1, NotedIff
<1> QED
  BY <1>2 DEF Noted

LEMMA RunningIsTyped ==
  ASSUME TypeOK, NEW p \in Pass
  PROVE  /\ pc[p] \in {"pull", "publish", "load", "write", "prune", "snapshot", "replace"} =>
              p \in Running /\ mem[p] \in Graph
         /\ pc[p] \in {"write", "prune"} => disk[p] \in Graph
<1> p \in Running => mem[p] \in Graph
  BY DEF TypeOK
<1> QED
  BY DEF TypeOK, Running

LEMMA StepKeepsNotes == TypeOK /\ [Next]_vars => User \/ Noted' = Noted
<1> SUFFICES ASSUME TypeOK, [Next]_vars PROVE User \/ Noted' = Noted
  OBVIOUS
<1>1. CASE UNCHANGED pages
  BY <1>1 DEF Noted, Here
<1>2. ASSUME NEW p \in Pass, WritePage(p) PROVE Noted' = Noted
  BY <1>2, RunningIsTyped, WrittenKeepsNotes DEF WritePage
<1>3. ASSUME NEW p \in Pass, Prune(p) PROVE Noted' = Noted
  BY <1>3, RunningIsTyped, PrunedKeepsNotes DEF Prune
<1>4. ASSUME NEW p \in Pass,
             \/ Pull(p) \/ Publish(p) \/ Load(p)
             \/ Stage(p) \/ Replace(p) \/ ReplaceFails(p)
      PROVE  UNCHANGED pages
  BY <1>4 DEF Pull, Publish, Load, Stage, Replace, ReplaceFails
<1>5. CASE QueuedCompile \/ HandCompile \/ Look \/ Settle \/ Baseline
  BY <1>1, <1>5 DEF QueuedCompile, HandCompile, StartCompile, Look, Settle, Baseline
<1>6. CASE WatchSource \/ KillCompile \/ KillEngine \/ UNCHANGED vars
  BY <1>1, <1>6 DEF WatchSource, KillCompile, KillEngine, vars
<1> "compile" \in Pass /\ "sync" \in Pass
  BY DEF Pass
<1> QED
  BY <1>1, <1>2, <1>3, <1>4, <1>5, <1>6 DEF Next, Compile, Watch, Steps

(* No pass adds to the notes of the node's pages or takes from them,        *)
(* whatever overlaps, whatever is killed and however often the node is      *)
(* renamed.                                                                 *)
THEOREM NotesAreKept == Spec => NotesKept
<1>1. TypeOK /\ [Next]_vars => [User \/ Noted' = Noted]_vars
  BY StepKeepsNotes
<1> QED
  BY <1>1, TypeCorrect, PTL DEF Spec, NotesKept

-----------------------------------------------------------------------------
(* Agreement of the graph, the page and the snapshot.                       *)
(* SettledAgree is not inductive: what a pass leaves behind rests on what   *)
(* it found at each of its steps, and stays until a pass publishes.  A pass *)
(* that nobody raced has in memory what is published, links included, and   *)
(* on the page what it has in memory; between passes, and while the passes  *)
(* that run have only pulled, the three agree.                              *)

Beginning  == {"pull", "publish", "baseline"}
Projecting == {"load", "write", "prune", "snapshot", "replace"}

AgreeBefore == story = "settled" /\ (\A p \in Running : pc[p] \in Beginning) => Agree

OnPage(g) ==
  pages[g.name] # None /\ pages[g.name].title = g.name /\ pages[g.name].desc = g.desc

InStep(p) ==
  /\ pc[p] = "pull" /\ p = "sync" => mem[p] = graph
  /\ pc[p] = "publish" => mem[p].links = Noted
  /\ pc[p] \in Projecting => mem[p] = graph /\ mem[p].links = Noted
  /\ pc[p] \in {"write", "prune"} => disk[p] = mem[p]
  /\ pc[p] \in {"prune", "snapshot", "replace"} => OnPage(mem[p])

InSteps == \A p \in Pass : calm[p] # "raced" => InStep(p)
IInv    == TypeOK /\ AgreeBefore /\ InSteps

LEMMA InvInit == Init => AgreeBefore /\ InSteps
<1> SUFFICES ASSUME Init PROVE AgreeBefore /\ InSteps
  OBVIOUS
<1>1. First.name \in Names /\ First.desc \in Descs
  BY VaultAssumption DEF VaultAssumption, Doc
<1>2. /\ pages[First.name] = [title |-> First.name, desc |-> First.desc, notes |-> {}]
      /\ \A n \in Names : n # First.name => pages[n] = None
  BY <1>1 DEF Init
<1>3. [title |-> First.name, desc |-> First.desc, notes |-> {}] \in Page
  BY <1>1 DEF Page
<1>4. /\ pages[First.name] # None /\ pages[First.name].notes = {}
      /\ pages[First.name].title = First.name /\ pages[First.name].desc = First.desc
  <2>1. pages[First.name] \in Page /\ None \notin Page
    BY <1>2, <1>3, VaultAssumption DEF VaultAssumption
  <2>2. pages[First.name] # None
    BY <2>1
  <2> QED
    BY <1>2, <2>2
<1>5. \A l : l \notin Noted
  BY <1>2, <1>4, NotedIff
<1>6. Noted = {}
  BY <1>5
<1>7. graph.name = First.name /\ graph.desc = First.desc /\ graph.links = {}
  BY DEF Init
<1>8. snap = Fields(graph)
  <2>1. First = [name |-> First.name, desc |-> First.desc]
    BY VaultAssumption DEF VaultAssumption, Doc
  <2> QED
    BY <1>7, <2>1 DEF Fields, Init
<1>9. Agree
  BY <1>4, <1>6, <1>7, <1>8 DEF Agree
<1>10. ASSUME NEW p \in Pass PROVE InStep(p)
  <2> pc[p] = "idle"
    BY DEF Init
  <2> QED
    BY DEF InStep, Projecting
<1> QED
  BY <1>9, <1>10 DEF AgreeBefore, InSteps

(* What InStep and Agree say of a pass and of the stores does not change    *)
(* when nothing they mention does.                                          *)
LEMMA InStepStays ==
  ASSUME NEW p \in Pass, InStep(p), UNCHANGED <<graph, pages>>,
         pc'[p] = pc[p], mem'[p] = mem[p], disk'[p] = disk[p]
  PROVE  InStep(p)'
<1> Noted' = Noted
  BY DEF Noted, Here
<1> QED
  BY DEF InStep, OnPage, Projecting

LEMMA AgreeStays == UNCHANGED <<graph, pages, snap>> => Agree' = Agree
BY DEF Agree, Noted, Here, Fields

(* Who changes the graph or a page races the others that run. *)
LEMMA OthersRaced ==
  ASSUME TypeOK, NEW p \in Pass, NEW q \in Pass, q # p, NEW d,
         Races(p, d), calm'[q] # "raced", q \in Running
  PROVE  calm[q] # "raced" /\ ~ d
BY DEF Races, TypeOK

LEMMA NotRunningInStep ==
  ASSUME NEW p \in Pass, pc[p] \notin Projecting \union {"pull", "publish"}
  PROVE  InStep(p)
BY DEF InStep, Projecting

(* A pass that begins. *)
LEMMA BeginKeepsInSteps ==
  ASSUME TypeOK, InSteps,
         (\E mode : StartCompile(mode)) \/ Settle
  PROVE  InSteps'
<1> "compile" \in Pass /\ "sync" \in Pass /\ Pass = {"compile", "sync"}
  BY DEF Pass
<1>1. ASSUME NEW mode, StartCompile(mode) PROVE InSteps'
  <2>1. /\ pc'["compile"] = "pull" /\ pc'["sync"] = pc["sync"] /\ mem'["sync"] = mem["sync"]
        /\ UNCHANGED <<graph, pages, disk, calm>>
    BY <1>1 DEF StartCompile, Begin, Goto, TypeOK, stores, history
  <2>2. calm'["sync"] # "raced" => InStep("sync")'
    BY <2>1, InStepStays DEF InSteps
  <2>3. InStep("compile")'
    BY <2>1 DEF InStep, Projecting
  <2> QED
    BY <2>2, <2>3 DEF InSteps
<1>2. CASE Settle
  <2>1. /\ pc'["compile"] = pc["compile"] /\ mem'["compile"] = mem["compile"]
        /\ UNCHANGED <<graph, pages, disk, calm>>
    BY <1>2 DEF Settle, Begin, Goto, TypeOK, stores, history
  <2>2. calm'["compile"] # "raced" => InStep("compile")'
    BY <2>1, InStepStays DEF InSteps
  <2>3. \/ pc'["sync"] = "idle"
        \/ pc'["sync"] = "pull" /\ mem'["sync"] = graph'
    <3> mem \in [Pass -> Graph \union {None}] /\ DOMAIN pc = Pass
      BY DEF TypeOK
    <3> graph' = graph
      BY <1>2 DEF Settle, stores
    <3>1. CASE look = "moved"
      <4> pc' = [pc EXCEPT !["sync"] = "idle"]
        BY <1>2, <3>1 DEF Settle, Begin, Goto
      <4> QED
        BY DEF TypeOK
    <3>2. CASE look # "moved"
      <4> /\ pc' = [pc EXCEPT !["sync"] = "pull"]
          /\ mem' = [mem EXCEPT !["sync"] = graph]
        BY <1>2, <3>2 DEF Settle, Begin, Goto
      <4> QED
        BY DEF TypeOK
    <3> QED
      BY <3>1, <3>2
  <2>4. InStep("sync")'
    BY <2>3 DEF InStep, Projecting
  <2> QED
    BY <2>2, <2>4 DEF InSteps
<1> QED
  BY <1>1, <1>2

LEMMA PullKeepsInSteps ==
  ASSUME TypeOK, InSteps, NEW p \in Pass, Pull(p)
  PROVE  InSteps'
<1>1. /\ mem[p] \in Graph
      /\ mem'[p] = Overlay(mem[p]) /\ UNCHANGED <<graph, pages, disk>>
      /\ \/ pc'[p] = "publish"
         \/ pc'[p] = "load" /\ p = "sync" /\ Overlay(mem[p]) = mem[p]
      /\ pc[p] = "pull" /\ (calm'[p] # "raced" => calm[p] # "raced")
  BY RunningIsTyped DEF Pull, Begin, Goto, TypeOK, stores, history
<1>2. Noted' = Noted /\ mem'[p].links = Noted
  BY <1>1 DEF Noted, Here, Overlay
<1>3. calm'[p] # "raced" => InStep(p)'
  <2> SUFFICES ASSUME calm'[p] # "raced" PROVE InStep(p)'
    OBVIOUS
  <2>1. InStep(p)
    BY <1>1 DEF InSteps
  <2>2. CASE pc'[p] = "publish"
    BY <1>2, <2>2 DEF InStep, Projecting
  <2>3. CASE pc'[p] = "load" /\ p = "sync" /\ Overlay(mem[p]) = mem[p]
    <3>1. mem'[p] = graph'
      BY <1>1, <2>1, <2>3 DEF InStep
    <3> QED
      BY <1>2, <2>3, <3>1 DEF InStep, Projecting
  <2> QED
    BY <1>1, <2>2, <2>3
<1>4. ASSUME NEW q \in Pass, q # p, calm'[q] # "raced" PROVE InStep(q)'
  <2>1. calm'[q] = calm[q] /\ pc'[q] = pc[q] /\ mem'[q] = mem[q] /\ disk'[q] = disk[q]
    BY <1>4 DEF Pull, Begin, Goto, TypeOK, history
  <2> QED
    BY <1>1, <1>4, <2>1, InStepStays DEF InSteps
<1> QED
  BY <1>3, <1>4 DEF InSteps

LEMMA PublishKeepsInSteps ==
  ASSUME TypeOK, InSteps, NEW p \in Pass, Publish(p)
  PROVE  InSteps'
<1>1. /\ pc[p] = "publish" /\ pc'[p] = "load" /\ graph' = mem[p] /\ mem' = mem
      /\ UNCHANGED <<pages, disk>> /\ Races(p, mem[p] # graph)
  BY DEF Publish, Goto, TypeOK
<1>2. Noted' = Noted
  BY <1>1 DEF Noted, Here
<1>3. calm'[p] = calm[p]
  BY <1>1 DEF Races, TypeOK
<1>4. calm'[p] # "raced" => InStep(p)'
  <2> SUFFICES ASSUME calm'[p] # "raced" PROVE InStep(p)'
    OBVIOUS
  <2>1. mem[p].links = Noted
    BY <1>1, <1>3 DEF InSteps, InStep
  <2> QED
    BY <1>1, <1>2, <2>1 DEF InStep, Projecting
<1>5. ASSUME NEW q \in Pass, q # p, calm'[q] # "raced" PROVE InStep(q)'
  <2>1. pc'[q] = pc[q] /\ mem'[q] = mem[q] /\ disk'[q] = disk[q]
    BY <1>1, <1>5 DEF Publish, Goto, TypeOK
  <2>2. CASE q \in Running
    <3>1. calm[q] # "raced" /\ ~ (mem[p] # graph)
      BY <1>1, <1>5, <2>2, OthersRaced
    <3>2. InStep(q) /\ UNCHANGED <<graph, pages>>
      BY <1>1, <3>1 DEF InSteps
    <3> QED
      BY <2>1, <3>2, InStepStays
  <2>3. CASE q \notin Running
    BY <2>1, <2>3 DEF Running, InStep, Projecting
  <2> QED
    BY <2>2, <2>3
<1> QED
  BY <1>4, <1>5 DEF InSteps

LEMMA LoadKeepsInSteps ==
  ASSUME TypeOK, InSteps, NEW p \in Pass, Load(p)
  PROVE  InSteps'
<1>1. /\ pc[p] = "load" /\ pc'[p] = "write" /\ disk'[p] = graph
      /\ UNCHANGED <<graph, pages, mem, calm>>
  BY DEF Load, Goto, TypeOK, stores, history
<1>2. Noted' = Noted
  BY <1>1 DEF Noted, Here
<1>3. calm'[p] # "raced" => InStep(p)'
  <2> SUFFICES ASSUME calm'[p] # "raced" PROVE InStep(p)'
    OBVIOUS
  <2>1. mem[p] = graph /\ mem[p].links = Noted
    BY <1>1 DEF InSteps, InStep, Projecting
  <2> QED
    BY <1>1, <1>2, <2>1 DEF InStep, Projecting
<1>4. ASSUME NEW q \in Pass, q # p, calm'[q] # "raced" PROVE InStep(q)'
  <2>1. pc'[q] = pc[q] /\ mem'[q] = mem[q] /\ disk'[q] = disk[q]
    BY <1>4 DEF Load, Goto, TypeOK
  <2> QED
    BY <1>1, <1>4, <2>1, InStepStays DEF InSteps
<1> QED
  BY <1>3, <1>4 DEF InSteps

LEMMA WriteKeepsInSteps ==
  ASSUME TypeOK, InSteps, NEW p \in Pass, WritePage(p)
  PROVE  InSteps'
<1>1. /\ pc[p] = "write" /\ pc'[p] = "prune" /\ pages' = Written(disk[p])
      /\ UNCHANGED <<graph, mem, disk>> /\ Races(p, pages' # pages)
  BY DEF WritePage, Goto, TypeOK, stores
<1>2. mem[p] \in Graph /\ disk[p] \in Graph
  BY <1>1, RunningIsTyped
<1>3. Noted' = Noted
  BY <1>1, <1>2, WrittenKeepsNotes
<1>4. calm'[p] = calm[p]
  BY <1>1 DEF Races, TypeOK
<1>5. calm'[p] # "raced" => InStep(p)'
  <2> SUFFICES ASSUME calm'[p] # "raced" PROVE InStep(p)'
    OBVIOUS
  <2>1. mem[p] = graph /\ mem[p].links = Noted /\ disk[p] = mem[p]
    BY <1>1, <1>4 DEF InSteps, InStep, Projecting
  <2>2. OnPage(mem[p])'
    <3> DEFINE g == mem[p]
               page == [title |-> g.name, desc |-> g.desc,
                        notes |-> IF pages[g.name] = None THEN {} ELSE pages[g.name].notes]
    <3>1. g.name \in Names
      BY <1>2 DEF Graph
    <3>2. pages'[g.name] = page
      BY <1>1, <2>1, <3>1 DEF Written, TypeOK
    <3>3. page \in Page
      <4> pages[g.name] \in Page \union {None} /\ g.desc \in Descs
        BY <1>2, <3>1 DEF TypeOK, Graph
      <4> QED
        BY <3>1 DEF Page
    <3>4. page # None
      BY <3>3, VaultAssumption DEF VaultAssumption
    <3>5. page.title = g.name /\ page.desc = g.desc
      OBVIOUS
    <3> HIDE DEF page
    <3> QED
      BY <1>1, <3>2, <3>4, <3>5 DEF OnPage
  <2> QED
    BY <1>1, <1>3, <2>1, <2>2 DEF InStep, Projecting
<1>6. ASSUME NEW q \in Pass, q # p, calm'[q] # "raced" PROVE InStep(q)'
  <2>1. pc'[q] = pc[q] /\ mem'[q] = mem[q] /\ disk'[q] = disk[q]
    BY <1>1, <1>6 DEF WritePage, Goto, TypeOK
  <2>2. CASE q \in Running
    <3>1. calm[q] # "raced" /\ ~ (pages' # pages)
      BY <1>1, <1>6, <2>2, OthersRaced
    <3>2. InStep(q) /\ UNCHANGED <<graph, pages>>
      BY <1>1, <3>1 DEF InSteps
    <3> QED
      BY <2>1, <3>2, InStepStays
  <2>3. CASE q \notin Running
    BY <2>1, <2>3 DEF Running, InStep, Projecting
  <2> QED
    BY <2>2, <2>3
<1> QED
  BY <1>5, <1>6 DEF InSteps

LEMMA PruneKeepsInSteps ==
  ASSUME TypeOK, InSteps, NEW p \in Pass, Prune(p)
  PROVE  InSteps'
<1>1. /\ pc[p] = "prune" /\ pc'[p] = "snapshot" /\ pages' = Pruned(disk[p])
      /\ UNCHANGED <<graph, mem>> /\ Races(p, pages' # pages)
  BY DEF Prune, Goto, TypeOK, stores
<1>2. mem[p] \in Graph /\ disk[p] \in Graph
  BY <1>1, RunningIsTyped
<1>3. Noted' = Noted
  BY <1>1, <1>2, PrunedKeepsNotes
<1>4. calm'[p] = calm[p]
  BY <1>1 DEF Races, TypeOK
<1>5. calm'[p] # "raced" => InStep(p)'
  <2> SUFFICES ASSUME calm'[p] # "raced" PROVE InStep(p)'
    OBVIOUS
  <2>1. mem[p] = graph /\ mem[p].links = Noted /\ disk[p] = mem[p] /\ OnPage(mem[p])
    BY <1>1, <1>4 DEF InSteps, InStep, Projecting
  <2>2. mem[p].name \in Names /\ pages'[mem[p].name] = pages[mem[p].name]
    BY <1>1, <1>2, <2>1 DEF Pruned, Graph
  <2>3. OnPage(mem[p])'
    BY <1>1, <2>1, <2>2 DEF OnPage
  <2> QED
    BY <1>1, <1>3, <2>1, <2>3 DEF InStep, Projecting
<1>6. ASSUME NEW q \in Pass, q # p, calm'[q] # "raced" PROVE InStep(q)'
  <2>1. pc'[q] = pc[q] /\ mem'[q] = mem[q] /\ disk'[q] = disk[q]
    BY <1>1, <1>6 DEF Prune, Goto, TypeOK
  <2>2. CASE q \in Running
    <3>1. calm[q] # "raced" /\ ~ (pages' # pages)
      BY <1>1, <1>6, <2>2, OthersRaced
    <3>2. InStep(q) /\ UNCHANGED <<graph, pages>>
      BY <1>1, <3>1 DEF InSteps
    <3> QED
      BY <2>1, <3>2, InStepStays
  <2>3. CASE q \notin Running
    BY <2>1, <2>3 DEF Running, InStep, Projecting
  <2> QED
    BY <2>2, <2>3
<1> QED
  BY <1>5, <1>6 DEF InSteps

(* A pass that ends, or is killed, and the others as they were. *)
LEMMA StopKeepsInSteps ==
  ASSUME TypeOK, InSteps, NEW p \in Pass, NEW at \in {"idle", "dead"}, Stop(p, at),
         UNCHANGED <<graph, pages>>
  PROVE  InSteps'
<1>1. pc'[p] = at
  BY DEF Stop, Begin, Goto, TypeOK
<1>2. InStep(p)'
  BY <1>1 DEF InStep, Projecting
<1>3. ASSUME NEW q \in Pass, q # p, calm'[q] # "raced" PROVE InStep(q)'
  <2>1. /\ pc'[q] = pc[q] /\ mem'[q] = mem[q] /\ disk'[q] = disk[q]
        /\ calm'[q] = calm[q]
    BY <1>3 DEF Stop, Begin, Goto, TypeOK
  <2> QED
    BY <1>3, <2>1, InStepStays DEF InSteps
<1> QED
  BY <1>2, <1>3 DEF InSteps

LEMMA StageKeepsInSteps ==
  ASSUME TypeOK, InSteps, NEW p \in Pass, Stage(p)
  PROVE  InSteps'
<1>1. /\ pc[p] = "snapshot" /\ pc'[p] = "replace"
      /\ UNCHANGED <<graph, pages, mem, disk, calm>>
  BY DEF Stage, Goto, TypeOK, history
<1>2. Noted' = Noted
  BY <1>1 DEF Noted, Here
<1>3. calm'[p] # "raced" => InStep(p)'
  <2> SUFFICES ASSUME calm'[p] # "raced" PROVE InStep(p)'
    OBVIOUS
  <2>1. mem[p] = graph /\ mem[p].links = Noted /\ OnPage(mem[p])
    BY <1>1 DEF InSteps, InStep, Projecting
  <2> QED
    BY <1>1, <1>2, <2>1 DEF InStep, Projecting, OnPage
<1>4. ASSUME NEW q \in Pass, q # p, calm'[q] # "raced" PROVE InStep(q)'
  <2>1. pc'[q] = pc[q] /\ mem'[q] = mem[q] /\ disk'[q] = disk[q]
    BY <1>1, <1>4 DEF Stage, Goto, TypeOK
  <2> QED
    BY <1>1, <1>4, <2>1, InStepStays DEF InSteps
<1> QED
  BY <1>3, <1>4 DEF InSteps

LEMMA ReplaceKeepsInSteps ==
  ASSUME TypeOK, InSteps, NEW p \in Pass, Replace(p)
  PROVE  InSteps'
<1>1. CASE p = "compile"
  BY <1>1, StopKeepsInSteps DEF Replace, Leave
<1>2. CASE p # "compile"
  <2>1. Goto(p, "baseline") /\ UNCHANGED <<graph, pages, mem, disk, calm>>
    BY <1>2 DEF Replace
  <2>2. pc'[p] = "baseline"
    BY <2>1 DEF Goto, TypeOK
  <2>3. InStep(p)'
    BY <2>2 DEF InStep, Projecting
  <2>4. ASSUME NEW q \in Pass, q # p, calm'[q] # "raced" PROVE InStep(q)'
    <3>1. pc'[q] = pc[q]
      BY <2>1, <2>4 DEF Goto, TypeOK
    <3> QED
      BY <2>1, <2>4, <3>1, InStepStays DEF InSteps
  <2> QED
    BY <2>3, <2>4 DEF InSteps
<1> QED
  BY <1>1, <1>2

(* An edit races every running pass that is past its pull. *)
LEMMA EditKeepsInSteps ==
  ASSUME TypeOK, InSteps, NEW n, NEW page, NEW t, NEW d, Edit(n, page, t, d)
  PROVE  InSteps' /\ story' # "settled"
<1>1. story' # "settled"
  BY DEF Edit, TypeOK
<1>2. UNCHANGED <<graph, pc, mem, disk>>
  BY DEF Edit, stores, passes
<1>3. ASSUME NEW p \in Pass, calm'[p] # "raced" PROVE InStep(p)'
  <2>1. ~ (p \in Running /\ pc[p] # "pull") /\ calm[p] # "raced"
    BY <1>3 DEF Edit, TypeOK
  <2>2. InStep(p)
    BY <2>1 DEF InSteps
  <2> QED
    BY <1>2, <2>1, <2>2 DEF InStep, Running, Projecting
<1> QED
  BY <1>1, <1>3 DEF InSteps

LEMMA InStepsNext == TypeOK /\ InSteps /\ [Next]_vars => InSteps'
<1> SUFFICES ASSUME TypeOK, InSteps, [Next]_vars PROVE InSteps'
  OBVIOUS
<1> "compile" \in Pass /\ "sync" \in Pass
  BY DEF Pass
<1>1. ASSUME NEW p \in Pass, Steps(p) PROVE InSteps'
  BY <1>1, PullKeepsInSteps, PublishKeepsInSteps, LoadKeepsInSteps, WriteKeepsInSteps,
     PruneKeepsInSteps, StageKeepsInSteps, ReplaceKeepsInSteps, StopKeepsInSteps
     DEF Steps, ReplaceFails
<1>2. CASE QueuedCompile \/ HandCompile \/ Settle
  BY <1>2, BeginKeepsInSteps DEF QueuedCompile, HandCompile
<1>3. CASE Look
  <2>1. /\ pc' = [pc EXCEPT !["sync"] = "settle"]
        /\ UNCHANGED <<graph, pages, mem, disk, calm>>
    BY <1>3 DEF Look, Goto, stores, history
  <2>2. ASSUME NEW p \in Pass, calm'[p] # "raced" PROVE InStep(p)'
    <3>1. CASE p = "sync"
      BY <2>1, <3>1 DEF InStep, Projecting, TypeOK
    <3>2. CASE p # "sync"
      <4> pc'[p] = pc[p]
        BY <2>1, <3>2 DEF TypeOK
      <4> QED
        BY <2>1, <2>2, InStepStays DEF InSteps
    <3> QED
      BY <3>1, <3>2
  <2> QED
    BY <2>2 DEF InSteps
<1>4. CASE Baseline \/ KillCompile \/ KillEngine
  BY <1>4, StopKeepsInSteps DEF Baseline, KillCompile, KillEngine, Leave, stores
<1>5. CASE WatchSource \/ Rewrite \/ UNCHANGED vars
  <2>1. UNCHANGED <<graph, pages, pc, mem, disk, calm>>
    BY <1>5 DEF WatchSource, Rewrite, vars, stores, passes, history
  <2> QED
    BY <2>1, InStepStays DEF InSteps
<1>6. CASE Retitle \/ Redescribe \/ Annotate
  BY <1>6, EditKeepsInSteps DEF Retitle, Redescribe, Annotate
<1> QED
  BY <1>1, <1>2, <1>3, <1>4, <1>5, <1>6 DEF Next, Compile, Watch, User

(* The three agree once a pass has ended that nobody raced, and nothing but *)
(* an edit, a kill or the publish of a pass ends it.                        *)
LEMMA AgreeBeforeNext == TypeOK /\ AgreeBefore /\ InSteps /\ [Next]_vars => AgreeBefore'
<1> SUFFICES ASSUME TypeOK, AgreeBefore, InSteps, [Next]_vars,
                    story' = "settled", \A q \in Running' : pc'[q] \in Beginning
             PROVE  Agree'
  BY DEF AgreeBefore
<1> "compile" \in Pass /\ "sync" \in Pass /\ Pass = {"compile", "sync"}
  BY DEF Pass
<1> USE DEF Beginning, Running
(* A step that leaves the stores and the story alone, and every pass that   *)
(* is past its beginning where it was.                                      *)
<1>1. ASSUME UNCHANGED <<graph, pages, snap, story>>,
             \A q \in Pass : \/ pc'[q] = pc[q]
                            \/ pc[q] \in {"idle", "settle", "dead"} \union Beginning
      PROVE  Agree'
  BY <1>1, AgreeStays DEF AgreeBefore
<1>2. ASSUME NEW p \in Pass, Pull(p) PROVE Agree'
  BY <1>1, <1>2 DEF Pull, Begin, Goto, stores, history, TypeOK
<1>3. ASSUME NEW p \in Pass,
             Publish(p) \/ Load(p) \/ WritePage(p) \/ Prune(p) \/ Stage(p) \/ ReplaceFails(p)
      PROVE  FALSE
  BY <1>3 DEF Publish, Load, WritePage, Prune, Stage, ReplaceFails, Goto, TypeOK
<1>4. ASSUME NEW p \in Pass, Replace(p) PROVE Agree'
  <2>1. pc[p] = "replace" /\ snap' = tmp /\ UNCHANGED <<graph, pages>>
    BY <1>4 DEF Replace
  <2>2. calm[p] # "raced" /\ tmp = Fields(mem[p])
    BY <1>4, <2>1 DEF Replace
  <2>3. mem[p] = graph /\ mem[p].links = Noted /\ OnPage(mem[p])
    BY <2>1, <2>2 DEF InSteps, InStep, Projecting
  <2>4. Noted' = Noted
    BY <2>1 DEF Noted, Here
  <2> QED
    BY <2>1, <2>2, <2>3, <2>4 DEF Agree, OnPage, Fields
<1>5. CASE QueuedCompile \/ HandCompile
  BY <1>1, <1>5 DEF QueuedCompile, HandCompile, StartCompile, Begin, Goto, stores, history, TypeOK
<1>6. CASE Look \/ Settle \/ Baseline
  BY <1>1, <1>6 DEF Look, Settle, Baseline, Leave, Stop, Begin, Goto, stores, tale, history, TypeOK
<1>7. CASE WatchSource \/ Rewrite \/ UNCHANGED vars
  BY <1>1, <1>7 DEF WatchSource, Rewrite, stores, passes, tale, history, vars
<1>8. CASE Retitle \/ Redescribe \/ Annotate
  BY <1>8, EditKeepsInSteps DEF Retitle, Redescribe, Annotate
<1>9. CASE KillCompile \/ KillEngine
  BY <1>9 DEF KillCompile, KillEngine
<1> QED
  BY <1>2, <1>3, <1>4, <1>5, <1>6, <1>7, <1>8, <1>9 DEF Next, Compile, Watch, Steps, User

LEMMA InvCorrect == Spec => []IInv
<1>1. Init => IInv
  BY TypeInit, InvInit DEF IInv
<1>2. IInv /\ [Next]_vars => IInv'
  BY TypeNext, InStepsNext, AgreeBeforeNext DEF IInv
<1> QED
  BY <1>1, <1>2, PTL DEF Spec

(* The graph, the page and the snapshot agree whenever nothing runs and the *)
(* last pass was one that nobody raced, after any number of edits, compiles *)
(* and kills before it.                                                     *)
THEOREM AgreeWhenSettled == Spec => []SettledAgree
<1>1. IInv => SettledAgree
  BY DEF IInv, AgreeBefore, SettledAgree
<1> QED
  BY <1>1, InvCorrect, PTL

-----------------------------------------------------------------------------
(* A page that was only projected overrides nothing: the node's page has    *)
(* the name and, read as it was written, the description of the snapshot.   *)
LEMMA PullOverridesNothing ==
  ASSUME IInv, OnePage, ReadsAsWritten, NEW p \in Pass, Pull(p),
         story = "settled", Running = {p}
  PROVE  Fields(mem'[p]) = Fields(mem[p])
<1>1. Agree
  BY DEF IInv, AgreeBefore, Pull, Beginning
<1>2. graph.name \in Here /\ snap.name = graph.name /\ snap.desc = graph.desc
  BY <1>1 DEF Agree, Here, IInv, TypeOK, Graph, Fields
<1>3. Here = {graph.name}
  BY <1>2 DEF OnePage
<1>4. Retitled = {} /\ Redescribed = {}
  BY <1>1, <1>2, <1>3 DEF Retitled, Redescribed, SameTitle, SameDesc, Agree, ReadsAsWritten
<1>5. mem'[p] = Overlay(mem[p])
  BY DEF Pull, Begin, IInv, TypeOK
<1> QED
  BY <1>4, <1>5 DEF Overlay, Fields

(* A pull that runs alone after a settled pass overrides nothing, so an     *)
(* unedited page never wins over what the document says.                    *)
THEOREM RoundTripIsStable == Spec => RoundTripStable
<1>1. IInv => [OnePage /\ ReadsAsWritten => \A p \in Pass : RoundTrip(p)]_vars
  BY PullOverridesNothing DEF RoundTrip
<1> QED
  BY <1>1, InvCorrect, PTL DEF RoundTripStable
-----------------------------------------------------------------------------
(* What the user typed.                                                     *)
(* EditIsApplied speaks of the end of a pass, which takes up to six steps   *)
(* from the edit, of this pass or, after a kill, of the next.  What was     *)
(* typed differs from the snapshot, so that a pull does not miss it; it is  *)
(* on every page of the node, so that it does not matter which page a pull  *)
(* reads last; and it is in the memory of every pass that has pulled.  No   *)
(* pass that runs was raced, and one that does not run never is.            *)

Past == {p \in Running : pc[p] # "pull"}

RestingCalm == \A p \in Pass \ Running : calm[p] = "calm"

Undisturbed == typed # Untyped => Here # {} /\ \A p \in Running : calm[p] # "raced"

TypedName ==
  typed.name # None =>
    /\ ~ SameTitle(typed.name)
    /\ \A n \in Here : pages[n].title = typed.name
    /\ \A p \in Past : mem[p].name = typed.name

TypedDesc ==
  typed.desc # None =>
    /\ snap # Torn /\ typed.desc # snap.desc
    /\ ReadBack[typed.desc] = typed.desc
    /\ \A n \in Here : ReadBack[pages[n].desc] = typed.desc
    /\ \A p \in Past : mem[p].desc = typed.desc

TypedInv == Undisturbed /\ TypedName /\ TypedDesc

(* A description that was read from a page is read the same when it is      *)
(* projected again.                                                         *)
ReadsBackSame == \A d \in Descs : ReadBack[ReadBack[d]] = ReadBack[d]

LEMMA NothingTyped == typed = Untyped => TypedInv
BY DEF TypedInv, Undisturbed, TypedName, TypedDesc, Untyped

LEMMA TypedIsTyped ==
  ASSUME TypeOK, typed.name # None \/ typed.desc # None
  PROVE  typed # Untyped
BY DEF Untyped

(* A step that leaves the pages, the snapshot and what was typed alone, and *)
(* of every pass that goes on what it has in memory.                        *)
LEMMA TypedStays ==
  ASSUME TypedInv, UNCHANGED <<pages, snap, typed>>,
         \A q \in Running' : /\ calm'[q] = "raced" => q \in Running /\ calm[q] = "raced"
                             /\ pc'[q] = "pull" \/ (q \in Past /\ mem'[q] = mem[q])
  PROVE  TypedInv'
<1>1. Here' = Here
  BY DEF Here
<1>2. Undisturbed'
  BY <1>1 DEF TypedInv, Undisturbed, Untyped
<1>3. \A q \in Past' : q \in Past /\ mem'[q] = mem[q]
  BY DEF Past
<1>4. TypedName'
  BY <1>1, <1>3 DEF TypedInv, TypedName, SameTitle
<1>5. TypedDesc'
  BY <1>1, <1>3 DEF TypedInv, TypedDesc
<1> QED
  BY <1>2, <1>4, <1>5 DEF TypedInv

(* Who changes what another running pass has read ends what was typed. *)
LEMMA RacesOrNot ==
  ASSUME NEW p, NEW d, Races(p, d)
  PROVE  typed' = Untyped \/ (typed' = typed /\ calm' = calm)
BY DEF Races

LEMMA OverlayTakesTyped ==
  ASSUME TypeOK, TypedInv, NEW g
  PROVE  /\ typed.name # None => Overlay(g).name = typed.name
         /\ typed.desc # None => Overlay(g).desc = typed.desc
<1>1. Here # {} => LastPath[Here] \in Here
  BY VaultAssumption DEF VaultAssumption, Here
<1>2. ASSUME typed.name # None PROVE Overlay(g).name = typed.name
  <2>1. Here # {}
    BY <1>2, TypedIsTyped DEF TypedInv, Undisturbed
  <2>2. Retitled = Here
    BY <1>2 DEF TypedInv, TypedName, Retitled, SameTitle
  <2> QED
    BY <1>1, <1>2, <2>1, <2>2 DEF Overlay, TypedInv, TypedName
<1>3. ASSUME typed.desc # None PROVE Overlay(g).desc = typed.desc
  <2>1. Here # {}
    BY <1>3, TypedIsTyped DEF TypedInv, Undisturbed
  <2>2. Redescribed = Here
    BY <1>3 DEF TypedInv, TypedDesc, Redescribed, SameDesc
  <2> QED
    BY <1>1, <1>3, <2>1, <2>2 DEF Overlay, TypedInv, TypedDesc
<1> QED
  BY <1>2, <1>3

LEMMA PullKeepsTyped ==
  ASSUME TypeOK, TypedInv, NEW p \in Pass, Pull(p)
  PROVE  TypedInv'
<1>1. /\ mem'[p] = Overlay(mem[p]) /\ UNCHANGED <<pages, snap, typed, calm>>
      /\ p \in Running /\ p \in Running'
      /\ \A q \in Pass : q # p => pc'[q] = pc[q] /\ mem'[q] = mem[q]
  BY DEF Pull, Begin, Goto, TypeOK, stores, history, Running
<1>2. Here' = Here
  BY <1>1 DEF Here
<1>3. \A q \in Pass : q \in Running' <=> q \in Running
  BY <1>1 DEF Running
<1>4. Undisturbed'
  BY <1>1, <1>2, <1>3 DEF TypedInv, Undisturbed, Untyped, Running
<1>5. \A q \in Past' : q = p \/ (q \in Past /\ mem'[q] = mem[q])
  BY <1>1, <1>3 DEF Past, Running
<1>6. TypedName'
  BY <1>1, <1>2, <1>5, OverlayTakesTyped DEF TypedInv, TypedName, SameTitle
<1>7. TypedDesc'
  BY <1>1, <1>2, <1>5, OverlayTakesTyped DEF TypedInv, TypedDesc
<1> QED
  BY <1>4, <1>6, <1>7 DEF TypedInv

(* The page a pass writes is what it has in memory, and so what was typed.  *)
LEMMA WriteKeepsTyped ==
  ASSUME TypeOK, InSteps, TypedInv, NEW p \in Pass, WritePage(p)
  PROVE  TypedInv'
<1>1. /\ pc[p] = "write" /\ pages' = Written(disk[p]) /\ UNCHANGED <<snap, mem, disk>>
      /\ pc' = [pc EXCEPT ![p] = "prune"]
  BY DEF WritePage, Goto, stores
<1>2. typed' = Untyped \/ (typed' = typed /\ calm' = calm)
  BY RacesOrNot DEF WritePage
<1>3. SUFFICES ASSUME typed # Untyped, typed' = typed, calm' = calm PROVE TypedInv'
  <2> typed' = Untyped => TypedInv'
    BY DEF TypedInv, Undisturbed, TypedName, TypedDesc, Untyped
  <2> QED
    BY <1>2 DEF Untyped
<1>4. p \in Past /\ \A q \in Pass : (q \in Past' <=> q \in Past) /\ (q \in Running' <=> q \in Running)
  BY <1>1 DEF Past, Running, TypeOK
<1>5. calm[p] # "raced"
  BY <1>3, <1>4 DEF TypedInv, Undisturbed, Past
<1>6. disk[p] = mem[p]
  BY <1>1, <1>5 DEF InSteps, InStep
<1>7. mem[p] \in Graph /\ mem[p].name \in Names /\ mem[p].desc \in Descs
  BY <1>1, RunningIsTyped DEF Graph
<1>8. /\ pages'[mem[p].name] # None
      /\ pages'[mem[p].name].title = mem[p].name /\ pages'[mem[p].name].desc = mem[p].desc
  <2> DEFINE g == mem[p]
             page == [title |-> g.name, desc |-> g.desc,
                      notes |-> IF pages[g.name] = None THEN {} ELSE pages[g.name].notes]
  <2>1. pages'[g.name] = page
    BY <1>1, <1>6, <1>7 DEF Written, TypeOK
  <2>2. page \in Page
    <3> pages[g.name] \in Page \union {None}
      BY <1>7 DEF TypeOK
    <3> QED
      BY <1>7 DEF Page
  <2>3. page # None
    BY <2>2, VaultAssumption DEF VaultAssumption
  <2>4. page.title = g.name /\ page.desc = g.desc
    OBVIOUS
  <2> HIDE DEF page
  <2> QED
    BY <2>1, <2>3, <2>4
<1>9. \A n \in Names : n # mem[p].name => pages'[n] = pages[n]
  BY <1>1, <1>6 DEF Written, TypeOK
<1>10. mem[p].name \in Here' /\ \A n \in Here' : n = mem[p].name \/ (n \in Here /\ pages'[n] = pages[n])
  BY <1>7, <1>8, <1>9 DEF Here
<1>11. Undisturbed'
  BY <1>3, <1>4, <1>10 DEF TypedInv, Undisturbed, Running
<1>12. TypedName'
  BY <1>1, <1>3, <1>4, <1>8, <1>10 DEF TypedInv, TypedName, SameTitle, Past, Running
<1>13. TypedDesc'
  BY <1>1, <1>3, <1>4, <1>8, <1>10 DEF TypedInv, TypedDesc, Past, Running
<1> QED
  BY <1>11, <1>12, <1>13 DEF TypedInv

(* The page of the name a pass projected is never pruned by it. *)
LEMMA PruneKeepsTyped ==
  ASSUME TypeOK, InSteps, TypedInv, NEW p \in Pass, Prune(p)
  PROVE  TypedInv'
<1>1. /\ pc[p] = "prune" /\ pages' = Pruned(disk[p]) /\ UNCHANGED <<snap, mem>>
      /\ pc' = [pc EXCEPT ![p] = "snapshot"]
  BY DEF Prune, Goto, stores
<1>2. typed' = Untyped \/ (typed' = typed /\ calm' = calm)
  BY RacesOrNot DEF Prune
<1>3. SUFFICES ASSUME typed # Untyped, typed' = typed, calm' = calm PROVE TypedInv'
  <2> typed' = Untyped => TypedInv'
    BY DEF TypedInv, Undisturbed, TypedName, TypedDesc, Untyped
  <2> QED
    BY <1>2 DEF Untyped
<1>4. p \in Past /\ \A q \in Pass : (q \in Past' <=> q \in Past) /\ (q \in Running' <=> q \in Running)
  BY <1>1 DEF Past, Running, TypeOK
<1>5. calm[p] # "raced"
  BY <1>3, <1>4 DEF TypedInv, Undisturbed, Past
<1>6. disk[p] = mem[p] /\ OnPage(mem[p])
  BY <1>1, <1>5 DEF InSteps, InStep
<1>7. mem[p].name \in Names
  BY <1>1, RunningIsTyped DEF Graph
<1>8. \A n \in Names : pages'[n] = pages[n] \/ pages'[n] = None
  BY <1>1 DEF Pruned
<1>9. mem[p].name \in Here'
  <2> pages'[mem[p].name] = pages[mem[p].name]
    BY <1>1, <1>6, <1>7 DEF Pruned
  <2> QED
    BY <1>6, <1>7 DEF OnPage, Here
<1>10. \A n \in Here' : n \in Here /\ pages'[n] = pages[n]
  BY <1>8 DEF Here
<1>11. Undisturbed'
  BY <1>3, <1>4, <1>9 DEF TypedInv, Undisturbed, Running
<1>12. TypedName'
  BY <1>1, <1>3, <1>4, <1>10 DEF TypedInv, TypedName, SameTitle, Past, Running
<1>13. TypedDesc'
  BY <1>1, <1>3, <1>4, <1>10 DEF TypedInv, TypedDesc, Past, Running
<1> QED
  BY <1>11, <1>12, <1>13 DEF TypedInv

(* An edit that counts is of the node's only page, while every pass that    *)
(* runs has yet to pull.                                                    *)
LEMMA EditKeepsTyped ==
  ASSUME TypeOK, TypedInv, NEW n \in Here, NEW page \in Page,
         NEW t, NEW d, Edit(n, page, t, d),
         t # None => ~ SameTitle(t) /\ page.title = t,
         d # None => snap # Torn /\ d # snap.desc /\ ReadBack[page.desc] = d /\ ReadBack[d] = d
  PROVE  TypedInv'
<1>1. CASE Late \/ ~ OnePage
  <2> typed' = Untyped
    BY <1>1 DEF Edit
  <2> QED
    BY DEF TypedInv, Undisturbed, TypedName, TypedDesc, Untyped
<1>2. CASE ~ Late /\ OnePage
  <2>1. /\ typed' = [name |-> t, desc |-> d] /\ pages' = [pages EXCEPT ![n] = page]
        /\ UNCHANGED <<snap, pc>>
    BY <1>2 DEF Edit, stores, passes
  <2>2. Running' = Running /\ \A p \in Running : pc[p] = "pull" /\ calm[p] # "raced"
    BY <1>2, <2>1 DEF Late, Running
  <2>3. Past' = {}
    BY <2>1, <2>2 DEF Past
  <2>4. \A p \in Running' : calm'[p] # "raced"
    BY <2>2 DEF Edit, Running, TypeOK
  <2>5. Here = {n} /\ n \in Names
    BY <1>2 DEF OnePage, Here
  <2>6. page # None
    BY VaultAssumption DEF VaultAssumption
  <2>7. pages'[n] = page /\ \A m \in Names : m # n => pages'[m] = pages[m]
    BY <2>1, <2>5 DEF TypeOK
  <2>8. n \in Here' /\ \A m \in Here' : m = n
    BY <2>5, <2>6, <2>7 DEF Here
  <2>9. Undisturbed'
    BY <2>4, <2>8 DEF Undisturbed
  <2>10. TypedName'
    BY <2>1, <2>3, <2>7, <2>8 DEF TypedName, SameTitle
  <2>11. TypedDesc'
    BY <2>1, <2>3, <2>7, <2>8 DEF TypedDesc
  <2> QED
    BY <2>9, <2>10, <2>11 DEF TypedInv
<1> QED
  BY <1>1, <1>2

LEMMA UserKeepsTyped ==
  ASSUME TypeOK, TypedInv, ReadsBackSame, Retitle \/ Redescribe \/ Annotate
  PROVE  TypedInv'
<1>1. \A n \in Here : pages[n] \in Page
  BY DEF Here, TypeOK
<1>2. CASE Retitle
  <2>1. PICK n \in Here, t \in Names :
          Edit(n, [pages[n] EXCEPT !.title = t], IF SameTitle(t) THEN None ELSE t, typed.desc)
    BY <1>2 DEF Retitle
  <2>2. [pages[n] EXCEPT !.title = t] \in Page
    BY <1>1 DEF Page
  <2>3. [pages[n] EXCEPT !.title = t].title = t /\ [pages[n] EXCEPT !.title = t].desc = pages[n].desc
    BY <1>1 DEF Page
  <2> QED
    BY <2>1, <2>2, <2>3, EditKeepsTyped DEF TypedInv, TypedDesc
<1>3. CASE Redescribe
  <2>1. PICK n \in Here, d \in Descs :
          Edit(n, [pages[n] EXCEPT !.desc = d], typed.name,
               IF SameDesc(d) THEN None ELSE ReadBack[d])
    BY <1>3 DEF Redescribe
  <2>2. [pages[n] EXCEPT !.desc = d] \in Page
    BY <1>1 DEF Page
  <2>3. [pages[n] EXCEPT !.desc = d].desc = d /\ [pages[n] EXCEPT !.desc = d].title = pages[n].title
    BY <1>1 DEF Page
  <2> QED
    BY <2>1, <2>2, <2>3, EditKeepsTyped DEF TypedInv, TypedName, SameDesc, ReadsBackSame
<1>4. CASE Annotate
  <2>1. PICK n \in Here, L \in SUBSET Links :
          Edit(n, [pages[n] EXCEPT !.notes = L], typed.name, typed.desc)
    BY <1>4 DEF Annotate
  <2>2. [pages[n] EXCEPT !.notes = L] \in Page
    BY <1>1 DEF Page
  <2>3. /\ [pages[n] EXCEPT !.notes = L].title = pages[n].title
        /\ [pages[n] EXCEPT !.notes = L].desc = pages[n].desc
    BY <1>1 DEF Page
  <2> QED
    BY <2>1, <2>2, <2>3, EditKeepsTyped DEF TypedInv, TypedName, TypedDesc
<1> QED
  BY <1>2, <1>3, <1>4

LEMMA TypedNext ==
  ASSUME ReadsBackSame, TypeOK, InSteps, RestingCalm, TypedInv, [Next]_vars
  PROVE  TypedInv'
<1> "compile" \in Pass /\ "sync" \in Pass /\ Pass = {"compile", "sync"}
  BY DEF Pass
<1> typed' = Untyped => TypedInv'
  BY DEF TypedInv, Undisturbed, TypedName, TypedDesc, Untyped
<1>1. ASSUME NEW p \in Pass, Publish(p) \/ Load(p) \/ Stage(p) PROVE TypedInv'
  <2>1. /\ UNCHANGED <<pages, snap, mem>> /\ p \in Past
        /\ \A q \in Pass : pc'[q] = IF q = p THEN pc'[p] ELSE pc[q]
        /\ pc'[p] \in {"load", "write", "replace"}
        /\ typed' = Untyped \/ (typed' = typed /\ calm' = calm)
    BY <1>1, RacesOrNot DEF Publish, Load, Stage, Goto, stores, history, TypeOK, Past, Running
  <2> QED
    BY <2>1, TypedStays DEF Past, Running
<1>2. ASSUME NEW p \in Pass, Replace(p) PROVE TypedInv'
  BY <1>2 DEF Replace
<1>3. ASSUME NEW p \in Pass, Pull(p) \/ WritePage(p) \/ Prune(p) PROVE TypedInv'
  BY <1>3, PullKeepsTyped, WriteKeepsTyped, PruneKeepsTyped
<1>4. CASE QueuedCompile \/ HandCompile \/ Look \/ Settle
  <2>1. /\ UNCHANGED <<pages, snap, typed, calm>>
        /\ \A q \in Pass : \/ pc'[q] = pc[q] /\ mem'[q] = mem[q]
                           \/ pc'[q] \in {"idle", "settle", "dead"}
                           \/ pc'[q] = "pull" /\ q \notin Running
    BY <1>4 DEF QueuedCompile, HandCompile, StartCompile, Look, Settle, Begin, Goto, stores,
                history, TypeOK, Running
  <2>2. \A q \in Running' : /\ calm'[q] = "raced" => q \in Running /\ calm[q] = "raced"
                            /\ pc'[q] = "pull" \/ (q \in Past /\ mem'[q] = mem[q])
    BY <2>1 DEF RestingCalm, Running, Past
  <2> QED
    BY <2>1, <2>2, TypedStays
<1>5. CASE Baseline \/ KillCompile \/ KillEngine \/ \E p \in Pass : ReplaceFails(p)
  <2>1. PICK p \in Pass, at \in {"idle", "dead"} : Stop(p, at) /\ UNCHANGED <<pages, snap, typed>>
    BY <1>5 DEF Baseline, KillCompile, KillEngine, ReplaceFails, Leave, stores
  <2>2. \A q \in Running' : q # p /\ q \in Running /\ calm'[q] = calm[q] /\ mem'[q] = mem[q] /\ pc'[q] = pc[q]
    BY <2>1 DEF Stop, Begin, Goto, Running, TypeOK
  <2>3. \A q \in Running' : /\ calm'[q] = "raced" => q \in Running /\ calm[q] = "raced"
                            /\ pc'[q] = "pull" \/ (q \in Past /\ mem'[q] = mem[q])
    BY <2>2 DEF Past
  <2> QED
    BY <2>1, <2>3, TypedStays
<1>6. CASE WatchSource \/ Rewrite \/ UNCHANGED vars
  <2>1. UNCHANGED <<pages, snap, typed, calm, pc, mem>>
    BY <1>6 DEF WatchSource, Rewrite, vars, stores, passes, history
  <2> QED
    BY <2>1, TypedStays DEF Past, Running
<1> QED
  BY <1>1, <1>2, <1>3, <1>4, <1>5, <1>6, UserKeepsTyped DEF Next, Compile, Watch, Steps, User

LEMMA RestingCalmNext == TypeOK /\ RestingCalm /\ [Next]_vars => RestingCalm'
<1> SUFFICES ASSUME TypeOK, RestingCalm, [Next]_vars, NEW q \in Pass, q \notin Running'
             PROVE  calm'[q] = "calm"
  BY DEF RestingCalm, Running
<1> "compile" \in Pass /\ "sync" \in Pass /\ Pass = {"compile", "sync"}
  BY DEF Pass
<1>0. q \in Running \/ calm[q] = "calm"
  BY DEF RestingCalm
<1>1. ASSUME NEW p \in Pass, Pull(p) \/ Publish(p) \/ Load(p) \/ WritePage(p) \/ Prune(p)
      PROVE  calm'[q] = "calm"
  <2>1. q \notin Running
    BY <1>1 DEF Pull, Publish, Load, WritePage, Prune, Begin, Goto, TypeOK, Running
  <2> QED
    BY <1>0, <1>1, <2>1 DEF Pull, Publish, Load, WritePage, Prune, Races, history
<1>2. ASSUME NEW p \in Pass, NEW at, Stop(p, at) PROVE calm'[q] = "calm"
  BY <1>0, <1>2 DEF Stop, Begin, Goto, TypeOK, Running
<1>3. ASSUME NEW p \in Pass, Stage(p) \/ Replace(p) \/ ReplaceFails(p) PROVE calm'[q] = "calm"
  <2>1. CASE Stage(p)
    BY <1>0, <2>1 DEF Stage, Goto, history, TypeOK, Running
  <2>2. CASE Replace(p) /\ p = "compile"
    BY <1>2, <2>2 DEF Replace, Leave
  <2>3. CASE Replace(p) /\ p # "compile"
    BY <1>0, <2>3 DEF Replace, Goto, TypeOK, Running
  <2>4. CASE ReplaceFails(p)
    BY <1>2, <2>4 DEF ReplaceFails
  <2> QED
    BY <1>3, <2>1, <2>2, <2>3, <2>4
<1>4. CASE QueuedCompile \/ HandCompile \/ Look \/ Settle \/ WatchSource \/ Rewrite \/ UNCHANGED vars
  BY <1>0, <1>4 DEF QueuedCompile, HandCompile, StartCompile, Look, Settle, WatchSource, Rewrite,
                    Begin, Goto, history, passes, vars, TypeOK, Running
<1>5. CASE Baseline \/ KillCompile \/ KillEngine
  BY <1>2, <1>5 DEF Baseline, KillCompile, KillEngine, Leave
<1>6. ASSUME NEW n, NEW page, NEW t, NEW d, Edit(n, page, t, d) PROVE calm'[q] = "calm"
  BY <1>0, <1>6 DEF Edit, passes, Running
<1> QED
  BY <1>1, <1>3, <1>4, <1>5, <1>6
     DEF Next, Compile, Watch, Steps, User, Retitle, Redescribe, Annotate

LEMMA TypedCorrect ==
  ASSUME ReadsBackSame
  PROVE  Spec => [](RestingCalm /\ TypedInv)
<1>1. Init => RestingCalm /\ TypedInv
  BY NothingTyped DEF Init, RestingCalm
<1>2. IInv /\ RestingCalm /\ TypedInv /\ [Next]_vars => (RestingCalm /\ TypedInv)'
  BY TypedNext, RestingCalmNext DEF IInv
<1> QED
  BY <1>1, <1>2, InvCorrect, PTL DEF Spec

(* A pass that nobody raced ends with what it pulled in the graph. *)
LEMMA ReplacedHasTyped ==
  ASSUME TypeOK, InSteps, TypedInv, NEW p \in Pass, Replace(p)
  PROVE  /\ typed.name # None => graph.name = typed.name
         /\ typed.desc # None => graph.desc = typed.desc
<1>1. pc[p] = "replace" /\ p \in Past /\ p \in Running
  BY DEF Replace, Past, Running
<1>2. typed # Untyped => mem[p] = graph
  BY <1>1 DEF TypedInv, Undisturbed, InSteps, InStep, Projecting
<1> QED
  BY <1>1, <1>2, TypedIsTyped DEF TypedInv, TypedName, TypedDesc

(* An edit that was saved while no pass had pulled is in the graph when the *)
(* next pass ends, for any names and descriptions, whatever the document    *)
(* says and however many passes were killed on the way, provided that what  *)
(* is read from a page is read the same when it is projected again.         *)
THEOREM EditsAreApplied == ReadsBackSame /\ Spec => EditIsApplied
<1>1. SUFFICES ASSUME ReadsBackSame PROVE Spec => EditIsApplied
  BY DEF ReadsBackSame
<1>2. IInv /\ TypedInv => [\A p \in Pass : Replace(p) =>
                             /\ typed.name # None => graph.name = typed.name
                             /\ typed.desc # None => graph.desc = typed.desc]_vars
  BY ReplacedHasTyped DEF IInv
<1>3. Spec => [](RestingCalm /\ TypedInv)
  BY <1>1, TypedCorrect
<1> QED
  BY <1>2, <1>3, InvCorrect, PTL DEF EditIsApplied
-----------------------------------------------------------------------------
(* Nothing is forgotten.                                                    *)
(* NothingForgotten is not inductive: a compile that ends sets what was     *)
(* extracted to what it took when it began, so a save during the compile    *)
(* has to be noticed already then; and a reprojection that takes its        *)
(* baseline has pulled every edit that the watch had an eye for.            *)
DocumentKept ==
  /\ lost = "no" /\ source # extracted =>
       Noticed \/ ("compile" \in Running /\ taken = source)
  /\ lost = "no" /\ "compile" \in Running /\ taken # source => Noticed

EditKept ==
  /\ unread = "yes" => seen = "new"
  /\ Blind => unread = "no"

ForgottenInv == DocumentKept /\ EditKept

LEMMA DocumentKeptNext == TypeOK /\ DocumentKept /\ [Next]_vars => DocumentKept'
<1> SUFFICES ASSUME TypeOK, DocumentKept, [Next]_vars PROVE DocumentKept'
  OBVIOUS
<1> "compile" \in Pass /\ "sync" \in Pass /\ Pass = {"compile", "sync"}
  BY DEF Pass
<1> USE DEF DocumentKept, Noticed
(* A step that has nothing to do with the documents or the source watch,    *)
(* and neither begins nor ends a compile.                                   *)
<1>1. ASSUME UNCHANGED <<source, extracted, taken, watched, queued, lost>>,
             "compile" \in Running' <=> "compile" \in Running
      PROVE  DocumentKept'
  BY <1>1
<1>2. ASSUME NEW p \in Pass,
             Pull(p) \/ Publish(p) \/ Load(p) \/ WritePage(p) \/ Prune(p) \/ Stage(p)
      PROVE  DocumentKept'
  <2>1. UNCHANGED <<source, extracted, taken, watched, queued, lost>>
    BY <1>2 DEF Pull, Publish, Load, WritePage, Prune, Stage, Touch, stores, watcher, tale, history
  <2>2. /\ \A q \in Pass : q # p => pc'[q] = pc[q]
        /\ p \in Running /\ p \in Running'
    BY <1>2 DEF Pull, Publish, Load, WritePage, Prune, Stage, Begin, Goto, TypeOK, Running
  <2>3. "compile" \in Running' <=> "compile" \in Running
    BY <2>2 DEF Running
  <2> QED
    BY <1>1, <2>1, <2>3
<1>3. ASSUME NEW p \in Pass, Replace(p) PROVE DocumentKept'
  <2>1. UNCHANGED <<source, watched, queued, lost>>
    BY <1>3 DEF Replace, watcher
  <2>2. CASE p = "compile"
    <3>1. extracted' = taken /\ "compile" \in Running /\ "compile" \notin Running'
      BY <1>3, <2>2 DEF Replace, Leave, Stop, Begin, Goto, TypeOK, Running
    <3> QED
      BY <2>1, <3>1
  <2>3. CASE p = "sync"
    <3>1. UNCHANGED <<extracted, taken>> /\ ("compile" \in Running' <=> "compile" \in Running)
      BY <1>3, <2>3 DEF Replace, Goto, TypeOK, Running
    <3> QED
      BY <2>1, <3>1
  <2> QED
    BY <2>2, <2>3
<1>4. ASSUME NEW p \in Pass, ReplaceFails(p) PROVE DocumentKept'
  <2>1. CASE p = "compile"
    BY <1>4, <2>1 DEF ReplaceFails
  <2>2. CASE p = "sync"
    <3>1. UNCHANGED <<source, extracted, taken, watched, queued, lost>>
      BY <1>4, <2>2 DEF ReplaceFails
    <3>2. "compile" \in Running' <=> "compile" \in Running
      BY <1>4, <2>2 DEF ReplaceFails, Stop, Begin, Goto, TypeOK, Running
    <3> QED
      BY <1>1, <3>1, <3>2
  <2> QED
    BY <2>1, <2>2
<1>5. CASE QueuedCompile \/ HandCompile
  <2>1. PICK mode : StartCompile(mode)
    BY <1>5 DEF QueuedCompile, HandCompile
  <2>2. "compile" \in Running' /\ taken' = source /\ UNCHANGED source
    BY <2>1 DEF StartCompile, Begin, Goto, TypeOK, Running
  <2> QED
    BY <2>2
<1>6. CASE Look \/ Settle
  <2>1. UNCHANGED <<source, extracted, taken, watched, queued, lost>>
    BY <1>6 DEF Look, Settle, stores, watcher, tale, history
  <2>2. "compile" \in Running' <=> "compile" \in Running
    BY <1>6 DEF Look, Settle, Begin, Goto, TypeOK, Running
  <2> QED
    BY <1>1, <2>1, <2>2
<1>7. CASE Baseline
  <2>1. UNCHANGED <<source, extracted, taken, watched, lost>>
    BY <1>7 DEF Baseline, stores, tale
  <2>2. queued = "paths" => queued' = "paths"
    BY <1>7 DEF Baseline
  <2>3. "compile" \in Running' <=> "compile" \in Running
    BY <1>7 DEF Baseline, Leave, Stop, Begin, Goto, TypeOK, Running
  <2> QED
    BY <2>1, <2>2, <2>3
<1>8. CASE WatchSource
  BY <1>8 DEF WatchSource
<1>9. ASSUME NEW n, NEW page, NEW t, NEW d, Edit(n, page, t, d) PROVE DocumentKept'
  BY <1>1, <1>9 DEF Edit, Touch, stores, passes, Running
<1>10. CASE Rewrite
  BY <1>10 DEF Rewrite
<1>11. CASE KillCompile \/ KillEngine
  BY <1>11 DEF KillCompile, KillEngine
<1>12. CASE UNCHANGED vars
  BY <1>1, <1>12 DEF vars, stores, passes, watcher, tale, history, Running
<1> QED
  BY <1>2, <1>3, <1>4, <1>5, <1>6, <1>7, <1>8, <1>9, <1>10, <1>11, <1>12
     DEF Next, Compile, Watch, Steps, User, Retitle, Redescribe, Annotate

LEMMA EditKeptNext == TypeOK /\ EditKept /\ [Next]_vars => EditKept'
<1> SUFFICES ASSUME TypeOK, EditKept, [Next]_vars PROVE EditKept'
  OBVIOUS
<1> "compile" \in Pass /\ "sync" \in Pass /\ Pass = {"compile", "sync"}
  BY DEF Pass
<1> USE DEF EditKept, Blind
(* A step of the watch within the reprojection, or of anybody else.         *)
<1>1. ASSUME UNCHANGED unread, seen' = "new" \/ seen' = seen, Blind' => Blind
      PROVE  EditKept'
  BY <1>1
<1>2. ASSUME NEW p \in Pass, Pull(p) PROVE EditKept'
  BY <1>2 DEF Pull
<1>3. ASSUME NEW p \in Pass,
             Publish(p) \/ Load(p) \/ WritePage(p) \/ Prune(p) \/ Stage(p) \/ Replace(p)
      PROVE  EditKept'
  <2>1. UNCHANGED unread
    BY <1>3 DEF Publish, Load, WritePage, Prune, Stage, Replace, tale, history
  <2>2. seen' = "new" \/ seen' = seen
    BY <1>3 DEF Publish, Load, WritePage, Prune, Stage, Replace, Touch, watcher
  <2>3. CASE p = "compile"
    <3> pc'["sync"] = pc["sync"]
      BY <1>3, <2>3
         DEF Publish, Load, WritePage, Prune, Stage, Replace, Leave, Stop, Begin, Goto, TypeOK
    <3> QED
      BY <1>1, <2>1, <2>2
  <2>4. CASE p = "sync"
    <3> Blind
      BY <1>3, <2>4 DEF Publish, Load, WritePage, Prune, Stage, Replace
    <3> QED
      BY <1>1, <2>1, <2>2
  <2> QED
    BY <2>3, <2>4
<1>4. ASSUME NEW p \in Pass, ReplaceFails(p) PROVE EditKept'
  <2>1. UNCHANGED unread
    BY <1>4 DEF ReplaceFails
  <2>2. CASE p = "compile"
    <3> pc'["sync"] = pc["sync"] /\ UNCHANGED seen
      BY <1>4, <2>2 DEF ReplaceFails, Stop, Begin, Goto, TypeOK
    <3> QED
      BY <1>1, <2>1
  <2>3. CASE p = "sync"
    <3> Blind
      BY <1>4, <2>3 DEF ReplaceFails
    <3> QED
      BY <2>1
  <2> QED
    BY <2>2, <2>3
<1>5. CASE QueuedCompile \/ HandCompile
  <2>1. PICK mode : StartCompile(mode)
    BY <1>5 DEF QueuedCompile, HandCompile
  <2>2. pc'["sync"] = pc["sync"] /\ UNCHANGED <<unread, seen>>
    BY <2>1 DEF StartCompile, Begin, Goto, TypeOK
  <2> QED
    BY <1>1, <2>2
<1>6. CASE Look \/ Settle
  <2>1. UNCHANGED <<unread, seen>>
    BY <1>6 DEF Look, Settle, watcher, tale, history
  <2>2. ~ Blind'
    BY <1>6 DEF Look, Settle, Begin, Goto, TypeOK
  <2> QED
    BY <1>1, <2>1, <2>2
<1>7. CASE Baseline
  <2>1. UNCHANGED unread /\ Blind
    BY <1>7 DEF Baseline, tale
  <2> QED
    BY <2>1
<1>8. ASSUME NEW n, NEW page, NEW t, NEW d, Edit(n, page, t, d) PROVE EditKept'
  <2>1. /\ pc' = pc /\ unread' = (IF Blind THEN "no" ELSE "yes")
        /\ seen' = IF pc["sync"] = "dead" THEN seen ELSE "new"
    BY <1>8 DEF Edit, Touch, passes
  <2> QED
    BY <2>1
<1>9. CASE KillCompile
  <2> pc'["sync"] = pc["sync"] /\ UNCHANGED <<unread, seen>>
    BY <1>9 DEF KillCompile, Leave, Stop, Begin, Goto, TypeOK, watcher
  <2> QED
    BY <1>1
<1>10. CASE KillEngine
  BY <1>10 DEF KillEngine
<1>11. CASE WatchSource \/ Rewrite \/ UNCHANGED vars
  <2> UNCHANGED <<pc, unread, seen>>
    BY <1>11 DEF WatchSource, Rewrite, vars, passes, watcher, tale, history
  <2> QED
    BY <1>1
<1> QED
  BY <1>2, <1>3, <1>4, <1>5, <1>6, <1>7, <1>8, <1>9, <1>10, <1>11
     DEF Next, Compile, Watch, Steps, User, Retitle, Redescribe, Annotate

(* What the user saves is somebody's to take up, under every interleaving   *)
(* of saves, watchers, compiles, reprojections, failures and kills: but for *)
(* a document whose compile failed or was killed and that no compile has    *)
(* read since, and for an edit saved when the vault watch was between its   *)
(* pull and its baseline, dead or killed.                                   *)
THEOREM SavesAreNotForgotten == Spec => []NothingForgotten
<1>1. Init => ForgottenInv
  BY DEF Init, ForgottenInv, DocumentKept, EditKept, Blind, Running, Pass
<1>2. ForgottenInv => NothingForgotten
  BY DEF ForgottenInv, DocumentKept, EditKept, NothingForgotten
<1>3. TypeOK /\ ForgottenInv /\ [Next]_vars => ForgottenInv'
  BY DocumentKeptNext, EditKeptNext DEF ForgottenInv
<1> QED
  BY <1>1, <1>2, <1>3, TypeCorrect, PTL DEF Spec
=============================================================================
