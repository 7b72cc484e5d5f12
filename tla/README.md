# Tesserae: specifications, model checks and proofs

Tesserae compiles a project's sources and the sessions of coding agents into a
graph (`.tesserae/graph.json`) and keeps it fresh with a background engine.
This directory holds TLA+ specifications of the parts of it whose correctness
depends on order, interleaving, crashes or time, the TLC configurations that
check them and the TLAPS proofs about them.  Paths below are relative to the
repository root; `tesserae/x.py` is the Python module.

## 1. The system

| Component | State it keeps | Operations | Hard behaviour |
|---|---|---|---|
| Engine trigger loop (`engine/daemon.py`) | asyncio queue, pending paths, debounce task, back-off, stop event | enqueue, coalesce, debounce, run pipeline, defer, drain, stop | source threads against the loop thread, cancel and re-schedule, shutdown |
| Compile gate and consolidation (`engine/daemon.py`, `engine/fleet.py`) | one semaphore per process (`compile_slots` permits in a fleet), `_pipeline_pending` per unit, brief back-off | gate a compile, run a sleep-cycle pass, abandon a budget | a pass in the gate while a compile waits, publishers that take no permit, flags that latch |
| Engine identity (`engine/pidlock.py`, `engine/daemon.py`, `engine/fleet.py`) | pidfile, lease, heartbeat | claim, renew, reclaim a stale file, remove | two starters at once, a late heartbeat, shared disks |
| Compile lock and write journal (`locking.py`) | flock on `compile.lock`, holder record, journal records, temp files | acquire with a deadline, journaled write, recover | crash between any two file operations, several writers |
| Incremental compile (`project.py`, `batch.py`, `entity_resolution.py`) | manifest (sha per source, `graphed`), graph, provenance sidecar | scan, extract, tombstone, merge, resolve entities, publish, stamp | crash between the manifest and the graph, edits during a compile, a caller's narrow path set |
| Fleet supervisor (`engine/fleet.py`) | units and their threads, stop event, pidfiles | reconcile, start, stop, once over all, stop now | registry changes while units stop, names that exchange projects, signals on the main thread |
| Source watchers (`watch.py`, `vault_watch.py`) | last snapshot / fingerprint | poll, settle, trigger, take the baseline again | edits that land during a rebuild, a rebuild that looks like an edit |
| Vault projection and pull (`vault_pull.py`, `vault_snapshot.py`, `markdown_projection.py`, `project.py`) | pages with the user's notes, snapshot, graph | pull overrides and notes, publish, project, prune, write the snapshot | a compile and the watcher's reprojection at once without a common lock and with one temporary snapshot file, edits in between, kills |
| Session tailer (`engine/session_tail.py`) | per-file offsets, scan floor | poll, parse complete lines, persist, enqueue | partial lines, rotation, crash between store and offset |
| Agent write log (`agent_write.py`) | JSONL log, graph overlay | append, replay, dedupe | append against compile |
| Memory (`memory/*.py`, `dream.py`) | notes, ledgers, journals | supersede, reconcile, decay, reinforce, dream | idempotent replay after a crash |
| LLM access (`llm_json.py`) | accounts, cool-downs, cache | rotate, retry, cache | retry of what was done |
| Site publishing (`site/*`) | staged and live directories | render, exchange | crash between two renames |
| Query, retrieval, MCP server, CLI, extraction, rendering | indexes and prompts | read, rank, format | mostly sequential |

The parts meet in few places.  Sources (watchers, the tailer, the proactive
fetcher) call `Daemon.enqueue`; the loop calls `ProjectWiki.compile`, which
takes the compile lock that human `tesserae compile` runs and other hosts
compete for; the vault watcher's reprojection changes the same graph, pages and
snapshot without that lock, and what it changes makes the engine compile;
consolidation shares the compile gate with the loop and, in a
fleet, with every other unit; all artefacts are published through the journal.

## 2. Modules

| Module | Models | With |
|---|---|---|
| `OwedWork` | what the trigger loop promises: a set of owed triggers that attempts take over | |
| `DaemonLoop` | `Daemon.enqueue`, `run`, `_drain_loop`, `_debounce_and_run`, `_run_pipeline`, `_defer`, `_handle_signal`, `request_stop` | `MCDaemonLoop`, `DaemonLoopProofs` |
| `CompileGate` | `_run_pipeline` and `_gate_for_pipeline` against `_consolidation_tick` and its budgets | `MCCompileGate`, `CompileGateProofs` |
| `BriefBackoff` | the candidates, strikes and back-off of `_brief_once` over many ticks | `MCBriefBackoff` |
| `PidLease` | `Daemon._write_pidfile` / `_remove_pidfile`, the fleet's under its flock, `owner_is_alive`, `renew`, `LeaseHeartbeat` | `MCPidLease`, `PidLeaseProofs` |
| `FleetUnits` | `FleetDaemon.reconcile`, `_start_unit`, `_stop_unit`, `run`, `_run_once_over_registry`, the signal handlers, and a unit's claim of its project's pidfile | `MCFleetUnits`, `FleetUnitsProofs` |
| `AtomicFile` | what `journaled_write` promises: a file that is replaced in one step and survives a power loss once its writer was told | |
| `JournaledWrite` | `compile_lock`, `journaled_write`, `recover_journal` | `MCJournaledWrite`, `JournaledWriteProofs` |
| `IncrementalCompile` | `ProjectWiki._ingest`, `BatchIngestRunner`, the provenance tables | `MCIncrementalCompile`, `IncrementalCompileProofs` |
| `SessionTail` | `SessionTailer`, `HarnessSessionsDB.upsert_with_offset`, `record_live_turns` | `MCSessionTail`, `SessionTailProofs` |
| `VaultSync` | `_apply_vault_overlay`, `export_obsidian`, `_prune_orphaned_vault_pages`, `write_snapshot` and `reproject_after_vault_change`, with `VaultWatcher` and the engine's vault and source watches | `MCVaultSync`, `VaultSyncProofs` |

A `MC` module gives the constants values for TLC; a `Proofs` module holds the
theorems.  The modules share no variable, and where two of them meet, one has
the other's visible behaviour as an input: the compile of `DaemonLoop` is a run
that ends or finds the lock held, the compile of `CompileGate` is a stretch of
time under the semaphore, the writes of `IncrementalCompile` are atomic because
`JournaledWrite` implements `AtomicFile`, and a transcript in `SessionTail` ends in
a trigger, which is `Enqueue` in `DaemonLoop`.  A unit of `FleetUnits` is a
daemon that looks, writes, runs and removes, which `DaemonLoop` and `PidLease`
have in detail.  `QueuedCompile` of `VaultSync` is an attempt of `DaemonLoop`, and
its `queued` says whether any trigger of that batch named a path.

A small definition that serves only to say another one (`There`, `End`, `Tracked`,
`Leave`) is not in the map of `PROJECT.json`, nor are the outside actors whose
step is not about this code (`OtherStarts`, `PowerLoss`).

### DaemonLoop

One action is one stretch of the loop thread without an `await`; `pc` says
which.  Source threads (`Enqueue`, `PutNowait`: `call_soon_threadsafe` is two
steps), signals (`SignalArrives`, `HandleSignal`) and the fleet (`RequestStop`)
interleave with it.  The queue is a set of paths, since two triggers of the same
paths are merged anyway; "no path", the trigger of the sources that name none,
is an item of its own, as the loop remembers it in `run_pending`.  The sleeps
are counters that `Tick` runs down.  A second signal raises `SystemExit` in
whatever the main thread does (`StopNow`).  `mode` is `once` or `service`.

### CompileGate

`inside` are the runs and ticks that have a permit of the semaphore, of which there
are `Slots`: one for an engine on its own, `compile_slots` in a fleet.  A run goes
through `asked`, `blocked`, `owns`, `runs`, `leaves`; `raised` is a run torn down
by a second signal while it waits. A tick goes through `due`, the operations of a
pass, `release` and `stamp`.  A call is decided on in one step and begins in the
next, because the flag is read before the call is awaited.  `loaded` says what
became of the graph the tick loaded: a pipeline run of the same engine published
another (`stale`), or a compile in another process did (`foreign`), or the engine's
own vault source, which takes no permit (`VaultPublishes`; `daemon.py:1007`,
`project.py:3388`).  Durations and prompts are left out, and the dream pass, which
is off by default, too.

### BriefBackoff

A tick is a scan of the domains in a fixed rank.  `failing` are those whose brief
never succeeds, of which the run has several sets.  What a domain needs a call for,
or is spared one for (a warm cache, an unchanged roster), is a choice.

### PidLease

A pid and its start time are one incarnation, so a process of the model never
starts twice; `PidOf` are the pids, and those of two hosts may be the same.  Looking
at the record and judging its owner is one step.  A recycled pid only widens
"alive" (`MayJudgeAlive`).  Time is the beat, a third of the lease.  `kind` chooses
between the daemon's pidfile, which is looked at and then written, and the
fleet's, which is created with `O_EXCL` and reclaimed under a flock.  A fleet that
ends compares the record's pid with its own and not the host (`fleet.py:431`).  The
second signal (`_stop_now`) removes the pidfiles and stops no heartbeat
(`StopNow`, `HurriedLook`, `HurriedUnlink`).  The version comparison of siblings
only warns and is left out.

What the code accepts or does not notice are steps of the model, and `amiss`
remembers which were taken.  Each property names the ones it does not survive; TLC
finds every entry of the table with that gap alone, and none beyond it:

| Gap | Opened by | Breaks |
|---|---|---|
| `together` | a daemon that starts while another does | `OneEngine`, `RunningIsRecorded` |
| `namesake` | a fleet that ends removes the record of one on another host with its pid | `OneEngine`, `RunningIsRecorded` |
| `misses` | a renewal that fails when the last one failed too | `LeaseHeld`, and with it the first two |
| `read` | a beat that cannot read its record, which ends the thread | the same |
| `once` | a fleet's once-run, which does not beat, longer than a lease | the same |
| `slow` | a beat longer than the time between two, or than the join of five seconds | all four |
| `hurry` | `_stop_now` with a renewal in hand | `CleanExit`, `OneEngine`, `RunningIsRecorded` |

### FleetUnits

The main thread is one `pc`: it reads the registry, stops units one after the
other (`Asks`, then `Stops` when the thread has been joined), starts others and
sleeps.  `desired` is what it read, dropped when it sleeps; the registry may be edited at
any time, also during the loop.  A unit's thread goes through `looks`, `writes`, `up`
and `removes`; the judgement of an owner is the daemon's, and a unit records the
pid of the whole fleet.  A name stands for a project's directory after
`resolve()`.  `mode` is `once`, where units run on the main thread one after the
other, or `service`.  The first signal only sets the stop event; the second
removes the pidfiles and leaves by `os._exit`, which is a step of its own.  An
engine outside the fleet may take or leave a project's pidfile (`OtherStarts`,
`OtherEnds`), and not between a unit's look and its write, which `PidLease` is
about.

### JournaledWrite

Each step of a writer is one file operation: read the prior bytes, record them,
write a temp file, `fsync` it, rename it, `fsync` the directory, drop the
record.  A content stands for its bytes and for their digest.  The page cache is
modelled by `fresh` (the bytes of the file are not on disk yet) and `unsynced`
(renames that a power loss takes back, oldest first).  A new file's `fsync` is
taken to persist its directory entry as well.  A directory that takes no `fsync`
is a fault of its own, and the write goes on to its success (`SyncDirRejected`,
`locking.py:356-365`); so is a file that cannot be removed: a temp file or a record
stays, independently of each other (`Leftover`, `locking.py:429-440`).  `excused`
remembers both, which the code logs.  `TESSERAE_JOURNALED_WRITES` is
taken as on.  Left out: the confinement of paths, the dry run of recovery, and
the holder record beside the lock, which only words a message.  `AtomicFile` sees
the target, the versions `unsynced` may bring back, and whether a writer has
returned with its directory synced.

### IncrementalCompile

A compile is `Start` (the scan and the choice of a mode), one `Extract` per
document, the mode's own step (`Rebuild`, `RetryMarked`, `Rebind`, `Tombstone`),
`Publish`, `Record` and `Stamp`; it may be killed between any two.  The manifest
entry of a document is written as soon as it is extracted, the graph once.  An
entity stands for a node, and of its payload only `source_path` is kept.  The
extraction is a function of document, content and outcome, which is "typed" or
"fallback".

Entity resolution (`entity_resolution.py`, on by default) merges entities that
several documents name alike.  The full, the retried and the reused graph go
through it (`Joins` in `Publish`), and what the differ judges as extracted has
(`Tombstone`); what the differ publishes has not (`project.py:1774`, `:1830`).
Which entities it merges depends on names, degrees and an embedder that may fail,
so any set of them may go, each for one of its `Kin` that stays.  The sidecar is
not told (`project.py:1902`), and the rows of the nodes that went are pruned
(`:3984`). `joined` remembers them until the next full compile.  Left out:
unreadable files, the producer and code layers, the loaders that convert other
formats, and trends.

### SessionTail

The disk holds transcripts whose rows are two bytes, so that a reader can find half
a row.  A sweep over the directories is one step, and so is the look at a rollout
together with its signature; the reading of a batch, the two later readings of the
same file, and each of the database writes are steps of their own.  `since`, `told`
and `kills` are history.  A graceful stop is a `Kill`.  A rollout is in scope when
one of its first `HeadRows` rows names the project (`Matches`), and its parse
yields a session when any row does (`Ours`).  A session the store refuses (an
internal one) goes the way of a transcript that does not name the project
(`PassesOver`).  Left out: the turn limit, the host in the key of the floor, the
backfill, and an exception in a sweep or in the constructor, which ends the source
thread while the engine goes on.

### VaultSync

The model follows one node.  A page lies at the path of a name (`pages`), with the
title and description in it and the links in the user's notes.  Two passes,
`compile` and `sync` (the watcher's reprojection), go through the same steps, each
of which is an action: `Pull` (the differences between pages and snapshot laid over
the graph in memory), `Publish` of `graph.json`, `Load` of it again by
`export_obsidian`, `WritePage`, `Prune`, and the snapshot in two: `Stage` writes
`vault_snapshot.json.tmp` and `Replace` renames it.  Both passes use that one name,
so one may rename what the other wrote, or what both wrote at once (`Torn`, which a
pull reads as no baseline), or find nothing to rename (`ReplaceFails`).  That ends
a compile, which is logged, and it ends the thread of the vault watch for as long
as the engine runs, for its `try` is outside the loop (`daemon.py:1014-1021`).  A
compile begins with an extraction (`StartCompile`) or with the graph there is; a
reprojection begins when the vault has stood still for one interval (`Look`,
`Settle`) and ends with a new baseline and, if it changed the graph, a trigger
(`Baseline`).  The compile lock is that only one compile runs; a reprojection does
not take it.  The user's edits of titles, descriptions, notes and of the document
are possible at every point.

`ReadBack` is `extract_description` after `render_node_page`: what is read of a
description that was projected.  For a node type without a callout only the first
paragraph comes back.  `typed`, `calm` and `story` are history: what the user set
since the last snapshot, whether a running pass's input is still what it had read,
and whether the last pass was such a one.  So are `unread`, an edit of a page that
no pass has pulled, and `lost`, a compile that consumed its trigger and did not
end.  The user's notes are read and written in one step with the page (the
projector reads the page and replaces it without looking again, so notes that are
saved in between are lost; section 5).  The write of the temporary file is one
step, with `Torn` for two that overlap. Left out: other nodes (a page is matched to
its node by the id in it), aliases and metadata, the `markdown_projection`
directory, the command that prunes, and every other exception in a tick of the
vault watch, which would end its thread as well.

## 3. What is checked

| Run | Instance | Shows |
|---|---|---|
| `daemon_loop` | one path and the trigger without one, debounce 1, back-off 1 to 3 | `CarriesTheUnion`: the debounce task carries all that is pending. `BackoffServed`: a burst never shortens a back-off. `KeepsPromise`: the loop implements `OwedWork`. `QuietlyServed`: once the sources are quiet every trigger is attempted. `StopTerminates`: a stop ends the process |
| `journal` | two writers, one on another host, two contents; kills anywhere with files that cannot be removed, or power loss anywhere with directories that cannot be fsynced (`FaultSets`) | `TempIsNamed`: a left-over temp file is named by a whole record, but for one whose removal failed. `TargetNeverTorn`. `ReplacedInOneStep`: all of it implements `AtomicFile`. `RolledOverPrior`: recovery replaces only the bytes the dead write meant to replace. `UpdateNotLost`: a checked write replaces only the bytes it was computed from. `AcknowledgedIsDurable`: a power loss does not undo a write that returned with its directory synced |
| `gate_engine` | one engine, one slot, budget 2, one distill call | `PassSeesOneGraph` (no pipeline run replaces the graph of a pass), `AbandonedForABlockedRun` (the flag never latches), `NoCallWhileBlocked`, `RunIsServed`, `TickIsServed` |
| `brief_backoff` | five domains, two sets of three that fail for ever and one of four, budget 1, back-off 4 | `WarmableIsWarmed`: a domain that can be briefed is, if fewer than budget times back-off domains ahead of it fail for ever |
| `pid_lease` | three processes, one on another host with the pid of one here, one gap in each behaviour | `OneEngine`, `RunningIsRecorded`, `LeaseHeld`, `CleanExit`: no late beat brings a removed pidfile back |
| `fleet_units` | two names, two projects, four registries and an unreadable one, two edits, one death, one other engine | `OneEnginePerProject`: one engine runs on a project and its pidfile says so. `NothingLeftBehind`: the fleet's pidfile outlives its units. `RegistryIsFollowed`: the units become those of a registry that stands still |
| `compile_cli` | two documents, two contents with an entity in common and two named alike, five ways to call, three saves, one kill | `CompleteIsWhole`: no document is lost behind its stamp. `Parity`: the modes agree with a full compile. `RowsExact`: so does the sidecar.  All three are up to what resolution has joined |
| `session_tail` | one rollout with two lives of two rows, three sweeps, one kill | `StoreAtOffset`: what an offset has passed is stored. `ToldIsStored`: what is passed on is stored. `NothingSkipped`, `ToldOnce`: it is passed on, and once. `RowsReachTheStore` |
| `vault_sync` | one node with two names, a short and a long description and one link, two edits, one compile by hand, one kill, three of these in all | `SettledAgree`: graph, page and snapshot agree after a pass nobody raced. `NotesKept`: no pass touches the user's notes. `EditIsApplied`: an edit no pass had pulled is in the graph after the next one that ends, whatever the document says and although passes were killed. `NothingForgotten`: what the user saved is noticed, queued or in hand, but for the two losses of section 5. `RoundTripStable`: a pull overrides nothing when nobody edited. `QuietlyApplied`, `ExtractionArrives`: edits of the vault and of the document arrive. `Quiesces`: compile and reprojection come to rest |

No run checks a `TypeOK`: the types of every module are proved (section 4), but
`BriefBackoff`'s, which is only stated.  Three more runs show a disagreement
between the code and what it says of itself; TLC finds the counterexample.

| Run | Finding |
|---|---|
| `compile_named` | With `changed_paths`, as the engine calls it, a document that was saved without a change is dropped by the differ, not read again by the batch, and keeps its stamp: no later scoped compile brings it back (`project.py:1483`, against `:1959`) |
| `tail_sweep` | The sweep prunes a year and a month by their own modification times, which a new rollout or day does not touch, so a rollout of a known month is not found (`session_tail.py:272`, against `:245-247`) |
| `vault_revert` | An edit the reprojection applied lasts until the compile it queues: that compile is a full one, extracts the document again and finds the page equal to the new snapshot, so it publishes the old text (`project.py:3394` and `daemon.py:669`, against `obsidian-sync.md:9` and `:35`) |

### Bounds

- Two writers, two contents and a recovery reach every order of a publish
  between another's read and its rename, and a file that changes and changes
  back.  Two contents are all an `expected_sha256` can tell apart.
- One path beside the trigger without one is enough for a union that could lose
  a part.  A back-off of 1 to 3 ticks has a step that doubles and one that is
  cut at the ceiling.
- Three processes are a runner, one that starts while it ends, and one on
  another host.  `LeaseBeats` is the code's own ratio.  No behaviour of the run has
  two gaps (the constraint `OneGap`): each gap is seen to leave alone the properties
  that do not name it.  The proofs have no such limit.
- A budget of two has a call before the one that is abandoned.  Three failing
  domains are the most that still leave a slot in a cycle of budget times
  back-off = 4 ticks; with the four of the third set the fifth domain is starved, and
  the property does not speak of it.  TLC refutes the property with `<=` for `<`.
- Two documents that share one entity have every case of a co-owner: first, second,
  alone.  Two entities that are named alike have every case of a join: either goes,
  or neither, and the document of either changes afterwards.  Three saves allow an
  edit, a compile, a revert and a deletion. Numbers of documents only matter
  against `limit` and `cap`, which are 1, 2 and 0, 1.
- One rollout with two rows and two lives has rows before, in and after a batch,
  and a truncation at every step; `tail_sweep` needs two rollouts.
- A node with two names has a page at its own path and one left behind.  Two edits
  are one that a pass applies and one that it races, or an edit of the page and
  one of the document; a kill and a compile by hand come at any point of either.
  `Events` allows three of these in all: two edits with a kill or with a compile by
  hand, or one of each.  All four at once is more states than a run of some minutes
  has.
  Of two descriptions one is read back as it was written and one is not.
- Two names and two projects have every relation of two registries: a name is
  added, dropped or moved, and two exchange their projects or follow one another.
  Two edits allow one during the loop that serves the other.
- `Edits`, `Compiles`, `Kills`, `Events`, `Writes`, `Gens`, `Rows`, `LastDay` and
  `LastTime` bound how often the environment acts.  `session_tail`, `tail_sweep`
  and the two runs of `VaultSync` therefore end, as do `DaemonLoop` and
  `FleetUnits` once the process has exited: these runs do not report deadlock.

### Fairness

- `DaemonLoop`: the loop thread goes on (weak).  Callbacks that are ready are
  served in turn even if they are cancelled and posted again (strong: asyncio's
  ready queue is first in, first out).  Sources need never post, and a held lock
  need never be free: `QuietlyServed` says what follows if attempts are not
  deferred for ever.
- `CompileGate`: what was begun goes on, and LLM calls return, for they have
  timeouts (weak).  A waiter gets the semaphore if it is free again and again
  (strong: asyncio's semaphore hands over in order, within one loop).
- `BriefBackoff`: ticks come and go on (weak); a domain that can succeed does so
  if it is tried again and again (strong).
- `FleetUnits`: the main thread goes on, and so does each unit's, whose compile
  ends (weak; `_stop_unit` joins without a timeout).  Nobody need edit the
  registry, die or send a signal.
- `SessionTail`: the source thread goes on (weak); the database accepts a write
  if it is asked again and again (strong).  Agents need never write, and the
  process need never start again.
- `VaultSync`: the engine's threads (the vault watch, the source watch and the
  loop that compiles) go on, each of them weakly; they poll for ever.  Nobody need
  edit, compile by hand or kill.  `Quiesces` excepts what the code does not
  settle: passes that race without end (`Racing`), a page with notes at another
  name than the document's (`Astray`), and an extracted description that is not
  read back as it was written (`Cut`).

## 4. What is proved

`tlapm` checks the theorems for all values of the constants.

- **DaemonLoopProofs.**  `IInv` adds to `TypeOK` that at most two signals are
  under way, that pending work is real and is in the task (`WorkIsReal`), and
  that the time since the last deferral and what is left of the back-off add up
  to it (`BackoffAccounted`).  The second is needed because a burst re-creates
  the task from `pending`, the third because `Burst` resets the debounce and not
  the back-off.  From it: `TypeCorrect`, `TaskCarriesTheUnion`,
  `BackoffAlwaysServed`, and `LoopKeepsPromise`, the refinement of `OwedWork`
  (each step of the loop is a step of it or a stutter).  `NothingStranded`
  (`PendingHasATask`) is inductive with these: what the loop took from the queue has a
  waiting task.  `ShutdownIsShort` orders the steps of a shutdown (`Stage`).
- **JournaledWriteProofs.**  `LockHeld` (who is past the lock holds it),
  `TempPhase` (which steps have a temp file), `RecordFirst` (a temp file has a
  whole record), `OnlyWholeRenamed` (a rename publishes whole bytes) and
  `StillThere` (what a writer read as prior is what the file holds unless the
  history says otherwise).  `KillsNeverTear` assumes no power loss and nothing
  else, so it covers writers that take no lock and a recovery that misjudges a
  writer on another host; `RecoveryRespectsPrior` and `CheckedUpdateNotLost` assume
  that every writer takes the lock.  `OnDiskBeforeTold` (before a writer returns
  with its directory synced, its bytes and its rename are on the disk) holds
  whatever fails and gives `PromisesAreKept`; a writer whose directory refused the
  `fsync` returns as well and is promised nothing.  `OnlySyncedRenamed` (only
  synced bytes are renamed, and only a dead writer's record is rolled forward)
  needs `PowerOnly`: nobody is killed but by the power loss, no removal of a file
  fails, every write asks for the journal (`Plain` is empty), and no writer on
  another host writes outside the lock.  It gives `PowerLossNeverTears`.
  `WritesAreAtomic` is the refinement of `AtomicFile`, with kills and any writers,
  or with power losses under `PowerOnly` (`OneFault`): a rename, and recovery's, is
  `Replace`, the directory's `fsync` or the kernel's write-back is `Settle`, a
  return is `Promise`, and every other step is a stutter.
- **CompileGateProofs.**  `GateHeld` (who has a permit is at work in the gate, and
  the other way round) and `Bounded` (never more of them than slots) give
  `GateIsNeverLost`, for any number of units and slots: no torn-down run, failed pass
  or abandoned budget keeps a permit, so a run that is blocked finds one free or
  `Slots` others at work.  `FlagPaired` (the flag is set exactly from a run's raising
  it to its clearing it) gives `FlagNeverLatches` and `BlockedRunStopsCalls`.
  `PassLoaded` gives `OneGraphPerPass`, for any number of units and one slot; with two
  a unit's run passes beside its own tick (section 5).  `OneCallAtMost` is proved for
  an engine on its own whose distill makes no call, and is false without either.
- **PidLeaseProofs.**  For any processes, pids and hosts, and with every gap as a
  step.  `Local` holds whatever happens: what a stop leaves of a heartbeat
  (`Stopped`), which gives `RemovedStaysRemoved`, and that a beat is due before the
  lease of a recorded engine is over (`InTime`), which gives `LeaseOutlivesOneMiss`;
  each names its own gaps.  `Orderly` holds until the first gap: an engine that has
  not removed its pidfile is in it and its beats are in time (`BeatsInTime`), whoever
  found the pidfile stale is alone (`FoundNobody`), and what the pidfile holds at the
  steps that rely on it (`FileKnown`, `DaemonsInTurn`).  It gives `OneEngineRuns` and
  `PidfileNamesTheEngine`.  The two layers are needed because a beat in hand outlives
  the check that allowed it.
- **FleetUnitsProofs.**  `Reconciled` says how far each loop of the main thread
  is (a unit that stays is a desired one; in the end none stays), `ThreadsKnown`
  that a running thread belongs to a unit, `Recorded` that a pidfile of the fleet
  is a running thread's.  They need no assumption on the registry and give
  `UnitsEndFirst`.  `OneEngineEach` assumes `OneNameEach`, that no registry gives
  two names one project; then `Apart` (two units have two projects) and `Claimed`
  (who runs is who the pidfile names) are invariant too.  The instance of the run
  satisfies it.  `RegistryIsReconciled` takes no such assumption: it follows from
  `Reconciled` at the last step of `reconcile`, and from `ThreadsKnown`.
- **SessionTailProofs.**  Three layers, for any transcripts, rows, lives and kills.
  `IInv` says what is in hand at each `pc`: an offset, session or batch is of a
  life of its transcript and does not pass its end (`Lives`, `BatchRead`), the
  parsed session holds the batch (`SessionParsed`), an unnamed batch has bare rows
  only (`BatchUnnamed`), a session replaces an older or a shorter one
  (`SessionNewer`), and the turns are the batch's, or of the life the second
  reading found (`TurnsRead`).  It is needed because the file may change between
  the three readings; from it `StoredUpToTheOffset` and `ToldAfterStored`.
  `OnceInv` adds that what was passed on lies before the offset of its life, in
  the store and in memory (`ToldPassed`), and before the batch in hand
  (`ToldBefore`), whose turns lie behind its beginning (`TurnsNew`): `PassedOnOnce`.
  The arithmetic of the second reading, which counts its rows from the end, is
  `NewTurnsBehind`.  `SkipInv` adds that without kills memory and store agree and a
  batch of a first life is whole (`BatchWhole`): `PassedIsPassedOn`.  `LookInv` adds
  that an offset, saved or in memory, has behind it only rows of the store or rows
  that name nothing (`OffsetsAccounted`).  So a tick that finds nothing new has
  nothing to find: `NothingStaysUnread`.  It speaks of first lives, as
  `RowsReachTheStore` does (section 5).
- **VaultSyncProofs.**  `IInv` is `TypeOK` with `AgreeBefore` (graph, page and
  snapshot agree when the last pass was settled and nobody writes) and `InSteps`,
  which says for each step of a pass that nobody raced what it has established so
  far: once it has published, the graph in memory is the published one and its links
  are the notes'; what it loaded again is the same; and once it has written, the page
  says so.  It has to speak of both passes, since the one that ends may be the one
  that was not raced.
  From it `AgreeWhenSettled` and `RoundTripIsStable`; `NotesAreKept` needs the types
  alone.  `TypedInv` is for `EditsAreApplied`: what was typed differs from the snapshot,
  so that a pull does not miss it; it is on every page of the node, so that it does
  not matter which one a pull reads last; it is in the memory of each pass that has
  pulled (`TypedName`, `TypedDesc`); and no pass that runs was raced (`Undisturbed`).
  The theorem assumes `ReadsBackSame`: what is read from a page is read the same when
  it is projected again.  That leaves out rare descriptions, such as one whose first
  line is a lone `#` behind blanks, or nested callouts on a page without one; the
  descriptions of the run satisfy it.  `SavesAreNotForgotten` excepts what
  the code forgets (an edit between a reprojection's pull and its baseline or under a
  dead watch, and a compile that did not end), and needs
  `ForgottenInv`, since `NothingForgotten` is not inductive: a compile that ends
  sets the extracted document to the one it took when it began, so a save in between
  has to be noticed already then; and a baseline is taken only when the edits before
  it are a pass's or excepted (`DocumentKept`, `EditKept`).
- **IncrementalCompileProofs.**  `TypeCorrect` holds whatever the calls and
  hazards; its one argument is that a set of documents has a first (`LeastExists`,
  by the rank of each element), so a merge can attribute a node.  The others assume
  `Undisturbed`: every compile takes the whole corpus (no named path, no limit
  below its size), no document is rewritten under its hands, a deleted one returns
  only after its entry is pruned, and a document read twice in one compile fares
  the same (each hazard breaks a property, section 5).  Kills, failed extractions,
  edits between compiles, and the deletion of a document not yet read stay.  The
  instance of `compile_cli` satisfies it.  All three are up to `joined`, the
  entities that resolution merged since the last full compile.  `CompileInv`
  relates, at each step of a compile, the kept graph, the extractions in hand, the
  rows and the stamps: what the first batch skipped is in the stores
  (`Extracting`), what the tombstone took from a live document is read again
  (`ReadingAgain`), and what is published or recorded has every live document
  (`Publishing`, `Recording`).  It is needed because a kill may leave any prefix of
  this behind, and the stamps of the last compile still stand.  It gives
  `NothingLostBehindItsStamp`.  `ExactInv` adds the other direction, that the
  stores hold no more than that: a row of a stamped document is right
  (`RowsBelieved`), each node of a stamped graph is asserted (`NodesAsserted`), the
  differ starts from a sidecar that knows every node (`StartedExact`) and keeps
  only what a document that stays asserts (`RowsRight`, `NodesRight`).  It gives
  `IncrementalIsFull` and `SidecarIsExact`.

The liveness properties are model-checked only, since the prover has no rule for
fairness here.  For most of them what can be stated without fairness is proved, namely
that nothing is ever left where no step would take it up: `PendingHasATask` for
`QuietlyServed`, `ShutdownIsShort` for `StopTerminates`, `GateIsNeverLost` for
`RunIsServed` and `TickIsServed`, `RegistryIsReconciled` for `RegistryIsFollowed`,
`NothingStaysUnread` for `RowsReachTheStore`, `SavesAreNotForgotten` for
`QuietlyApplied` and `ExtractionArrives`.  That the steps are taken, and `Quiesces`,
is TLC's.  `BriefBackoff`, whose one property is a liveness property, has no theorem.

## 5. Limits of the code the models show

Each of these is a behaviour of the code that a property has to except, or that a
run shows when a constant is wider than it assumes.  The hazards of `PROJECT.json`
have them.

- A trigger posted while the shutdown drain runs misses the final run.
- The units of a fleet share the gate and not the flag, so a unit's run waits
  out another unit's budget; distill does not read the flag.
- With two compile slots a unit's run publishes beside its own tick, which is said
  never to overlap a compile (`daemon.py:1194`); the engine's vault source publishes
  beside both with any number.
- Failing domains use up every tick once there are budget times 64 of them (512
  by default), where `daemon.py:1616` has the pass make progress whatever fails.
  `WarmableIsWarmed` states the exact number.
- Two daemons that start at once may both run; a record that cannot be read once
  ends a heartbeat; two missed beats leave a gap in the lease, although
  `pidlock.py:65` says they leave it live, for the third beat is as late as the
  lease is long; a renewal slower than the stop revives a pidfile, and so does one in
  hand at the second signal; a fleet that ends removes the record of another host's
  fleet that has its pid; a fleet's `--once` run has no heartbeat.  These are the gaps
  of `PidLease`.
- A directory that refuses `fsync` leaves a write that returned and that a power loss
  may undo; it is logged (`locking.py:356-365`).  A temp file and the record that names
  it are removed one after the other, so a failing removal may leave a temp file that
  no record names (`locking.py:429-440`).
- A temp file that was never synced passes recovery's checksum in the page
  cache; a power loss after that tears the file.  A live writer's record read
  half-written is dropped.  A kill and a power loss in one behaviour, or a writer
  that does not ask for the journal, tear the file in the same way; hence `PowerOnly`.
- An entity that resolution merged is dropped with what other documents say of it,
  and nothing records who said it.  When the document of the one that stayed changes,
  the differ drops that one, reads no document again for the other, and what an
  unchanged document asserts is gone behind its stamp until a full compile; and the
  differ's graph has unmerged what it read again.
- A document saved while a compile reads it, a deleted one that returns before
  its entry is pruned, and a co-owner that fares otherwise when it is read again
  (`Hazards`) break `Parity` or `CompleteIsWhole`.  The assumption of the proofs,
  `Undisturbed`, is tight: each hazard, or a limit below the size of the corpus,
  breaks one of the three properties.
- Under `--limit`, a differ past its cap publishes only the documents within the
  limit, and the others keep their stamps (`project.py:1675`).  A co-owner that had
  changed beyond the limit is read again with its new text, gets its stamp and no
  rows for what is new in it.
- Two names of the registry with one project start together and may both claim
  its pidfile.  A signal that arrives while the main thread is about to sleep,
  and holds the lock of the stop event, blocks its handler for ever
  (`Hazards = {"event"}`).  A once-run over a registry that cannot be read runs
  nothing and returns 0.  Between the removal of the pidfiles and `os._exit` the
  units go on, so `OneEnginePerProject` speaks of the time before.
- An edit of the vault that is saved while a reprojection runs becomes part of its
  new baseline and is applied only when the vault changes again
  (`vault_watch.py:155-158`; `NothingForgotten` excepts it); one that is saved
  between a pass's pull and its projection is overwritten (against
  `obsidian-sync.md:19`).
- A page that holds notes stays behind when its node is renamed.  Its old title is
  a difference to the snapshot, so the next pull takes it for the user's, and a
  full compile and the reprojection undo each other for ever; the same happens
  with a description of several paragraphs on a page without a callout, of which
  the pull reads the first (against the intent at `daemon.py:1018-1025`).
  `Quiesces` excepts both (`Astray`, `Cut`), and fails without the exceptions.
- A reprojection publishes over a graph that a compile published after it had
  loaded its own (`project.py:3388`: no lock, no `expected_sha256`; against
  `project.py:171-174`).
- A pass that is killed after it projected and before it wrote the snapshot leaves
  its own page as an edit of the user's, which wins over the document once.
- A compile and a reprojection that overlap share `vault_snapshot.json.tmp`
  (`vault_snapshot.py:85-99`).  One may install the other's snapshot, which makes
  pages edits of the user's; the other finds nothing to rename: a compile fails at its
  end, and the vault watch is dead until the engine starts again
  (`daemon.py:1014-1021`), which `QuietlyApplied` excepts.
- A compile that fails or is killed has consumed its trigger: a document it was
  queued for waits for the next change (`lost`).
- Notes that are saved between the projector's read of a page and its write are
  lost; this is one step of the model.
- A batch whose offset is stored and whose turns are not filed, by a kill or a
  failure of the database, is lost to the day's chunks, and the next batch marks
  the day as covered (`session_tail.py:543`, against `session_chunks.py:31-32`).
- A transcript replaced by one exactly as long is read again only when it grows;
  `RowsReachTheStore` speaks of first lives for that reason.  A Codex rollout
  tracked in memory is forgotten by a restart.

## 6. Not modelled

`PROJECT.json` lists every component with the reason.  In short: rendering,
retrieval, prompts and parsers are pure functions or read-only; adapters and set-up
are sequential; LLM answers are inputs.  The agent write log and the memory
ledgers have state and order, and are next in the plan.  Of the components that
are modelled in part: the dream pass (opt-in, its proposals are an LLM's); the
producer and code layers, the loaders and trends of a compile; the turn limit, the
host key and the backfill of the tailer; several nodes, aliases, metadata and the
other projections of the vault; the stand-alone watch loops of the command line.

## 7. Plan

Done, in this order, by how much depends on it: the trigger loop and its
abstract specification; the journal under every artefact; the gate; the briefs;
the pidfiles; the incremental compile; the session tailer; the fleet; the vault's
round trip with the watchers; the proofs of the
tailer, of the vault and of the incremental compile; the abstract file under the
journal; the safety cores of the liveness properties.

Next:

1. `AgentWrites`: the log, its lock and its replay by a compile; appended notes
   are in the graph after the next compile, once each.
2. Two nodes in `VaultSync`, one of which takes the other's name.

To run a check: `tlc -config <cfg> <module>`; to check proofs: `tlapm <module>`.
