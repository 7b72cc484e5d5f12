--------------------------- MODULE JournaledWrite ---------------------------
(***************************************************************************)
(* Publishing one file (locking.py): compile_lock, journaled_write and     *)
(* recover_journal.  A write is a chain of separate file operations; a     *)
(* process can be killed, and the machine can lose power, between any two. *)
(* A content stands for its bytes and for its sha256.                      *)
(***************************************************************************)
EXTENDS Naturals, Sequences

CONSTANTS Writer,    \* the processes that publish the file
          Unlocked,  \* those that do not take the compile lock (graph repair, ledgers)
          Plain,     \* those that write without durable: rename only, no journal
          Foreign,   \* those that run on another host than recovery does
          Content,   \* what can be published
          NoFile,    \* the file does not exist
          Torn,      \* the file holds neither its old nor its new bytes
          NoCheck,   \* no expected_sha256 was given
          Free,      \* the compile lock has no holder
          Rec,       \* the recovery process
          FaultSets  \* what can go wrong in one behaviour: sets of "kill", "power",
                     \* "fsync" (a directory cannot be fsynced), "unlink" (nor a file removed)

ASSUME JournalAssumption ==
  /\ Unlocked \subseteq Writer /\ Foreign \subseteq Writer /\ Plain \subseteq Writer
  /\ Content # {}
  /\ NoFile \notin Content /\ Torn \notin Content \union {NoFile}
  /\ NoCheck \notin Content \union {NoFile, Torn}
  /\ Rec \notin Writer /\ Free \notin Writer \union {Rec}
  /\ FaultSets \subseteq SUBSET {"kill", "power", "fsync", "unlink"}

VARIABLES
  faults,   \* what can go wrong in this behaviour
  target,   \* what the file holds
  lock,     \* holder of compile.lock
  pc,       \* of each writer; "dead" after a kill
  want,     \* the content a writer publishes (in its journal record: sha256)
  seen,     \* expected_sha256
  prior,    \* the record's prior_sha256
  wal,      \* the writer's journal record
  tmp,      \* the writer's temp file
  aged,     \* a record is older than JOURNAL_FOREIGN_STALE_S
  fresh,    \* "cache": the bytes in target are not on disk yet, else "disk"
  unsynced, \* the renames not on disk yet, oldest first: who, and what was there
  rpc, rtodo, rcur, ract,  \* recovery: where it is, records left, its verdict
  moved,    \* history: who has seen nobody else publish since it read prior ("no")
  told,     \* history: the writer whose publish is the last, once it returned
  excused   \* history: a file of the write could not be removed, its directory not be
            \* fsynced (both are logged), or a power loss has undone its rename

writerVars == <<pc, want, seen, prior>>
fileVars   == <<wal, tmp, aged>>
recVars    == <<rpc, rtodo, rcur, ract>>
history    == <<moved, told, excused>>
disk       == <<target, fresh, unsynced>>
vars == <<faults, disk, lock, writerVars, fileVars, recVars, history>>

Bytes == Content \union {NoFile, Torn}

TypeOK ==
  /\ faults \in FaultSets
  /\ target \in Bytes
  /\ lock \in Writer \union {Free, Rec}
  /\ pc \in [Writer -> {"idle", "acquire", "check", "prior", "intent", "torn", "open",
                        "write", "sync", "rename", "syncdir", "drop", "dead"}]
  /\ want \in [Writer -> Content]
  /\ seen \in [Writer -> Bytes \union {NoCheck}]
  /\ prior \in [Writer -> Bytes]
  /\ wal \in [Writer -> {"none", "torn", "whole"}]
  /\ tmp \in [Writer -> {"none", "partial", "cached", "synced"}]
  /\ aged \in [Writer -> {"yes", "no"}]
  /\ fresh \in {"cache", "disk"}
  /\ unsynced \in Seq([by : Writer, old : Bytes])
  /\ rpc \in {"idle", "scan", "act", "unlink"}
  /\ rtodo \subseteq Writer
  /\ rcur \in Writer
  /\ ract \in {"roll", "discard", "drop"}
  /\ moved \in [Writer -> {"yes", "no"}]
  /\ told \in Writer \union {Free}
  /\ excused \in [Writer -> {"yes", "no"}]

Init ==
  /\ faults \in FaultSets
  /\ target \in Content \union {NoFile}
  /\ lock = Free
  /\ pc = [w \in Writer |-> "idle"]
  /\ want \in [Writer -> Content]
  /\ seen = [w \in Writer |-> NoCheck]
  /\ prior = [w \in Writer |-> NoFile]
  /\ wal = [w \in Writer |-> "none"]
  /\ tmp = [w \in Writer |-> "none"]
  /\ aged = [w \in Writer |-> "no"]
  /\ fresh = "disk" /\ unsynced = <<>>
  /\ rpc = "idle" /\ rtodo = {} /\ rcur \in Writer /\ ract = "drop"
  /\ moved = [w \in Writer |-> "no"]
  /\ told = Free
  /\ excused = [w \in Writer |-> "no"]

----------------------------------------------------------------------------
(* Helpers *)

Alive(w) == pc[w] # "dead"

Goto(w, from, to) == pc[w] = from /\ pc' = [pc EXCEPT ![w] = to]

Released(w) == IF lock = w THEN Free ELSE lock

\* The call ends, and its local with it.
Forget(w) == seen' = [seen EXCEPT ![w] = NoCheck]

\* os.replace: the file gets w's content; everybody else's prior is history.
Publish(w) ==
  /\ target' = IF tmp[w] = "partial" THEN Torn ELSE want[w]
  /\ fresh' = IF tmp[w] = "cached" THEN "cache" ELSE "disk"
  /\ unsynced' = Append(unsynced, [by |-> w, old |-> target])
  /\ moved' = [x \in Writer |-> IF x = w THEN moved[x] ELSE "yes"]
  /\ told' = Free

\* Recovery listed w's record, or is at work on it.
InHand(w) ==
  \/ rpc # "idle" /\ w \in rtodo
  \/ rpc \in {"act", "unlink"} /\ rcur = w

\* The renames of w are on disk.
Settled(w) == \A i \in DOMAIN unsynced : unsynced[i].by # w

\* The record is what its removal left of it; what it says goes with it, and its age.
LeaveRecord(w, left) ==
  /\ wal' = [wal EXCEPT ![w] = left]
  /\ IF left = "none"
     THEN prior' = [prior EXCEPT ![w] = NoFile] /\ aged' = [aged EXCEPT ![w] = "no"]
     ELSE UNCHANGED <<prior, aged>>

\* What is left of a file when its removal, which may fail, has been tried.
Leftover(x) == IF "unlink" \in faults THEN {"none", x} ELSE {"none"}

----------------------------------------------------------------------------
(* journaled_write *)

\* The caller reads the file, or not, and decides what to publish.  (A missing
\* file has no sha256 to expect.)  Every write has names of its own, so a writer
\* that has only one slot here takes it again when its last write is forgotten.
ReadAndDecide(w) ==
  /\ Goto(w, "idle", "acquire")
  /\ wal[w] = "none" /\ Settled(w) /\ ~InHand(w)
  /\ \E c \in Content : want' = [want EXCEPT ![w] = c]
  /\ \E s \in {target, NoCheck} \ {NoFile} : seen' = [seen EXCEPT ![w] = s]
  /\ tmp' = [tmp EXCEPT ![w] = "none"] /\ excused' = [excused EXCEPT ![w] = "no"]
  /\ UNCHANGED <<faults, disk, lock, prior, wal, aged, recVars, moved, told>>

\* compile_lock: polled until it is free; a writer outside it just goes on.
Acquire(w) ==
  /\ Goto(w, "acquire", "check")
  /\ IF w \in Unlocked THEN UNCHANGED lock ELSE lock = Free /\ lock' = w
  /\ UNCHANGED <<faults, disk, want, seen, prior, fileVars, recVars, history>>

\* CompileLockHeldError: the deadline passed while someone held the lock.
GiveUp(w) ==
  /\ Goto(w, "acquire", "idle") /\ Forget(w)
  /\ w \notin Unlocked /\ lock # Free
  /\ UNCHANGED <<faults, disk, lock, want, prior, fileVars, recVars, history>>

\* durable=False: no journal and no fsync.
AfterCheck(w)  == IF w \in Plain THEN "open" ELSE "prior"
AfterWrite(w)  == IF w \in Plain THEN "rename" ELSE "sync"
AfterRename(w) == IF w \in Plain THEN "drop" ELSE "syncdir"

\* Mutant: the expected_sha256 check is skipped.
CheckSkipped(w) ==
  /\ Goto(w, "check", AfterCheck(w))
  /\ UNCHANGED <<faults, disk, lock, want, seen, prior, fileVars, recVars, history>>

\* WriteConflictError before anything is written, or go on.
Check(w) ==
  /\ \/ seen[w] \in {NoCheck, target}
        /\ Goto(w, "check", AfterCheck(w)) /\ UNCHANGED <<lock, seen>>
     \/ seen[w] \notin {NoCheck, target}
        /\ Goto(w, "check", "idle") /\ Forget(w) /\ lock' = Released(w)
  /\ UNCHANGED <<faults, disk, want, prior, fileVars, recVars, history>>

\* _journal_begin reads the file before it opens the record.
ReadPrior(w) ==
  /\ Goto(w, "prior", "intent")
  /\ prior' = [prior EXCEPT ![w] = target]
  /\ moved' = [moved EXCEPT ![w] = "no"]
  /\ UNCHANGED <<faults, disk, lock, want, seen, fileVars, recVars, told, excused>>

OpenIntent(w) ==
  /\ Goto(w, "intent", "torn")
  /\ wal' = [wal EXCEPT ![w] = "torn"]
  /\ UNCHANGED <<faults, disk, lock, want, seen, prior, tmp, aged, recVars, history>>

WriteIntent(w) ==
  /\ Goto(w, "torn", "open")
  \* writing to a record that was unlinked meanwhile does not bring it back
  /\ wal' = [wal EXCEPT ![w] = IF @ = "torn" THEN "whole" ELSE @]
  /\ UNCHANGED <<faults, disk, lock, want, seen, prior, tmp, aged, recVars, history>>

OpenTemp(w) ==
  /\ Goto(w, "open", "write")
  /\ tmp' = [tmp EXCEPT ![w] = "partial"]
  /\ UNCHANGED <<faults, disk, lock, want, seen, prior, wal, aged, recVars, history>>

WriteTemp(w) ==
  /\ Goto(w, "write", AfterWrite(w))
  \* a temp file recovery has unlinked stays unlinked
  /\ tmp' = [tmp EXCEPT ![w] = IF @ = "partial" THEN "cached" ELSE @]
  /\ UNCHANGED <<faults, disk, lock, want, seen, prior, wal, aged, recVars, history>>

\* Mutant: the temp file is not fsynced.
SyncTempSkipped(w) ==
  /\ Goto(w, "sync", "rename")
  /\ UNCHANGED <<faults, disk, lock, want, seen, prior, fileVars, recVars, history>>

SyncTemp(w) ==
  /\ Goto(w, "sync", "rename")
  /\ tmp' = [tmp EXCEPT ![w] = IF @ = "cached" THEN "synced" ELSE @]
  /\ UNCHANGED <<faults, disk, lock, want, seen, prior, wal, aged, recVars, history>>

Rename(w) ==
  /\ tmp[w] # "none"
  /\ Goto(w, "rename", AfterRename(w))
  /\ Publish(w)
  /\ tmp' = [tmp EXCEPT ![w] = "none"]
  /\ UNCHANGED <<faults, lock, want, seen, prior, wal, aged, recVars, excused>>

\* Mutant: the directory is not fsynced after the rename.
SyncDirSkipped(w) ==
  /\ Goto(w, "syncdir", "drop")
  /\ UNCHANGED <<faults, disk, lock, want, seen, prior, fileVars, recVars, history>>

SyncDir(w) ==
  /\ Goto(w, "syncdir", "drop")
  /\ unsynced' = <<>>
  /\ UNCHANGED <<faults, target, fresh, lock, want, seen, prior, fileVars, recVars, history>>

\* A mount that takes no fsync of a directory: the error is logged, the rename
\* stays, and the write goes on to its success.
SyncDirRejected(w) ==
  /\ "fsync" \in faults
  /\ Goto(w, "syncdir", "drop")
  /\ excused' = [excused EXCEPT ![w] = "yes"]
  /\ UNCHANGED <<faults, disk, lock, want, seen, prior, fileVars, recVars, moved, told>>

\* The record is dropped, or stays when it cannot be removed; the lock is
\* released, and the caller told.
DropIntent(w) ==
  /\ Goto(w, "drop", "idle") /\ Forget(w)
  /\ \E left \in Leftover(wal[w]) : LeaveRecord(w, left)
  /\ lock' = Released(w)
  /\ told' = IF moved[w] = "no" /\ excused[w] = "no" /\ w \notin Plain THEN w ELSE told
  /\ UNCHANGED <<faults, disk, want, tmp, recVars, moved, excused>>

\* An exception before the rename (a full disk, a temp file recovery took away):
\* the finally removes the temp file and the record, each if it can.
WriteFails(w) ==
  /\ pc[w] \in {"intent", "open", "write", "sync", "rename"}
  /\ pc' = [pc EXCEPT ![w] = "idle"] /\ Forget(w)
  /\ \E left \in Leftover(tmp[w]) :
       /\ tmp' = [tmp EXCEPT ![w] = left]
       /\ excused' = [excused EXCEPT ![w] = IF left = "none" THEN @ ELSE "yes"]
  /\ \E left \in Leftover(wal[w]) : LeaveRecord(w, left)
  /\ lock' = Released(w)
  /\ UNCHANGED <<faults, disk, want, recVars, moved, told>>

\* An exception inside _journal_begin: entry is still None, the record stays.
IntentFails(w) ==
  /\ Goto(w, "torn", "idle") /\ Forget(w)
  /\ lock' = Released(w)
  /\ UNCHANGED <<faults, disk, want, prior, fileVars, recVars, history>>

----------------------------------------------------------------------------
(* Faults *)

\* SIGKILL: flock releases with the process, the files stay as they are.  (Of one
\* at rest only the end of a record it could not remove matters.)
Kill(w) ==
  /\ "kill" \in faults
  /\ Alive(w) /\ (pc[w] = "idle" => wal[w] # "none")
  /\ pc' = [pc EXCEPT ![w] = "dead"] /\ Forget(w)
  /\ lock' = Released(w)
  /\ UNCHANGED <<faults, disk, want, prior, fileVars, recVars, history>>

\* A new process.  Nobody will look at a temp file no record names.
Restart(w) ==
  /\ Goto(w, "dead", "idle")
  /\ wal[w] = "none"
  /\ tmp' = [tmp EXCEPT ![w] = "none"]
  /\ UNCHANGED <<faults, disk, lock, want, seen, prior, wal, aged, recVars, history>>

\* The kernel writes the target and its directory back on its own.
Writeback ==
  /\ fresh' = "disk" /\ unsynced' = <<>>
  /\ <<fresh', unsynced'>> # <<fresh, unsynced>>
  /\ UNCHANGED <<faults, target, lock, writerVars, fileVars, recVars, history>>

\* The renames from the i-th on are undone; the one undone last decides.
Undone(i) == {unsynced[k].by : k \in i..Len(unsynced)}

\* Everybody dies.  Bytes that were not fsynced may be lost, and so may the
\* latest renames whose directory was not; their temp files are then back.
PowerLoss ==
  /\ "power" \in faults
  /\ pc' = [w \in Writer |-> "dead"] /\ seen' = [w \in Writer |-> NoCheck]
  /\ lock' = Free
  /\ \E i \in 1..(Len(unsynced) + 1),
        lost \in SUBSET {w \in Writer : tmp[w] = "cached" \/ w \in Undone(1)},
        left \in IF fresh = "cache" THEN {target, Torn} ELSE {target} :
       /\ target' = IF i <= Len(unsynced) THEN unsynced[i].old ELSE left
       /\ tmp' = [w \in Writer |->
                    IF w \in Undone(i)
                    THEN IF w \in lost /\ fresh = "cache" THEN "partial" ELSE "synced"
                    ELSE IF tmp[w] # "cached" THEN tmp[w]
                    ELSE IF w \in lost THEN "partial" ELSE "synced"]
       /\ excused' = [w \in Writer |-> IF w \in Undone(i) THEN "yes" ELSE excused[w]]
  /\ fresh' = "disk" /\ unsynced' = <<>>
  /\ told' = Free
  /\ rpc' = "idle" /\ rtodo' = {}
  /\ UNCHANGED <<faults, want, prior, wal, aged, rcur, ract, moved>>

\* A foreign record gets too old to be believed in.
Age(w) ==
  /\ w \in Foreign /\ wal[w] # "none" /\ aged[w] = "no"
  /\ aged' = [aged EXCEPT ![w] = "yes"]
  /\ UNCHANGED <<faults, disk, lock, writerVars, wal, tmp, recVars, history>>

----------------------------------------------------------------------------
(* recover_journal *)

\* Mutant: recovery does not take the compile lock.
RecStartUnlocked ==
  /\ rpc = "idle" /\ rtodo' = {w \in Writer : wal[w] # "none"} /\ rtodo' # {}
  /\ rpc' = "scan"
  /\ UNCHANGED <<faults, disk, lock, writerVars, fileVars, rcur, ract, history>>

\* A real run holds compile.lock and fails fast when it is taken.
RecStart ==
  /\ rpc = "idle" /\ lock = Free
  /\ rtodo' = {w \in Writer : wal[w] # "none"} /\ rtodo' # {}
  /\ lock' = Rec
  /\ rpc' = "scan"
  /\ UNCHANGED <<faults, disk, writerVars, fileVars, rcur, ract, history>>

\* _journal_writer_alive: the pid decides here, only the age does elsewhere.
JudgedAlive(w) == IF w \in Foreign THEN aged[w] = "no" ELSE Alive(w)

Complete(w) == tmp[w] \in {"cached", "synced"}

\* Mutant: a temp file is rolled forward whatever the target holds now.
VerdictNoPriorCheck(w) ==
  IF wal[w] = "torn" \/ tmp[w] = "none" THEN "drop"
  ELSE IF Complete(w) THEN "roll" ELSE "discard"

\* Mutant: a temp file is rolled forward without comparing its sha256.
VerdictNoTempCheck(w) ==
  IF wal[w] = "torn" \/ tmp[w] = "none" THEN "drop"
  ELSE IF target = prior[w] THEN "roll" ELSE "discard"

Verdict(w) ==
  IF wal[w] = "torn" \/ tmp[w] = "none" THEN "drop"
  ELSE IF Complete(w) /\ target = prior[w] THEN "roll" ELSE "discard"

\* A record whose writer may still run is left alone; a torn one is dropped
\* before that question is asked.
RecJudge(w) ==
  /\ rpc = "scan" /\ w \in rtodo
  /\ rtodo' = rtodo \ {w}
  /\ IF wal[w] = "none" \/ (wal[w] = "whole" /\ JudgedAlive(w))
     THEN UNCHANGED <<rpc, rcur, ract>>
     ELSE /\ rcur' = w /\ ract' = Verdict(w)
          /\ rpc' = "act"
  /\ UNCHANGED <<faults, disk, lock, writerVars, fileVars, history>>

\* The rename or the unlink the verdict asks for, on the files as they are now.
\* (A temp file to rename that is gone raises: recovery ends as in RecKilled.)
RecAct ==
  /\ rpc = "act"
  /\ rpc' = "unlink"
  /\ \/ ract = "roll" /\ tmp[rcur] # "none" /\ Publish(rcur)
     \/ ract # "roll" /\ UNCHANGED <<disk, moved, told>>
  /\ tmp' = [tmp EXCEPT ![rcur] = IF ract = "drop" THEN @ ELSE "none"]
  /\ UNCHANGED <<faults, lock, writerVars, wal, aged, rtodo, rcur, ract, excused>>

\* _fsync_dir after a roll-forward, which may be refused too; then the record goes.
RecUnlink ==
  /\ rpc = "unlink"
  /\ rpc' = "scan"
  /\ \/ ract = "roll" /\ unsynced' = <<>> /\ UNCHANGED excused
     \/ ract = "roll" /\ "fsync" \in faults
        /\ excused' = [excused EXCEPT ![rcur] = "yes"] /\ UNCHANGED unsynced
     \/ ract # "roll" /\ UNCHANGED <<unsynced, excused>>
  /\ LeaveRecord(rcur, "none")
  /\ UNCHANGED <<faults, target, fresh, lock, pc, want, seen, tmp, rtodo, rcur, ract, moved, told>>

RecEnd ==
  /\ rpc = "scan" /\ rtodo = {}
  /\ rpc' = "idle"
  /\ lock' = IF lock = Rec THEN Free ELSE lock
  /\ UNCHANGED <<faults, disk, writerVars, fileVars, rtodo, rcur, ract, history>>

RecKilled ==
  /\ rpc # "idle"
  /\ rpc' = "idle" /\ rtodo' = {}
  /\ lock' = IF lock = Rec THEN Free ELSE lock
  /\ UNCHANGED <<faults, disk, writerVars, fileVars, rcur, ract, history>>

----------------------------------------------------------------------------
Write(w) ==
  \/ ReadAndDecide(w) \/ Acquire(w) \/ GiveUp(w) \/ Check(w)
  \/ ReadPrior(w) \/ OpenIntent(w) \/ WriteIntent(w)
  \/ OpenTemp(w) \/ WriteTemp(w) \/ SyncTemp(w) \/ Rename(w) \/ SyncDir(w)
  \/ SyncDirRejected(w) \/ DropIntent(w) \/ WriteFails(w) \/ IntentFails(w)

Recover == (\E w \in Writer : RecJudge(w)) \/ RecStart \/ RecAct \/ RecUnlink \/ RecEnd

Next ==
  \/ \E w \in Writer : Write(w) \/ Kill(w) \/ Restart(w) \/ Age(w)
  \/ Recover \/ RecKilled
  \/ Writeback \/ PowerLoss

Spec == Init /\ [][Next]_vars

----------------------------------------------------------------------------
(* Properties *)

\* Readers never find a file that is neither the old nor the new version: not
\* when its writer is killed, not after recovery, not after a power loss.
TargetNeverTorn == target # Torn

Named(w) == tmp[w] # "none" => wal[w] = "whole"

\* Intent goes first: the temp file of a journaled write under the compile lock
\* is always named by a whole record, so recovery finds whatever a kill leaves.
\* (Excused is a write that logged it could not remove its temp file, and one
\* whose rename a power loss undid: its record may be gone before its file.)
TempIsNamed == \A w \in Writer \ (Plain \union Unlocked) : excused[w] = "no" => Named(w)

\* When every writer takes the compile lock, recover_journal only rolls a temp
\* file over the very bytes its write meant to replace, although it renames long
\* after it compared the checksums.
RolledOverPrior ==
  [][RecAct /\ ract = "roll" => target = prior[rcur]]_vars

\* When every writer takes the compile lock, a write that gave expected_sha256
\* only ever replaces the bytes it was computed from.
UpdateNotLost ==
  [][\A w \in Writer : Rename(w) /\ seen[w] # NoCheck => target = seen[w]]_vars

\* Once journaled_write has returned, a power loss does not undo the write, unless
\* the filesystem refused to fsync its directory: that is logged, and the write
\* returns all the same, but it is not told of its success here.
AcknowledgedIsDurable ==
  [][PowerLoss /\ told # Free => target' = target]_vars

File == INSTANCE AtomicFile WITH
  file     <- target,
  older    <- {unsynced[i].old : i \in DOMAIN unsynced},
  promised <- IF told = Free THEN "no" ELSE "yes"

\* The chain of separate file operations, with the kills or with the power
\* losses, is a file that is replaced in one step: every reader finds a whole
\* version, a power loss brings back a version that was there since the file was
\* last on the disk, and none in place of one whose writer returned without a
\* refused fsync of the directory.
ReplacedInOneStep == File!Spec
=============================================================================
