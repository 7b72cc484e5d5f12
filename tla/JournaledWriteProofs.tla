------------------------ MODULE JournaledWriteProofs ------------------------
(***************************************************************************)
(* What JournaledWrite guarantees for any writers, contents and crashes.   *)
(***************************************************************************)
EXTENDS JournaledWrite, TLAPS

USE JournalAssumption

Early == {"acquire", "check", "prior", "intent", "torn", "open"}
Late  == {"syncdir", "drop"}
Busy  == {"check", "prior", "intent", "torn", "open", "write", "sync", "rename",
          "syncdir", "drop"}

\* Whoever is past the lock holds it, and recovery that runs holds it.
LockHeld ==
  /\ \A w \in Writer \ Unlocked : pc[w] \in Busy => lock = w
  /\ rpc # "idle" => lock = Rec

\* A writer has a temp file only between opening and renaming it, or from a write
\* that failed.
TempPhase == \A w \in Writer : pc[w] \in Early \union Late => tmp[w] = "none"

\* An element of a sequence is in the set the sequence is over.
LEMMA ElementIn == ASSUME NEW S, NEW s \in Seq(S), NEW i \in 1..Len(s) PROVE s[i] \in S
OBVIOUS

\* The variables keep their types: Init.
LEMMA TypeInit == Init => TypeOK
BY DEF Init, TypeOK, Bytes

\* The variables keep their types: every step.
LEMMA TypeStep == TypeOK /\ [Next]_vars => TypeOK'
<1> SUFFICES ASSUME TypeOK, [Next]_vars PROVE TypeOK'
  OBVIOUS
<1> USE DEF TypeOK, Bytes, Goto, Released, Forget, Leftover, LeaveRecord
<1>1. ASSUME NEW w \in Writer, Write(w) PROVE TypeOK'
  <2>1. CASE ReadAndDecide(w) BY <2>1 DEF ReadAndDecide, recVars, history, disk
  <2>2. CASE Acquire(w) BY <2>2 DEF Acquire, recVars, history, disk, fileVars
  <2>3. CASE GiveUp(w) BY <2>3 DEF GiveUp, recVars, history, disk, fileVars
  <2>4. CASE Check(w) BY <2>4 DEF Check, AfterCheck, recVars, history, disk, fileVars
  <2>5. CASE ReadPrior(w) BY <2>5 DEF ReadPrior, recVars, disk, fileVars
  <2>6. CASE OpenIntent(w) BY <2>6 DEF OpenIntent, recVars, history, disk
  <2>7. CASE WriteIntent(w) BY <2>7 DEF WriteIntent, recVars, history, disk
  <2>8. CASE OpenTemp(w) BY <2>8 DEF OpenTemp, recVars, history, disk
  <2>9. CASE WriteTemp(w) BY <2>9 DEF WriteTemp, AfterWrite, recVars, history, disk
  <2>10. CASE SyncTemp(w) BY <2>10 DEF SyncTemp, recVars, history, disk
  <2>11. CASE Rename(w) BY <2>11 DEF Rename, Publish, AfterRename, recVars
  <2>12. CASE SyncDir(w) BY <2>12 DEF SyncDir, recVars, history, fileVars
  <2>16. CASE SyncDirRejected(w) BY <2>16 DEF SyncDirRejected, recVars, disk, fileVars
  <2>13. CASE DropIntent(w) BY <2>13 DEF DropIntent, recVars, disk
  <2>14. CASE WriteFails(w) BY <2>14 DEF WriteFails, recVars, history, disk
  <2>15. CASE IntentFails(w) BY <2>15 DEF IntentFails, recVars, history, disk, fileVars
  <2> QED
    BY <1>1, <2>1, <2>2, <2>3, <2>4, <2>5, <2>6, <2>7, <2>8, <2>9, <2>10, <2>11, <2>12,
       <2>13, <2>14, <2>15, <2>16 DEF Write
<1>2. ASSUME NEW w \in Writer, Kill(w) \/ Restart(w) \/ Age(w) PROVE TypeOK'
  BY <1>2 DEF Kill, Restart, Age, recVars, history, disk, fileVars, writerVars
<1>3. CASE Recover
  <2>1. ASSUME NEW w \in Writer, RecJudge(w) PROVE TypeOK'
    BY <2>1 DEF RecJudge, Verdict, history, disk, fileVars, writerVars
  <2>2. CASE RecStart BY <2>2 DEF RecStart, history, disk, fileVars, writerVars
  <2>3. CASE RecAct
    <3>1. CASE ract = "roll" /\ Publish(rcur)
      BY <2>3, <3>1 DEF RecAct, Publish, writerVars
    <3>2. CASE UNCHANGED <<disk, moved, told>>
      BY <2>3, <3>2 DEF RecAct, history, disk, writerVars
    <3> QED BY <2>3, <3>1, <3>2 DEF RecAct
  <2>4. CASE RecUnlink
    <3>1. unsynced' \in Seq([by : Writer, old : Bytes])
      <4>1. unsynced' = <<>> \/ unsynced' = unsynced
        BY <2>4 DEF RecUnlink
      <4>2. <<>> \in Seq([by : Writer, old : Bytes]) /\ unsynced \in Seq([by : Writer, old : Bytes])
        OBVIOUS
      <4> QED BY <4>1, <4>2
    <3>2. excused' \in [Writer -> {"yes", "no"}]
      BY <2>4 DEF RecUnlink
    <3>3. /\ wal' \in [Writer -> {"none", "torn", "whole"}]
          /\ prior' \in [Writer -> Bytes] /\ aged' \in [Writer -> {"yes", "no"}]
      BY <2>4 DEF RecUnlink
    <3> QED BY <2>4, <3>1, <3>2, <3>3 DEF RecUnlink, writerVars
  <2>5. CASE RecEnd BY <2>5 DEF RecEnd, history, disk, fileVars, writerVars
  <2> QED BY <1>3, <2>1, <2>2, <2>3, <2>4, <2>5 DEF Recover
<1>4. CASE RecKilled BY <1>4 DEF RecKilled, history, disk, fileVars, writerVars
<1>5. CASE Writeback BY <1>5 DEF Writeback, history, recVars, fileVars, writerVars
<1>6. CASE PowerLoss
  <2>1. PICK i \in 1..(Len(unsynced) + 1),
             lost \in SUBSET {w \in Writer : tmp[w] = "cached" \/ w \in Undone(1)},
             left \in IF fresh = "cache" THEN {target, Torn} ELSE {target} :
          /\ target' = IF i <= Len(unsynced) THEN unsynced[i].old ELSE left
          /\ tmp' = [w \in Writer |->
                       IF w \in Undone(i)
                       THEN IF w \in lost /\ fresh = "cache" THEN "partial" ELSE "synced"
                       ELSE IF tmp[w] # "cached" THEN tmp[w]
                       ELSE IF w \in lost THEN "partial" ELSE "synced"]
          /\ excused' = [w \in Writer |-> IF w \in Undone(i) THEN "yes" ELSE excused[w]]
    BY <1>6 DEF PowerLoss
  <2>2. target' \in Bytes
    <3>1. CASE i <= Len(unsynced)
      <4>1. i \in 1..Len(unsynced) BY <3>1
      <4>2. unsynced[i] \in [by : Writer, old : Bytes]
        <5> HIDE DEF Bytes
        <5> QED BY <4>1, ElementIn
      <4> QED BY <2>1, <3>1, <4>2
    <3> QED BY <2>1, <3>1
  <2>3. tmp' \in [Writer -> {"none", "partial", "cached", "synced"}] /\ excused' \in [Writer -> {"yes", "no"}]
    BY <2>1
  <2> QED BY <1>6, <2>2, <2>3 DEF PowerLoss
<1>7. CASE UNCHANGED vars
  BY <1>7 DEF vars, history, disk, recVars, fileVars, writerVars
<1> QED BY <1>1, <1>2, <1>3, <1>4, <1>5, <1>6, <1>7 DEF Next

\* The variables of JournaledWrite keep their types.
THEOREM TypeCorrect == Spec => []TypeOK
BY TypeInit, TypeStep, PTL DEF Spec

----------------------------------------------------------------------------
(* The compile lock *)

\* Every step keeps the lock with whoever is past it.
LEMMA LockStep == TypeOK /\ LockHeld /\ [Next]_vars => LockHeld'
<1> SUFFICES ASSUME TypeOK, LockHeld, [Next]_vars PROVE LockHeld'
  OBVIOUS
<1> USE DEF TypeOK, LockHeld, Busy, Goto, Released, Forget, Leftover, LeaveRecord, disk, fileVars, writerVars, recVars, history
<1>1. ASSUME NEW w \in Writer, Write(w) PROVE LockHeld'
  <2>1. CASE ReadAndDecide(w) BY <2>1 DEF ReadAndDecide
  <2>2. CASE Acquire(w) BY <2>2 DEF Acquire
  <2>3. CASE GiveUp(w) BY <2>3 DEF GiveUp
  <2>4. CASE Check(w) BY <2>4 DEF Check, AfterCheck
  <2>5. CASE ReadPrior(w) BY <2>5 DEF ReadPrior
  <2>6. CASE OpenIntent(w) BY <2>6 DEF OpenIntent
  <2>7. CASE WriteIntent(w) BY <2>7 DEF WriteIntent
  <2>8. CASE OpenTemp(w) BY <2>8 DEF OpenTemp
  <2>9. CASE WriteTemp(w) BY <2>9 DEF WriteTemp, AfterWrite
  <2>10. CASE SyncTemp(w) BY <2>10 DEF SyncTemp
  <2>11. CASE Rename(w) BY <2>11 DEF Rename, Publish, AfterRename
  <2>12. CASE SyncDir(w) BY <2>12 DEF SyncDir
  <2>16. CASE SyncDirRejected(w) BY <2>16 DEF SyncDirRejected
  <2>13. CASE DropIntent(w) BY <2>13 DEF DropIntent
  <2>14. CASE WriteFails(w) BY <2>14 DEF WriteFails
  <2>15. CASE IntentFails(w) BY <2>15 DEF IntentFails
  <2> QED
    BY <1>1, <2>1, <2>2, <2>3, <2>4, <2>5, <2>6, <2>7, <2>8, <2>9, <2>10, <2>11, <2>12,
       <2>13, <2>14, <2>15, <2>16 DEF Write
<1>2. ASSUME NEW w \in Writer, Kill(w) \/ Restart(w) \/ Age(w) PROVE LockHeld'
  BY <1>2 DEF Kill, Restart, Age
<1>3. ASSUME NEW w \in Writer, RecJudge(w) PROVE LockHeld'
  BY <1>3 DEF RecJudge, Verdict, Complete
<1>4. CASE RecStart BY <1>4 DEF RecStart
<1>5. CASE RecAct BY <1>5 DEF RecAct, Publish
<1>6. CASE RecUnlink BY <1>6 DEF RecUnlink
<1>7. CASE RecEnd BY <1>7 DEF RecEnd
<1>8. CASE RecKilled BY <1>8 DEF RecKilled
<1>9. CASE Writeback BY <1>9 DEF Writeback
<1>10. CASE PowerLoss BY <1>10 DEF PowerLoss
<1>11. CASE UNCHANGED vars BY <1>11 DEF vars
<1> QED BY <1>1, <1>2, <1>3, <1>4, <1>5, <1>6, <1>7, <1>8, <1>9, <1>10, <1>11 DEF Next, Recover

\* Every step keeps temp files between their opening and their renaming.
LEMMA PhaseStep == TypeOK /\ TempPhase /\ [Next]_vars => TempPhase'
<1> SUFFICES ASSUME TypeOK, TempPhase, [Next]_vars PROVE TempPhase'
  OBVIOUS
<1> USE DEF TypeOK, TempPhase, Early, Late, Goto, Released, Forget, Leftover, LeaveRecord, disk, fileVars, writerVars, recVars, history
<1>1. ASSUME NEW w \in Writer, Write(w) PROVE TempPhase'
  <2>1. CASE ReadAndDecide(w) BY <2>1 DEF ReadAndDecide
  <2>2. CASE Acquire(w) BY <2>2 DEF Acquire
  <2>3. CASE GiveUp(w) BY <2>3 DEF GiveUp
  <2>4. CASE Check(w) BY <2>4 DEF Check, AfterCheck
  <2>5. CASE ReadPrior(w) BY <2>5 DEF ReadPrior
  <2>6. CASE OpenIntent(w) BY <2>6 DEF OpenIntent
  <2>7. CASE WriteIntent(w) BY <2>7 DEF WriteIntent
  <2>8. CASE OpenTemp(w) BY <2>8 DEF OpenTemp
  <2>9. CASE WriteTemp(w) BY <2>9 DEF WriteTemp, AfterWrite
  <2>10. CASE SyncTemp(w) BY <2>10 DEF SyncTemp
  <2>11. CASE Rename(w) BY <2>11 DEF Rename, Publish, AfterRename
  <2>12. CASE SyncDir(w) BY <2>12 DEF SyncDir
  <2>16. CASE SyncDirRejected(w) BY <2>16 DEF SyncDirRejected
  <2>13. CASE DropIntent(w) BY <2>13 DEF DropIntent
  <2>14. CASE WriteFails(w) BY <2>14 DEF WriteFails
  <2>15. CASE IntentFails(w) BY <2>15 DEF IntentFails
  <2> QED
    BY <1>1, <2>1, <2>2, <2>3, <2>4, <2>5, <2>6, <2>7, <2>8, <2>9, <2>10, <2>11, <2>12,
       <2>13, <2>14, <2>15, <2>16 DEF Write
<1>2. ASSUME NEW w \in Writer, Kill(w) \/ Restart(w) \/ Age(w) PROVE TempPhase'
  BY <1>2 DEF Kill, Restart, Age
<1>3. ASSUME NEW w \in Writer, RecJudge(w) PROVE TempPhase'
  BY <1>3 DEF RecJudge, Verdict, Complete
<1>4. CASE RecStart BY <1>4 DEF RecStart
<1>5. CASE RecAct BY <1>5 DEF RecAct, Publish
<1>6. CASE RecUnlink BY <1>6 DEF RecUnlink
<1>7. CASE RecEnd BY <1>7 DEF RecEnd
<1>8. CASE RecKilled BY <1>8 DEF RecKilled
<1>9. CASE Writeback BY <1>9 DEF Writeback
<1>10. CASE PowerLoss BY <1>10 DEF PowerLoss
<1>11. CASE UNCHANGED vars BY <1>11 DEF vars
<1> QED BY <1>1, <1>2, <1>3, <1>4, <1>5, <1>6, <1>7, <1>8, <1>9, <1>10, <1>11 DEF Next, Recover

----------------------------------------------------------------------------
(* Every temp file is named *)

\* A journaled writer under the lock has a whole record from before it opens its
\* temp file until the temp file is gone; recovery drops no record before.
RecordFirst ==
  /\ \A w \in Writer \ (Plain \union Unlocked) :
       /\ excused[w] = "no" => Named(w)
       /\ pc[w] \in {"open", "write", "sync", "rename"} => wal[w] = "whole"
       /\ pc[w] = "torn" => wal[w] = "torn"
  /\ rcur \notin Plain \union Unlocked /\ excused[rcur] = "no" =>
       /\ rpc = "act" /\ ract = "drop" => tmp[rcur] = "none"
       /\ rpc = "unlink" => tmp[rcur] = "none"

\* Every step keeps the record ahead of the temp file.
LEMMA NamedStep == TypeOK /\ LockHeld /\ TempPhase /\ RecordFirst /\ [Next]_vars => RecordFirst'
<1> SUFFICES ASSUME TypeOK, LockHeld, TempPhase, RecordFirst, [Next]_vars PROVE RecordFirst'
  OBVIOUS
<1> USE DEF TypeOK, RecordFirst, LockHeld, TempPhase, Named, Early, Late, Busy, Undone, Goto, Released, Forget, Leftover, LeaveRecord, disk, fileVars, writerVars, recVars, history
<1>1. ASSUME NEW w \in Writer, Write(w) PROVE RecordFirst'
  <2>1. CASE ReadAndDecide(w) BY <2>1 DEF ReadAndDecide
  <2>2. CASE Acquire(w) BY <2>2 DEF Acquire
  <2>3. CASE GiveUp(w) BY <2>3 DEF GiveUp
  <2>4. CASE Check(w) BY <2>4 DEF Check, AfterCheck
  <2>5. CASE ReadPrior(w) BY <2>5 DEF ReadPrior
  <2>6. CASE OpenIntent(w) BY <2>6 DEF OpenIntent
  <2>7. CASE WriteIntent(w) BY <2>7 DEF WriteIntent
  <2>8. CASE OpenTemp(w) BY <2>8 DEF OpenTemp
  <2>9. CASE WriteTemp(w) BY <2>9 DEF WriteTemp, AfterWrite
  <2>10. CASE SyncTemp(w) BY <2>10 DEF SyncTemp
  <2>11. CASE Rename(w) BY <2>11 DEF Rename, Publish, AfterRename
  <2>12. CASE SyncDir(w) BY <2>12 DEF SyncDir
  <2>16. CASE SyncDirRejected(w) BY <2>16 DEF SyncDirRejected
  <2>13. CASE DropIntent(w) BY <2>13 DEF DropIntent
  <2>14. CASE WriteFails(w) BY <2>14 DEF WriteFails
  <2>15. CASE IntentFails(w) BY <2>15 DEF IntentFails
  <2> QED
    BY <1>1, <2>1, <2>2, <2>3, <2>4, <2>5, <2>6, <2>7, <2>8, <2>9, <2>10, <2>11, <2>12,
       <2>13, <2>14, <2>15, <2>16 DEF Write
<1>2. ASSUME NEW w \in Writer, Kill(w) \/ Restart(w) \/ Age(w) PROVE RecordFirst'
  BY <1>2 DEF Kill, Restart, Age
<1>3. ASSUME NEW w \in Writer, RecJudge(w) PROVE RecordFirst'
  BY <1>3 DEF RecJudge, Verdict, Complete
<1>4. CASE RecStart BY <1>4 DEF RecStart
<1>5. CASE RecAct BY <1>5 DEF RecAct, Publish
<1>6. CASE RecUnlink BY <1>6 DEF RecUnlink
<1>7. CASE RecEnd BY <1>7 DEF RecEnd
<1>8. CASE RecKilled BY <1>8 DEF RecKilled
<1>9. CASE Writeback BY <1>9 DEF Writeback
<1>10. CASE PowerLoss BY <1>10 DEF PowerLoss
<1>11. CASE UNCHANGED vars BY <1>11 DEF vars
<1> QED BY <1>1, <1>2, <1>3, <1>4, <1>5, <1>6, <1>7, <1>8, <1>9, <1>10, <1>11 DEF Next, Recover

----------------------------------------------------------------------------
(* Kills never tear the file *)

\* What can go wrong is chosen once.
LEMMA FaultsStay == [Next]_vars => faults' = faults
BY DEF Next, vars, Write, ReadAndDecide, Acquire, GiveUp, Check, ReadPrior, OpenIntent,
       WriteIntent, OpenTemp, WriteTemp, SyncTemp, Rename, SyncDir, SyncDirRejected, DropIntent, WriteFails,
       IntentFails, Kill, Restart, Age, Recover, RecJudge, RecStart, RecAct, RecUnlink,
       RecEnd, RecKilled, Writeback, PowerLoss

\* What will be renamed is complete: what a writer has synced, and what recovery
\* has decided to roll forward and its writer, if it runs, will not open again.
OnlyWholeRenamed ==
  /\ target # Torn
  /\ \A w \in Writer : pc[w] \in {"sync", "rename"} => tmp[w] # "partial"
  /\ rpc = "act" /\ ract = "roll" =>
       tmp[rcur] # "partial" /\ pc[rcur] \notin Early

\* No step but a power loss lets a partial temp file be renamed.
LEMMA WholeStep == TypeOK /\ TempPhase /\ OnlyWholeRenamed /\ "power" \notin faults /\ [Next]_vars => OnlyWholeRenamed'
<1> SUFFICES ASSUME TypeOK, TempPhase, OnlyWholeRenamed, "power" \notin faults, [Next]_vars PROVE OnlyWholeRenamed'
  OBVIOUS
<1> USE DEF TypeOK, OnlyWholeRenamed, TempPhase, Early, Late, InHand, Goto, Released, Forget, Leftover, LeaveRecord, disk, fileVars, writerVars, recVars, history
<1>1. ASSUME NEW w \in Writer, Write(w) PROVE OnlyWholeRenamed'
  <2>1. CASE ReadAndDecide(w) BY <2>1 DEF ReadAndDecide
  <2>2. CASE Acquire(w) BY <2>2 DEF Acquire
  <2>3. CASE GiveUp(w) BY <2>3 DEF GiveUp
  <2>4. CASE Check(w) BY <2>4 DEF Check, AfterCheck
  <2>5. CASE ReadPrior(w) BY <2>5 DEF ReadPrior
  <2>6. CASE OpenIntent(w) BY <2>6 DEF OpenIntent
  <2>7. CASE WriteIntent(w) BY <2>7 DEF WriteIntent
  <2>8. CASE OpenTemp(w) BY <2>8 DEF OpenTemp
  <2>9. CASE WriteTemp(w) BY <2>9 DEF WriteTemp, AfterWrite
  <2>10. CASE SyncTemp(w) BY <2>10 DEF SyncTemp
  <2>11. CASE Rename(w) BY <2>11 DEF Rename, Publish, AfterRename
  <2>12. CASE SyncDir(w) BY <2>12 DEF SyncDir
  <2>16. CASE SyncDirRejected(w) BY <2>16 DEF SyncDirRejected
  <2>13. CASE DropIntent(w) BY <2>13 DEF DropIntent
  <2>14. CASE WriteFails(w) BY <2>14 DEF WriteFails
  <2>15. CASE IntentFails(w) BY <2>15 DEF IntentFails
  <2> QED
    BY <1>1, <2>1, <2>2, <2>3, <2>4, <2>5, <2>6, <2>7, <2>8, <2>9, <2>10, <2>11, <2>12,
       <2>13, <2>14, <2>15, <2>16 DEF Write
<1>2. ASSUME NEW w \in Writer, Kill(w) \/ Restart(w) \/ Age(w) PROVE OnlyWholeRenamed'
  BY <1>2 DEF Kill, Restart, Age
<1>3. ASSUME NEW w \in Writer, RecJudge(w) PROVE OnlyWholeRenamed'
  BY <1>3 DEF RecJudge, Verdict, Complete
<1>4. CASE RecStart BY <1>4 DEF RecStart
<1>5. CASE RecAct BY <1>5 DEF RecAct, Publish
<1>6. CASE RecUnlink BY <1>6 DEF RecUnlink
<1>7. CASE RecEnd BY <1>7 DEF RecEnd
<1>8. CASE RecKilled BY <1>8 DEF RecKilled
<1>9. CASE Writeback BY <1>9 DEF Writeback
<1>10. CASE PowerLoss BY <1>10 DEF PowerLoss
<1>11. CASE UNCHANGED vars BY <1>11 DEF vars
<1> QED BY <1>1, <1>2, <1>3, <1>4, <1>5, <1>6, <1>7, <1>8, <1>9, <1>10, <1>11 DEF Next, Recover

----------------------------------------------------------------------------
(* A power loss *)

\* Before a writer is told, its bytes and its rename are on the disk, unless
\* someone else published meanwhile.
OnDiskBeforeTold ==
  /\ told # Free => unsynced = <<>> /\ fresh = "disk"
  /\ \A w \in Writer \ Plain :
       /\ pc[w] = "sync" => tmp[w] # "partial"
       /\ pc[w] = "rename" => tmp[w] \in {"none", "synced"}
       /\ pc[w] = "syncdir" /\ moved[w] = "no" => fresh = "disk"
       /\ pc[w] = "drop" /\ moved[w] = "no" /\ excused[w] = "no" => unsynced = <<>> /\ fresh = "disk"

\* Every step keeps what a writer is told true of the disk.
LEMMA ToldStep == TypeOK /\ TempPhase /\ OnDiskBeforeTold /\ [Next]_vars => OnDiskBeforeTold'
<1> SUFFICES ASSUME TypeOK, TempPhase, OnDiskBeforeTold, [Next]_vars PROVE OnDiskBeforeTold'
  OBVIOUS
<1> USE DEF TypeOK, OnDiskBeforeTold, TempPhase, Early, Late, Goto, Released, Forget, Leftover, LeaveRecord, disk, fileVars, writerVars, recVars, history
<1>1. ASSUME NEW w \in Writer, Write(w) PROVE OnDiskBeforeTold'
  <2>1. CASE ReadAndDecide(w) BY <2>1 DEF ReadAndDecide
  <2>2. CASE Acquire(w) BY <2>2 DEF Acquire
  <2>3. CASE GiveUp(w) BY <2>3 DEF GiveUp
  <2>4. CASE Check(w) BY <2>4 DEF Check, AfterCheck
  <2>5. CASE ReadPrior(w) BY <2>5 DEF ReadPrior
  <2>6. CASE OpenIntent(w) BY <2>6 DEF OpenIntent
  <2>7. CASE WriteIntent(w) BY <2>7 DEF WriteIntent
  <2>8. CASE OpenTemp(w) BY <2>8 DEF OpenTemp
  <2>9. CASE WriteTemp(w) BY <2>9 DEF WriteTemp, AfterWrite
  <2>10. CASE SyncTemp(w) BY <2>10 DEF SyncTemp
  <2>11. CASE Rename(w) BY <2>11 DEF Rename, Publish, AfterRename
  <2>12. CASE SyncDir(w) BY <2>12 DEF SyncDir
  <2>16. CASE SyncDirRejected(w) BY <2>16 DEF SyncDirRejected
  <2>13. CASE DropIntent(w) BY <2>13 DEF DropIntent
  <2>14. CASE WriteFails(w) BY <2>14 DEF WriteFails
  <2>15. CASE IntentFails(w) BY <2>15 DEF IntentFails
  <2> QED
    BY <1>1, <2>1, <2>2, <2>3, <2>4, <2>5, <2>6, <2>7, <2>8, <2>9, <2>10, <2>11, <2>12,
       <2>13, <2>14, <2>15, <2>16 DEF Write
<1>2. ASSUME NEW w \in Writer, Kill(w) \/ Restart(w) \/ Age(w) PROVE OnDiskBeforeTold'
  BY <1>2 DEF Kill, Restart, Age
<1>3. ASSUME NEW w \in Writer, RecJudge(w) PROVE OnDiskBeforeTold'
  BY <1>3 DEF RecJudge, JudgedAlive, Alive, Verdict, Complete
<1>4. CASE RecStart BY <1>4 DEF RecStart
<1>5. CASE RecAct BY <1>5 DEF RecAct, Publish
<1>6. CASE RecUnlink BY <1>6 DEF RecUnlink
<1>7. CASE RecEnd BY <1>7 DEF RecEnd
<1>8. CASE RecKilled BY <1>8 DEF RecKilled
<1>9. CASE Writeback BY <1>9 DEF Writeback
<1>10. CASE PowerLoss BY <1>10 DEF PowerLoss
<1>11. CASE UNCHANGED vars BY <1>11 DEF vars
<1> QED BY <1>1, <1>2, <1>3, <1>4, <1>5, <1>6, <1>7, <1>8, <1>9, <1>10, <1>11 DEF Next, Recover

\* Nothing but power is lost, files can be removed, and no writer asks for less than the journal or is
\* taken for dead outside the lock: only bytes that were synced are renamed, and
\* only the record of a dead writer is rolled forward.
OnlySyncedRenamed ==
  /\ target # Torn /\ fresh = "disk"
  /\ unsynced \in Seq([by : Writer, old : Content \union {NoFile}])
  /\ \A w \in Writer :
       /\ tmp[w] = "cached" => pc[w] = "sync"
       /\ pc[w] = "sync" => tmp[w] # "partial"
       /\ pc[w] = "rename" => tmp[w] \in {"none", "synced"}
       /\ wal[w] = "whole" => pc[w] \in (Busy \ {"check", "prior", "intent", "torn"}) \union {"dead"}
  /\ rpc = "act" /\ ract = "roll" =>
       pc[rcur] = "dead" /\ wal[rcur] = "whole" /\ tmp[rcur] \in {"none", "synced"}

PowerOnly == faults \intersect {"kill", "unlink"} = {} /\ Plain = {} /\ Unlocked \intersect Foreign = {}

LEMMA SyncedStep ==
  TypeOK /\ LockHeld /\ TempPhase /\ OnlySyncedRenamed /\ PowerOnly /\ [Next]_vars => OnlySyncedRenamed'
<1> SUFFICES ASSUME TypeOK, LockHeld, TempPhase, OnlySyncedRenamed, PowerOnly, [Next]_vars
             PROVE OnlySyncedRenamed'
  OBVIOUS
<1> USE DEF TypeOK, OnlySyncedRenamed, PowerOnly, LockHeld, TempPhase, Busy, Early, Late, Bytes, Goto, Released, Forget, Leftover, LeaveRecord, disk, fileVars, writerVars, recVars, history
<1>1. ASSUME NEW w \in Writer, Write(w) PROVE OnlySyncedRenamed'
  <2>1. CASE ReadAndDecide(w) BY <2>1 DEF ReadAndDecide
  <2>2. CASE Acquire(w) BY <2>2 DEF Acquire
  <2>3. CASE GiveUp(w) BY <2>3 DEF GiveUp
  <2>4. CASE Check(w) BY <2>4 DEF Check, AfterCheck
  <2>5. CASE ReadPrior(w) BY <2>5 DEF ReadPrior
  <2>6. CASE OpenIntent(w) BY <2>6 DEF OpenIntent
  <2>7. CASE WriteIntent(w) BY <2>7 DEF WriteIntent
  <2>8. CASE OpenTemp(w) BY <2>8 DEF OpenTemp
  <2>9. CASE WriteTemp(w) BY <2>9 DEF WriteTemp, AfterWrite
  <2>10. CASE SyncTemp(w) BY <2>10 DEF SyncTemp
  <2>11. CASE Rename(w) BY <2>11 DEF Rename, Publish, AfterRename
  <2>12. CASE SyncDir(w) BY <2>12 DEF SyncDir
  <2>16. CASE SyncDirRejected(w) BY <2>16 DEF SyncDirRejected
  <2>13. CASE DropIntent(w) BY <2>13 DEF DropIntent
  <2>14. CASE WriteFails(w) BY <2>14 DEF WriteFails
  <2>15. CASE IntentFails(w) BY <2>15 DEF IntentFails
  <2> QED
    BY <1>1, <2>1, <2>2, <2>3, <2>4, <2>5, <2>6, <2>7, <2>8, <2>9, <2>10, <2>11, <2>12,
       <2>13, <2>14, <2>15, <2>16 DEF Write
<1>2. ASSUME NEW w \in Writer, Kill(w) \/ Restart(w) \/ Age(w) PROVE OnlySyncedRenamed'
  BY <1>2 DEF Kill, Restart, Age
<1>3. ASSUME NEW w \in Writer, RecJudge(w) PROVE OnlySyncedRenamed'
  BY <1>3 DEF RecJudge, JudgedAlive, Alive, Verdict, Complete
<1>4. CASE RecStart BY <1>4 DEF RecStart
<1>5. CASE RecAct
  <2>1. CASE ract = "roll" /\ tmp[rcur] # "none" /\ Publish(rcur)
    <3>1. tmp[rcur] = "synced"
      BY <1>5, <2>1 DEF RecAct
    <3>2. target' = want[rcur] /\ fresh' = "disk" /\ unsynced' = Append(unsynced, [by |-> rcur, old |-> target])
      BY <2>1, <3>1 DEF Publish
    <3>3. [by |-> rcur, old |-> target] \in [by : Writer, old : Content \union {NoFile}]
      OBVIOUS
    <3>4. unsynced' \in Seq([by : Writer, old : Content \union {NoFile}])
      BY <3>2, <3>3
    <3> QED
      BY <1>5, <2>1, <3>2, <3>4 DEF RecAct
  <2>2. CASE ract # "roll" /\ UNCHANGED <<disk, moved, told>>
    BY <1>5, <2>2 DEF RecAct
  <2> QED
    BY <1>5, <2>1, <2>2 DEF RecAct
<1>6. CASE RecUnlink
  <2>1. unsynced' \in Seq([by : Writer, old : Content \union {NoFile}])
    <3>1. unsynced' = <<>> \/ unsynced' = unsynced
      BY <1>6 DEF RecUnlink
    <3>2. <<>> \in Seq([by : Writer, old : Content \union {NoFile}])
      OBVIOUS
    <3>3. unsynced \in Seq([by : Writer, old : Content \union {NoFile}])
      OBVIOUS
    <3> QED BY <3>1, <3>2, <3>3
  <2>2. /\ wal' = [wal EXCEPT ![rcur] = "none"] /\ rpc' = "scan"
        /\ UNCHANGED <<target, fresh, pc, tmp>>
    BY <1>6 DEF RecUnlink
  <2> QED BY <2>1, <2>2
<1>7. CASE RecEnd BY <1>7 DEF RecEnd
<1>8. CASE RecKilled BY <1>8 DEF RecKilled
<1>9. CASE Writeback BY <1>9 DEF Writeback
<1>10. CASE PowerLoss
  <2>1. PICK i \in 1..(Len(unsynced) + 1),
             lost \in SUBSET {w \in Writer : tmp[w] = "cached" \/ w \in Undone(1)},
             left \in IF fresh = "cache" THEN {target, Torn} ELSE {target} :
          /\ target' = IF i <= Len(unsynced) THEN unsynced[i].old ELSE left
          /\ tmp' = [w \in Writer |->
                       IF w \in Undone(i)
                       THEN IF w \in lost /\ fresh = "cache" THEN "partial" ELSE "synced"
                       ELSE IF tmp[w] # "cached" THEN tmp[w]
                       ELSE IF w \in lost THEN "partial" ELSE "synced"]
          /\ excused' = [w \in Writer |-> IF w \in Undone(i) THEN "yes" ELSE excused[w]]
    BY <1>10 DEF PowerLoss
  <2>2. target' # Torn
    <3>1. CASE i <= Len(unsynced)
      <4>1. i \in 1..Len(unsynced)
        BY <3>1
      <4>2. unsynced[i] \in [by : Writer, old : Content \union {NoFile}]
        BY <4>1, ElementIn
      <4> QED
        BY <2>1, <3>1, <4>2
    <3> QED
      BY <2>1, <3>1
  <2>3. \A w \in Writer : tmp'[w] # "cached"
    BY <2>1
  <2>4. /\ pc' = [w \in Writer |-> "dead"] /\ fresh' = "disk" /\ unsynced' = <<>>
        /\ rpc' = "idle" /\ UNCHANGED wal
    BY <1>10 DEF PowerLoss
  <2> QED
    BY <2>2, <2>3, <2>4
<1>11. CASE UNCHANGED vars BY <1>11 DEF vars
<1> QED BY <1>1, <1>2, <1>3, <1>4, <1>5, <1>6, <1>7, <1>8, <1>9, <1>10, <1>11 DEF Next, Recover

----------------------------------------------------------------------------
(* Under the lock nothing comes between a read and a rename *)

\* What was read is still there: the bytes recovery compared, and the bytes the
\* caller expected.
StillThere ==
  /\ rpc = "act" /\ ract = "roll" => target = prior[rcur]
  /\ \A w \in Writer :
       pc[w] \in Busy \ {"check", "syncdir", "drop"} /\ seen[w] # NoCheck => target = seen[w]

\* When every writer takes the lock, every step leaves what was read in place.
LEMMA StillThereStep == TypeOK /\ LockHeld /\ StillThere /\ Unlocked = {} /\ [Next]_vars => StillThere'
<1> SUFFICES ASSUME TypeOK, LockHeld, StillThere, Unlocked = {}, [Next]_vars PROVE StillThere'
  OBVIOUS
<1> USE DEF TypeOK, StillThere, LockHeld, Busy, Goto, Released, Forget, Leftover, LeaveRecord, disk, fileVars, writerVars, recVars, history
<1>1. ASSUME NEW w \in Writer, Write(w) PROVE StillThere'
  <2>1. CASE ReadAndDecide(w) BY <2>1 DEF ReadAndDecide
  <2>2. CASE Acquire(w) BY <2>2 DEF Acquire
  <2>3. CASE GiveUp(w) BY <2>3 DEF GiveUp
  <2>4. CASE Check(w) BY <2>4 DEF Check, AfterCheck
  <2>5. CASE ReadPrior(w) BY <2>5 DEF ReadPrior
  <2>6. CASE OpenIntent(w) BY <2>6 DEF OpenIntent
  <2>7. CASE WriteIntent(w) BY <2>7 DEF WriteIntent
  <2>8. CASE OpenTemp(w) BY <2>8 DEF OpenTemp
  <2>9. CASE WriteTemp(w) BY <2>9 DEF WriteTemp, AfterWrite
  <2>10. CASE SyncTemp(w) BY <2>10 DEF SyncTemp
  <2>11. CASE Rename(w) BY <2>11 DEF Rename, Publish, AfterRename
  <2>12. CASE SyncDir(w) BY <2>12 DEF SyncDir
  <2>16. CASE SyncDirRejected(w) BY <2>16 DEF SyncDirRejected
  <2>13. CASE DropIntent(w) BY <2>13 DEF DropIntent
  <2>14. CASE WriteFails(w) BY <2>14 DEF WriteFails
  <2>15. CASE IntentFails(w) BY <2>15 DEF IntentFails
  <2> QED
    BY <1>1, <2>1, <2>2, <2>3, <2>4, <2>5, <2>6, <2>7, <2>8, <2>9, <2>10, <2>11, <2>12,
       <2>13, <2>14, <2>15, <2>16 DEF Write
<1>2. ASSUME NEW w \in Writer, Kill(w) \/ Restart(w) \/ Age(w) PROVE StillThere'
  BY <1>2 DEF Kill, Restart, Age
<1>3. ASSUME NEW w \in Writer, RecJudge(w) PROVE StillThere'
  BY <1>3 DEF RecJudge, Verdict, Complete
<1>4. CASE RecStart BY <1>4 DEF RecStart
<1>5. CASE RecAct BY <1>5 DEF RecAct, Publish
<1>6. CASE RecUnlink BY <1>6 DEF RecUnlink
<1>7. CASE RecEnd BY <1>7 DEF RecEnd
<1>8. CASE RecKilled BY <1>8 DEF RecKilled
<1>9. CASE Writeback BY <1>9 DEF Writeback
<1>10. CASE PowerLoss BY <1>10 DEF PowerLoss
<1>11. CASE UNCHANGED vars BY <1>11 DEF vars
<1> QED BY <1>1, <1>2, <1>3, <1>4, <1>5, <1>6, <1>7, <1>8, <1>9, <1>10, <1>11 DEF Next, Recover

----------------------------------------------------------------------------
(* The theorems *)

\* In the initial states no writer has begun and nothing is left over.
LEMMA InvInit ==
  Init => LockHeld /\ TempPhase /\ RecordFirst /\ OnlyWholeRenamed /\ StillThere /\ OnDiskBeforeTold
          /\ OnlySyncedRenamed
BY DEF Init, LockHeld, TempPhase, RecordFirst, Named, OnlyWholeRenamed, StillThere, Busy,
       Early, Late, TypeOK, OnDiskBeforeTold, OnlySyncedRenamed

\* The temp file of every journaled write under the compile lock is named by a
\* whole record in every state, whatever is killed and whenever recovery runs.
THEOREM TempAlwaysNamed == Spec => []TempIsNamed
<1>1. TypeOK /\ LockHeld /\ TempPhase /\ RecordFirst /\ [Next]_vars
        => (TypeOK /\ LockHeld /\ TempPhase /\ RecordFirst)'
  BY TypeStep, LockStep, PhaseStep, NamedStep
<1>2. RecordFirst => TempIsNamed
  BY DEF RecordFirst, TempIsNamed
<1> QED BY TypeInit, InvInit, <1>1, <1>2, PTL DEF Spec

\* If no power is lost, the file is never torn: not by a kill, not by recovery,
\* not by a writer that recovery takes for dead, with or without the lock.
THEOREM KillsNeverTear == Spec /\ "power" \notin faults => []TargetNeverTorn
<1>1. TypeOK /\ TempPhase /\ OnlyWholeRenamed /\ "power" \notin faults /\ [Next]_vars
        => (TypeOK /\ TempPhase /\ OnlyWholeRenamed /\ "power" \notin faults)'
  BY TypeStep, PhaseStep, WholeStep, FaultsStay
<1>2. OnlyWholeRenamed => TargetNeverTorn
  BY DEF OnlyWholeRenamed, TargetNeverTorn
<1> QED BY TypeInit, InvInit, <1>1, <1>2, PTL DEF Spec

\* When every writer takes the lock, what was read is there until it is replaced.
LEMMA ReadsHold == Unlocked = {} => (Spec => [](TypeOK /\ StillThere))
<1> SUFFICES ASSUME Unlocked = {} PROVE Spec => [](TypeOK /\ StillThere)
  OBVIOUS
<1>1. TypeOK /\ LockHeld /\ StillThere /\ [Next]_vars => (TypeOK /\ LockHeld /\ StillThere)'
  BY TypeStep, LockStep, StillThereStep
<1> QED BY TypeInit, InvInit, <1>1, PTL DEF Spec

\* When every writer takes the lock, recovery replaces the very bytes the dead
\* write meant to replace.
THEOREM RecoveryRespectsPrior == Unlocked = {} => (Spec => RolledOverPrior)
<1> SUFFICES ASSUME Unlocked = {} PROVE Spec => RolledOverPrior
  OBVIOUS
<1>1. TypeOK /\ StillThere => (RecAct /\ ract = "roll" => target = prior[rcur])
  BY DEF StillThere, RecAct
<1> QED BY ReadsHold, <1>1, PTL DEF RolledOverPrior

\* When every writer takes the lock, a write that gave expected_sha256 replaces
\* exactly the bytes it was computed from.
THEOREM CheckedUpdateNotLost == Unlocked = {} => (Spec => UpdateNotLost)
<1> SUFFICES ASSUME Unlocked = {} PROVE Spec => UpdateNotLost
  OBVIOUS
<1>1. TypeOK /\ StillThere =>
        \A w \in Writer : Rename(w) /\ seen[w] # NoCheck => target = seen[w]
  BY DEF StillThere, Rename, Goto, Busy
<1> QED BY ReadsHold, <1>1, PTL DEF UpdateNotLost

\* Once a writer was told, its version survives every power loss, until the next
\* one replaces it: whoever takes no lock, and whatever was killed before.
THEOREM PromisesAreKept == Spec => AcknowledgedIsDurable
<1>1. TypeOK /\ TempPhase /\ OnDiskBeforeTold /\ [Next]_vars
        => (TypeOK /\ TempPhase /\ OnDiskBeforeTold)'
  BY TypeStep, PhaseStep, ToldStep
<1>2. OnDiskBeforeTold => (PowerLoss /\ told # Free => target' = target)
  BY DEF OnDiskBeforeTold, PowerLoss
<1> QED BY TypeInit, InvInit, <1>1, <1>2, PTL DEF Spec, AcknowledgedIsDurable

\* The mutual exclusion, the phases and the syncing together.
SyncedInv == TypeOK /\ LockHeld /\ TempPhase /\ OnlySyncedRenamed /\ PowerOnly

\* What PowerOnly assumes is chosen once.
LEMMA SyncedInvStep == SyncedInv /\ [Next]_vars => SyncedInv'
<1>1. PowerOnly /\ [Next]_vars => PowerOnly'
  BY FaultsStay DEF PowerOnly
<1> QED BY <1>1, TypeStep, LockStep, PhaseStep, SyncedStep DEF SyncedInv

\* If nobody is killed but by a power loss, and every write is journaled, a power
\* loss does not tear the file either, wherever it strikes.
THEOREM PowerLossNeverTears == Spec /\ PowerOnly => []TargetNeverTorn
<1>1. Init /\ PowerOnly => SyncedInv
  BY TypeInit, InvInit DEF SyncedInv
<1>2. SyncedInv => TargetNeverTorn
  BY DEF SyncedInv, OnlySyncedRenamed, TargetNeverTorn
<1> QED BY <1>1, <1>2, SyncedInvStep, PTL DEF Spec

----------------------------------------------------------------------------
(* A file that is replaced in one step *)

\* Kills or power losses; with the latter, what PowerOnly asks for.
OneFault == "power" \in faults => PowerOnly

AtomicInv ==
  /\ TypeOK /\ LockHeld /\ TempPhase /\ OnDiskBeforeTold /\ OneFault
  /\ "power" \notin faults => OnlyWholeRenamed
  /\ PowerOnly => OnlySyncedRenamed

LEMMA AtomicInvInit == Init /\ OneFault => AtomicInv
  BY TypeInit, InvInit DEF AtomicInv

LEMMA AtomicInvStep == AtomicInv /\ [Next]_vars => AtomicInv'
<1> SUFFICES ASSUME AtomicInv, [Next]_vars PROVE AtomicInv'
  OBVIOUS
<1>1. (TypeOK /\ LockHeld /\ TempPhase /\ OnDiskBeforeTold)'
  BY TypeStep, LockStep, PhaseStep, ToldStep DEF AtomicInv
<1>2. OneFault' /\ (PowerOnly' => PowerOnly) /\ faults' = faults
  BY FaultsStay DEF AtomicInv, OneFault, PowerOnly
<1>3. "power" \notin faults => OnlyWholeRenamed'
  BY WholeStep DEF AtomicInv
<1>4. PowerOnly => OnlySyncedRenamed'
  BY SyncedStep DEF AtomicInv
<1> QED
  BY <1>1, <1>2, <1>3, <1>4 DEF AtomicInv

\* The older versions after one more rename.
LEMMA OlderAfter ==
  ASSUME NEW S, NEW s \in Seq(S), NEW e \in S
  PROVE  {Append(s, e)[i].old : i \in DOMAIN Append(s, e)} = {s[i].old : i \in DOMAIN s} \union {e.old}
<1> DEFINE t == Append(s, e)
<1>1. /\ DOMAIN s = 1..Len(s) /\ DOMAIN t = 1..(Len(s) + 1) /\ Len(s) \in Nat
      /\ \A i \in 1..Len(s) : t[i] = s[i]
  OBVIOUS
<1>2. t[Len(s) + 1] = e
  OBVIOUS
<1> HIDE DEF t
<1>3. ASSUME NEW i \in DOMAIN t PROVE t[i].old \in {s[j].old : j \in DOMAIN s} \union {e.old}
  <2>1. i \in DOMAIN s \/ i = Len(s) + 1
    BY <1>1
  <2> QED
    BY <1>1, <1>2, <2>1
<1>4. ASSUME NEW j \in DOMAIN s PROVE s[j].old \in {t[i].old : i \in DOMAIN t}
  <2>1. j \in DOMAIN t /\ t[j] = s[j]
    BY <1>1
  <2> QED
    BY <2>1
<1>5. e.old \in {t[i].old : i \in DOMAIN t}
  <2>1. Len(s) + 1 \in DOMAIN t
    BY <1>1
  <2> QED
    BY <1>2, <2>1
<1>6. {t[i].old : i \in DOMAIN t} = {s[j].old : j \in DOMAIN s} \union {e.old}
  BY <1>3, <1>4, <1>5
<1> QED
  BY <1>6 DEF t

\* A rename of a temp file that is not partial replaces the file.
LEMMA RenameReplaces ==
  ASSUME TypeOK, NEW w \in Writer, tmp[w] # "partial", Publish(w)
  PROVE  File!Replace
<1>1. target' = want[w] /\ want[w] \in Content /\ told' = Free
  BY DEF Publish, TypeOK
<1>2. unsynced' = Append(unsynced, [by |-> w, old |-> target])
  BY DEF Publish
<1>3. /\ unsynced \in Seq([by : Writer, old : Bytes])
      /\ [by |-> w, old |-> target] \in [by : Writer, old : Bytes]
  BY DEF TypeOK
<1>4. {unsynced'[i].old : i \in DOMAIN unsynced'} = {unsynced[i].old : i \in DOMAIN unsynced} \union {target}
  BY <1>2, <1>3, OlderAfter
<1> QED
  BY <1>1, <1>4 DEF File!Replace

\* A power loss brings back what is on disk.
LEMMA LossReverts ==
  ASSUME AtomicInv, PowerLoss
  PROVE  File!PowerLoss
<1>1. "power" \in faults /\ told' = Free /\ unsynced' = <<>> /\ unsynced \in Seq([by : Writer, old : Bytes])
  BY DEF PowerLoss, AtomicInv, TypeOK
<1>2. fresh = "disk"
  BY <1>1 DEF AtomicInv, OneFault, OnlySyncedRenamed
<1>3. PICK i \in 1..(Len(unsynced) + 1) :
        target' = IF i <= Len(unsynced) THEN unsynced[i].old ELSE target
  BY <1>2 DEF PowerLoss
<1>4. target' \in {target} \union {unsynced[j].old : j \in DOMAIN unsynced}
  <2>1. CASE i <= Len(unsynced)
    <3>1. i \in DOMAIN unsynced
      BY <1>1, <2>1
    <3> QED
      BY <1>3, <2>1, <3>1
  <2> QED
    BY <1>3, <2>1
<1>5. {unsynced'[j].old : j \in DOMAIN unsynced'} = {}
  BY <1>1
<1> QED
  BY <1>1, <1>4, <1>5 DEF File!PowerLoss

\* Every step is a step of the atomic file, or none.
LEMMA StepIsAtomic == AtomicInv /\ [Next]_vars => [File!Next]_(File!vars)
<1> SUFFICES ASSUME AtomicInv, [Next]_vars PROVE [File!Next]_(File!vars)
  OBVIOUS
<1>0. TypeOK /\ OnDiskBeforeTold
  BY DEF AtomicInv
<1>1. ASSUME UNCHANGED <<target, unsynced, told>> PROVE UNCHANGED File!vars
  BY <1>1 DEF File!vars
<1>2. ASSUME unsynced' = <<>>, UNCHANGED <<target, told>> PROVE File!Settle
  <2>1. {unsynced'[i].old : i \in DOMAIN unsynced'} = {}
    BY <1>2
  <2> QED
    BY <1>2, <2>1 DEF File!Settle
<1>3. ASSUME NEW w \in Writer, Rename(w) PROVE File!Replace
  <2>1. tmp[w] # "partial" /\ Publish(w)
    BY <1>3 DEF Rename, Goto, AtomicInv, OneFault, OnlyWholeRenamed, OnlySyncedRenamed
  <2> QED
    BY <1>0, <2>1, RenameReplaces
<1>4. ASSUME NEW w \in Writer, DropIntent(w) PROVE File!Promise \/ UNCHANGED File!vars
  <2>1. CASE moved[w] = "no" /\ excused[w] = "no" /\ w \notin Plain
    <3>1. unsynced = <<>> /\ told' = w /\ w # Free /\ UNCHANGED <<target, unsynced>>
      BY <1>0, <1>4, <2>1 DEF DropIntent, Goto, OnDiskBeforeTold, disk
    <3>2. {unsynced[i].old : i \in DOMAIN unsynced} = {}
      BY <3>1
    <3> QED
      BY <3>1, <3>2 DEF File!Promise
  <2>2. CASE ~ (moved[w] = "no" /\ excused[w] = "no" /\ w \notin Plain)
    BY <1>1, <1>4, <2>2 DEF DropIntent, disk
  <2> QED
    BY <2>1, <2>2
<1>5. ASSUME RecAct PROVE File!Replace \/ UNCHANGED File!vars
  <2>1. CASE ract = "roll" /\ tmp[rcur] # "none" /\ Publish(rcur)
    <3>1. tmp[rcur] # "partial" /\ rcur \in Writer
      BY <1>5, <2>1 DEF RecAct, AtomicInv, OneFault, OnlyWholeRenamed, OnlySyncedRenamed, TypeOK
    <3> QED
      BY <1>0, <2>1, <3>1, RenameReplaces
  <2>2. CASE ract # "roll" /\ UNCHANGED <<disk, moved, told>>
    BY <1>1, <2>2 DEF disk, history
  <2> QED
    BY <1>5, <2>1, <2>2 DEF RecAct
<1>6. ASSUME RecUnlink PROVE File!Settle \/ UNCHANGED File!vars
  BY <1>1, <1>2, <1>6 DEF RecUnlink, history
<1>7. ASSUME Writeback \/ (\E w \in Writer : SyncDir(w)) PROVE File!Settle
  BY <1>2, <1>7 DEF Writeback, SyncDir, history
<1>8. ASSUME NEW w \in Writer, Write(w) PROVE File!Next \/ UNCHANGED File!vars
  <2>1. CASE Rename(w) \/ SyncDir(w) \/ DropIntent(w)
    BY <1>3, <1>4, <1>7, <2>1 DEF File!Next
  <2>2. CASE ReadAndDecide(w) \/ Acquire(w) \/ GiveUp(w) \/ Check(w) \/ ReadPrior(w)
             \/ OpenIntent(w) \/ WriteIntent(w) \/ OpenTemp(w) \/ WriteTemp(w)
             \/ SyncTemp(w) \/ SyncDirRejected(w) \/ WriteFails(w) \/ IntentFails(w)
    BY <1>1, <2>2
       DEF ReadAndDecide, Acquire, GiveUp, Check, ReadPrior, OpenIntent, WriteIntent, OpenTemp,
           WriteTemp, SyncTemp, SyncDirRejected, WriteFails, IntentFails, disk, history
  <2> QED
    BY <1>8, <2>1, <2>2 DEF Write
<1>9. ASSUME NEW w \in Writer, Kill(w) \/ Restart(w) \/ Age(w) \/ RecJudge(w)
      PROVE  UNCHANGED File!vars
  BY <1>1, <1>9 DEF Kill, Restart, Age, RecJudge, disk, history
<1>10. ASSUME RecStart \/ RecEnd \/ RecKilled \/ UNCHANGED vars PROVE UNCHANGED File!vars
  BY <1>1, <1>10 DEF RecStart, RecEnd, RecKilled, vars, disk, history
<1>11. ASSUME PowerLoss PROVE File!PowerLoss
  BY <1>11, LossReverts
<1> QED
  BY <1>5, <1>6, <1>7, <1>8, <1>9, <1>10, <1>11 DEF Next, Recover, File!Next

\* Whatever is killed, or wherever the power fails, the file is one that is
\* replaced in one step.
THEOREM WritesAreAtomic == Spec /\ OneFault => ReplacedInOneStep
<1>1. Init => File!Init
  <2> SUFFICES ASSUME Init PROVE File!Init
    OBVIOUS
  <2>1. {unsynced[i].old : i \in DOMAIN unsynced} = {}
    BY DEF Init
  <2> QED
    BY <2>1 DEF Init, File!Init
<1> QED
  BY <1>1, AtomicInvInit, AtomicInvStep, StepIsAtomic, PTL DEF Spec, ReplacedInOneStep, File!Spec
=============================================================================
