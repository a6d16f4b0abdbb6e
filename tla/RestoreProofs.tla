---------------------------- MODULE RestoreProofs -----------------------------
(***************************************************************************)
(* Restore implements Installation, and automation waits for an operator,  *)
(* for any number of restores, edits and failures.                         *)
(***************************************************************************)
EXTENDS Restore, TLAPS

Saving == {"save", "mark"}
Replacing == {"fold", "copy", "record", "complete"}

\* The database and the settings are there, and backups are numbered.
Present ==
  /\ disk["database"] \in Contents /\ disk["settings"] \in Contents
  /\ pending # 0 => pending = restores

\* The previous installation is saved before anything is replaced, and never
\* again afterwards.
Kept ==
  /\ saved => pending # 0 /\ pc # "up" /\ rollback[pending] # None
  /\ pc \in Launching \ {"check"} => pending # 0 /\ rollback[pending] # None
  /\ pc \in Saving => ~saved
  /\ pc \in {"pause", "mark", "fold"} => at = 1
  /\ pc \in Replacing => saved
  /\ pc = "mark" => \A f \in Files : rollback[pending][f] = Now(f)
  /\ pc = "save" => \A i \in 1 .. 3 : i < at => rollback[pending][File[i]] = Now(File[i])

\* What has been replaced holds the backup, and the old log is gone by then.
Replaced ==
  /\ pc \in Replacing \ {"fold"} => wal = None
  /\ pc = "copy" => \A i \in 1 .. 3 : i < at => disk[File[i]] = Backup(pending)
  /\ pc \in {"record", "complete"} => \A f \in Files : disk[f] = Backup(pending)

\* The marker is there unless somebody resumed with the present database.
Marked ==
  /\ pc = "up" => paused = marker
  /\ pc \in Saving \cup Replacing => marker
  /\ ~marker => trusted = Now("database").of

\* The inductive invariant.
Inv == TypeOK /\ Present /\ Kept /\ Replaced /\ Marked
-----------------------------------------------------------------------------
(* Values                                                                  *)

\* The bounds are numbers.
LEMMA BoundsAreNumbers == MaxRestores \in Nat /\ MaxEdits \in Nat /\ MaxFaults \in Nat
BY RestoreAssumption

\* A backup is a content.
LEMMA BackupType == ASSUME NEW k \in 0 .. MaxRestores PROVE Backup(k) \in Contents
BY BoundsAreNumbers DEF Backup, Contents

\* The three places of the sequence of files name the three files.
LEMMA FileOrder ==
  /\ File[1] = "database" /\ File[2] = "settings" /\ File[3] = "notes"
  /\ \A i \in 1 .. 3 : File[i] \in Files
  /\ \A f \in Files : \E i \in 1 .. 3 : File[i] = f
<1>1. File[1] = "database" /\ File[2] = "settings" /\ File[3] = "notes"
  BY DEF File
<1>2. \A i \in 1 .. 3 : i = 1 \/ i = 2 \/ i = 3
  OBVIOUS
<1>3. 1 \in 1 .. 3 /\ 2 \in 1 .. 3 /\ 3 \in 1 .. 3
  OBVIOUS
<1> QED BY <1>1, <1>2, <1>3 DEF Files

\* What SQLite reads has a type, and the database is always there.
LEMMA NowType ==
  ASSUME TypeOK, Present
  PROVE  /\ \A f \in Files : Now(f) \in Contents \cup {None}
         /\ Now("database") \in Contents /\ Now("settings") \in Contents
BY DEF TypeOK, Present, Now, Files

\* The initial states satisfy the invariant.
LEMMA InitInv == Init => Inv
<1> SUFFICES ASSUME Init PROVE Inv
  OBVIOUS
<1>1. 0 \in 0 .. MaxRestores /\ 0 \in 0 .. MaxEdits /\ 0 \in 0 .. MaxFaults /\ 1 \in 1 .. 3
  BY BoundsAreNumbers
<1>2. Backup(0) \in Contents /\ Backup(0).of = 0
  BY <1>1, BackupType DEF Backup
<1>3. disk \in [Files -> Contents \cup {None}]
  BY <1>2 DEF Init
<1>4. TypeOK
  BY <1>1, <1>2, <1>3 DEF Init, TypeOK
<1>5. Present
  BY <1>2 DEF Init, Present
<1>6. Kept /\ Replaced
  BY DEF Init, Kept, Replaced, Launching, Saving, Replacing
<1>7. Marked
  BY <1>2 DEF Init, Marked, Now, Saving, Replacing
<1> QED BY <1>4, <1>5, <1>6, <1>7 DEF Inv
-----------------------------------------------------------------------------
(* The server                                                              *)

\* A server that starts does so without a pending restore, or from its check.
LEMMA LaunchInv == Inv /\ Launch => Inv'
<1> SUFFICES ASSUME Inv, Launch PROVE Inv'
  OBVIOUS
<1> USE DEF Launch, Inv, files, restore, bounds
<1>1. TypeOK'
  BY DEF TypeOK, ServerStarts, PausedAtStart, Launching
<1>2. Present'
  BY DEF Present
<1>3. Kept'
  BY DEF Kept, Launching, Saving, Replacing, ServerStarts, Startable
<1>4. Replaced'
  BY DEF Replaced, Replacing, ServerStarts
<1>5. Marked'
  BY DEF Marked, Saving, Replacing, ServerStarts, PausedAtStart, Now
<1> QED BY <1>1, <1>2, <1>3, <1>4, <1>5

\* A write keeps what an installation comes from.
LEMMA EditInv == Inv /\ Edit => Inv'
<1> SUFFICES ASSUME Inv, Edit PROVE Inv'
  OBVIOUS
<1> USE DEF Edit, Inv, restore, server
<1>1. edits + 1 \in 0 .. MaxEdits
  BY BoundsAreNumbers DEF TypeOK
<1>2. \A f \in {"database", "settings"} : Edited(f) \in Contents /\ Edited(f).of = Now(f).of
  BY <1>1, NowType DEF Edited, Contents
<1>3. [of |-> disk["settings"].of, edits |-> edits + 1] \in Contents
  BY <1>1 DEF Present, Contents
<1>4. disk' \in [Files -> Contents \cup {None}] /\ wal' \in Contents \cup {None}
  BY <1>2, <1>3 DEF TypeOK
<1>5. TypeOK'
  BY <1>1, <1>4 DEF TypeOK
<1>6. Present'
  BY <1>2, <1>3 DEF Present, TypeOK, Files
<1>7. pc' = "up" /\ pc = "up"
  OBVIOUS
<1>8. Kept' /\ Replaced'
  BY <1>7 DEF Kept, Replaced, Launching, Saving, Replacing
<1>9. Now("database")'.of = Now("database").of
  <2>1. CASE wal' = Edited("database") /\ UNCHANGED disk
    <3>1. Edited("database") # None
      BY <1>2, RestoreAssumption
    <3> QED BY <2>1, <3>1, <1>2 DEF Now
  <2>2. CASE disk'["database"] = disk["database"] /\ UNCHANGED wal
    BY <2>2 DEF Now
  <2> QED BY <2>1, <2>2 DEF TypeOK, Files
<1>10. Marked'
  BY <1>7, <1>9 DEF Marked, Saving, Replacing
<1> QED BY <1>5, <1>6, <1>8, <1>10

\* A checkpoint does not change what SQLite reads.
LEMMA CheckpointKeepsNow ==
  ASSUME TypeOK, disk' = [disk EXCEPT !["database"] = Now("database")], wal' = None
  PROVE  \A f \in Files : Now(f)' = Now(f)
BY DEF TypeOK, Now, Files

\* SQLite's own checkpoint.
LEMMA CheckpointInv == Inv /\ Checkpoint => Inv'
<1> SUFFICES ASSUME Inv, Checkpoint PROVE Inv'
  OBVIOUS
<1> USE DEF Checkpoint, Inv, restore, server, bounds
<1>1. disk' = [disk EXCEPT !["database"] = Now("database")]
  BY DEF Now
<1>2. \A f \in Files : Now(f)' = Now(f)
  BY <1>1, CheckpointKeepsNow
<1>3. TypeOK'
  BY DEF TypeOK
<1>4. Present'
  BY DEF Present, TypeOK, Files
<1>5. Kept' /\ Replaced'
  BY DEF Kept, Replaced, Launching, Saving, Replacing
<1>6. Marked'
  BY <1>2 DEF Marked, Saving, Replacing, Files
<1> QED BY <1>3, <1>4, <1>5, <1>6

\* What the operator asks of the controller.
LEMMA RequestInv == Inv /\ (Pause \/ Resume \/ Stage) => Inv'
<1> SUFFICES ASSUME Inv, Pause \/ Resume \/ Stage PROVE Inv'
  OBVIOUS
<1> USE DEF Inv, files, restore, server, bounds
<1>1. Now("database") \in Contents
  BY NowType
<1>2. \A f \in Files : Now(f)' = Now(f)
  BY DEF Pause, Resume, Stage, Now
<1>3. pc = "up" /\ pc' = "up" /\ UNCHANGED <<disk, wal, rollback, last, at, edits, faults>>
  BY DEF Pause, Resume, Stage
<1>4. TypeOK'
  <2>1. CASE Pause
    BY <2>1 DEF Pause, TypeOK
  <2>2. CASE Resume
    BY <2>2, <1>1 DEF Resume, TypeOK, Contents
  <2>3. CASE Stage
    <3>1. restores' \in 0 .. MaxRestores /\ pending' \in 0 .. MaxRestores
      BY <2>3, BoundsAreNumbers DEF Stage, TypeOK
    <3>2. UNCHANGED <<disk, wal, rollback, last, marker, pc, at, paused, trusted, edits, faults>>
      BY <2>3 DEF Stage
    <3> QED BY <2>3, <3>1, <3>2 DEF Stage, TypeOK
  <2> QED BY <2>1, <2>2, <2>3
<1>5. Present'
  BY <1>3 DEF Pause, Resume, Stage, Present
<1>6. Kept'
  BY <1>3 DEF Pause, Resume, Stage, Kept, Launching, Saving, Replacing
<1>7. Replaced'
  BY <1>3 DEF Replaced, Replacing
<1>8. Marked'
  BY <1>2, <1>3 DEF Pause, Resume, Stage, Marked, Saving, Replacing, Files
<1> QED BY <1>4, <1>5, <1>6, <1>7, <1>8

\* The launcher may die anywhere.
LEMMA StopInv == Inv /\ Stop => Inv'
<1> SUFFICES ASSUME Inv, Stop PROVE Inv'
  OBVIOUS
<1> USE DEF Stop, Inv, files, restore
<1>1. faults' \in 0 .. MaxFaults
  BY BoundsAreNumbers DEF TypeOK
<1>2. TypeOK'
  BY <1>1 DEF TypeOK
<1>3. Present'
  BY DEF Present
<1>4. Kept' /\ Replaced'
  BY DEF Kept, Replaced, Launching, Saving, Replacing
<1>5. Marked'
  BY DEF Marked, Saving, Replacing, Now
<1> QED BY <1>2, <1>3, <1>4, <1>5
-----------------------------------------------------------------------------
(* The launcher                                                            *)

\* The rollback directory is there from now on.
LEMMA CheckInv == Inv /\ Check => Inv'
<1> SUFFICES ASSUME Inv, Check PROVE Inv'
  OBVIOUS
<1> USE DEF Check, Inv, files, restore, bounds
<1>1. Nothing \in [Files -> Contents \cup {None}] /\ Nothing # None
  BY RestoreAssumption DEF Nothing
<1>2. rollback' \in [1 .. MaxRestores -> [Files -> Contents \cup {None}] \cup {None}]
  BY <1>1 DEF TypeOK, MakeRollback
<1>3. pending # 0 => pending \in 1 .. MaxRestores /\ rollback'[pending] # None
  <2>1. pending # 0 => pending \in 1 .. MaxRestores
    BY BoundsAreNumbers DEF TypeOK
  <2>2. pending # 0 => MakeRollback
    OBVIOUS
  <2> QED BY <2>1, <2>2, <1>1 DEF TypeOK, MakeRollback
<1>4. TypeOK'
  BY <1>2 DEF TypeOK, MakeRollback, ServerStarts, PausedAtStart, Launching
<1>5. Present'
  BY DEF Present
<1>6. Kept'
  BY <1>3, BoundsAreNumbers DEF TypeOK, Kept, Launching, Saving, Replacing, ServerStarts, MakeRollback
<1>7. Replaced'
  BY DEF Replaced, Replacing, ServerStarts, MakeRollback
<1>8. Marked'
  BY DEF Marked, Saving, Replacing, ServerStarts, PausedAtStart, MakeRollback, Now
<1> QED BY <1>4, <1>5, <1>6, <1>7, <1>8

\* The launcher pauses, and saves unless it has saved before.
LEMMA WritePauseMarkerInv == Inv /\ WritePauseMarker => Inv'
<1> SUFFICES ASSUME Inv, WritePauseMarker PROVE Inv'
  OBVIOUS
<1> USE DEF WritePauseMarker, Inv, files, restore, bounds
<1>1. TypeOK'
  BY DEF TypeOK, Launching
<1>2. Present'
  BY DEF Present
<1>3. Kept' /\ Replaced'
  BY DEF Kept, Replaced, Launching, Saving, Replacing, SavedBefore
<1>4. Marked'
  BY DEF Marked, Saving, Replacing, Now
<1> QED BY <1>1, <1>2, <1>3, <1>4

\* What the next place of the sequence is.
LEMMA NextFileStep ==
  ASSUME NEW label, at \in 1 .. 3, NextFile(label)
  PROVE  /\ at = 3 => at' = 1 /\ pc' = label
         /\ at # 3 => at' = at + 1 /\ at' \in 1 .. 3 /\ pc' = pc
BY DEF NextFile

\* One more file is saved, as SQLite and the launcher read it.
LEMMA SavePreviousInv == Inv /\ SavePrevious => Inv'
<1> SUFFICES ASSUME Inv, SavePrevious PROVE Inv'
  OBVIOUS
<1> USE DEF SavePrevious, Inv, files, bounds
<1> DEFINE old == rollback[pending]
           new == [old EXCEPT ![File[at]] = Now(File[at])]
<1>1. pending \in 1 .. MaxRestores /\ old \in [Files -> Contents \cup {None}] /\ at \in 1 .. 3
  BY BoundsAreNumbers DEF TypeOK, Kept, Launching
<1>2. File[at] \in Files
  BY <1>1, FileOrder
<1>3. new \in [Files -> Contents \cup {None}] /\ new # None
  BY <1>1, <1>2, NowType, RestoreAssumption
<1>4. rollback' = [rollback EXCEPT ![pending] = new]
  BY <1>1
<1>5. rollback' \in [1 .. MaxRestores -> [Files -> Contents \cup {None}] \cup {None}] /\ rollback'[pending] = new
  BY <1>1, <1>3, <1>4 DEF TypeOK
<1>6. /\ at = 3 => at' = 1 /\ pc' = "mark"
      /\ at # 3 => at' = at + 1 /\ at' \in 1 .. 3 /\ pc' = "save"
  BY <1>1, NextFileStep
<1>7. TypeOK'
  BY <1>5, <1>6 DEF TypeOK, Launching
<1>8. Present'
  BY DEF Present
<1>9. \A f \in Files : Now(f)' = Now(f)
  BY DEF Now
<1>10. \A i \in 1 .. 3 : i <= at => new[File[i]] = Now(File[i])
  BY <1>1, <1>2, FileOrder DEF Kept
<1>11. Kept'
  <2>1. CASE at = 3
    <3>1. \A i \in 1 .. 3 : new[File[i]] = Now(File[i])
      BY <2>1, <1>10
    <3>2. \A f \in Files : new[f] = Now(f)
      BY <3>1, FileOrder
    <3> QED BY <2>1, <3>2, <1>3, <1>5, <1>6, <1>9, <1>1 DEF Kept, Launching, Saving, Replacing
  <2>2. CASE at # 3
    <3>1. \A i \in 1 .. 3 : i < at' => new[File[i]] = Now(File[i])
      BY <2>2, <1>1, <1>6, <1>10
    <3> QED BY <2>2, <3>1, <1>3, <1>5, <1>6, <1>9, <1>1, FileOrder DEF Kept, Launching, Saving, Replacing
  <2> QED BY <2>1, <2>2
<1>12. Replaced'
  BY <1>1, <1>6 DEF Replaced, Replacing
<1>13. Marked'
  BY <1>1, <1>6, <1>9 DEF Marked, Saving, Replacing, Files
<1> QED BY <1>7, <1>8, <1>11, <1>12, <1>13

\* From here on nothing is saved again.
LEMMA MarkSavedInv == Inv /\ MarkSaved => Inv'
<1> SUFFICES ASSUME Inv, MarkSaved PROVE Inv'
  OBVIOUS
<1> USE DEF MarkSaved, Inv, files, bounds
<1>1. TypeOK'
  BY DEF TypeOK, Launching
<1>2. Present'
  BY DEF Present
<1>3. Kept' /\ Replaced'
  BY DEF Kept, Replaced, Launching, Saving, Replacing
<1>4. Marked'
  BY DEF Marked, Saving, Replacing, Now
<1> QED BY <1>1, <1>2, <1>3, <1>4

\* The log is gone; what SQLite reads is the same.
LEMMA FoldLogInv == Inv /\ FoldLog => Inv'
<1> SUFFICES ASSUME Inv, FoldLog PROVE Inv'
  OBVIOUS
<1> USE DEF FoldLog, Inv, restore, bounds
<1>1. \A f \in Files : Now(f)' = Now(f)
  BY CheckpointKeepsNow
<1>2. TypeOK'
  BY NowType DEF TypeOK, Launching
<1>3. Present'
  BY NowType DEF Present, TypeOK, Files
<1>4. Kept'
  BY DEF Kept, Launching, Saving, Replacing
<1>5. Replaced'
  BY DEF Kept, Replaced, Replacing
<1>6. Marked'
  BY <1>1 DEF Marked, Saving, Replacing, Files
<1> QED BY <1>2, <1>3, <1>4, <1>5, <1>6

\* One more file is replaced.
LEMMA CopyFileInv == Inv /\ CopyFile => Inv'
<1> SUFFICES ASSUME Inv, CopyFile PROVE Inv'
  OBVIOUS
<1> USE DEF CopyFile, Inv, restore, bounds
<1>1. at \in 1 .. 3 /\ File[at] \in Files /\ Backup(pending) \in Contents
  BY FileOrder, BackupType DEF TypeOK
<1>2. /\ at = 3 => at' = 1 /\ pc' = "record"
      /\ at # 3 => at' = at + 1 /\ at' \in 1 .. 3 /\ pc' = "copy"
  BY <1>1, NextFileStep
<1>3. TypeOK'
  BY <1>1, <1>2 DEF TypeOK, Launching
<1>4. Present'
  BY <1>1 DEF Present, TypeOK, Files
<1>5. Kept'
  BY <1>2, <1>1 DEF Kept, Launching, Saving, Replacing
<1>6. \A i \in 1 .. 3 : i <= at => disk'[File[i]] = Backup(pending)
  BY <1>1, FileOrder DEF Replaced, TypeOK
<1>7. Backup(pending)' = Backup(pending)
  BY DEF Backup
<1>8. Replaced'
  <2>1. CASE at = 3
    <3>1. \A i \in 1 .. 3 : disk'[File[i]] = Backup(pending)
      BY <2>1, <1>6
    <3>2. \A f \in Files : disk'[f] = Backup(pending)
      BY <3>1, FileOrder
    <3> QED BY <2>1, <3>2, <1>2, <1>7 DEF Replaced, Replacing
  <2>2. CASE at # 3
    <3>1. \A i \in 1 .. 3 : i < at' => disk'[File[i]] = Backup(pending)
      BY <2>2, <1>1, <1>2, <1>6
    <3> QED BY <2>2, <3>1, <1>2, <1>7 DEF Replaced, Replacing
  <2> QED BY <2>1, <2>2
<1>9. Marked'
  BY <1>1, <1>2 DEF Marked, Saving, Replacing
<1> QED BY <1>3, <1>4, <1>5, <1>8, <1>9

\* The last two steps replace nothing.
LEMMA EndInv == Inv /\ (RecordRestore \/ Complete) => Inv'
<1> SUFFICES ASSUME Inv, RecordRestore \/ Complete PROVE Inv'
  OBVIOUS
<1> USE DEF RecordRestore, Complete, Inv, files, bounds
<1>1. TypeOK'
  <2>1. 0 \in 0 .. MaxRestores
    BY BoundsAreNumbers
  <2>2. UNCHANGED <<disk, wal, rollback, marker, at, paused, trusted, restores, edits, faults>>
    OBVIOUS
  <2>3. /\ pending' \in {pending, 0} /\ last' \in {pending, last}
        /\ saved' \in {saved, FALSE} /\ pc' \in {"complete", "check"}
    OBVIOUS
  <2> QED BY <2>1, <2>2, <2>3 DEF TypeOK, Launching
<1>2. Present'
  BY DEF Present
<1>3. Kept'
  BY DEF Kept, Launching, Saving, Replacing
<1>4. Replaced'
  BY DEF Replaced, Replacing, Backup
<1>5. Marked'
  BY DEF Marked, Saving, Replacing, Now
<1> QED BY <1>1, <1>2, <1>3, <1>4, <1>5

\* Every step keeps the invariant.
LEMMA StepInv == Inv /\ [Next]_vars => Inv'
<1> SUFFICES ASSUME Inv, [Next]_vars PROVE Inv'
  OBVIOUS
<1>1. CASE UNCHANGED vars
  BY <1>1 DEF vars, files, restore, server, bounds, Inv, TypeOK, Present, Kept, Replaced, Marked, Now
<1>2. CASE Next
  BY <1>2, LaunchInv, EditInv, CheckpointInv, RequestInv, StopInv, CheckInv, WritePauseMarkerInv,
     SavePreviousInv, MarkSavedInv, FoldLogInv, CopyFileInv, EndInv DEF Next, LauncherStep
<1> QED BY <1>1, <1>2

\* The invariant, which the refinement below rests on.
THEOREM Invariance == Spec => []Inv
<1> QED BY InitInv, StepInv, PTL DEF Spec

\* Files, directories and the launcher always hold values of their types.
THEOREM TypeCorrect == Spec => []TypeOK
<1>1. Inv => TypeOK
  BY DEF Inv
<1> QED BY <1>1, Invariance, PTL

\* README.md:1044: nothing works by itself under a restored database
\* before an operator resumed the controller.
THEOREM OperatorResumesFirst == Spec => []AutomationWaits
<1>1. Inv => AutomationWaits
  BY DEF Inv, Marked, AutomationWaits
<1> QED BY <1>1, Invariance, PTL
-----------------------------------------------------------------------------
(* The refinement                                                          *)

\* The archive of finished restores.
Archive == {rollback[k] : k \in 1 .. IF pending = 0 THEN restores ELSE restores - 1}
Waiting == IF pending = 0 THEN None ELSE [f \in Files |-> Backup(pending)]
AbstractStep == [Whole!Next]_(Whole!vars)

\* An initial state is one of the abstract specification.
LEMMA InitRefines == Init => Whole!Init
<1> SUFFICES ASSUME Init PROVE Whole!Init
  OBVIOUS
<1>1. Inv
  BY InitInv
<1>2. Previous \in [Files -> Contents \cup {None}]
  BY <1>1, NowType DEF Init, Inv, Previous
<1>3. Archive = {}
  BY DEF Init, Archive
<1> QED BY <1>2, <1>3 DEF Init, Whole!Init, Whole!Installations, Archive

\* A step that changes nothing the abstract specification sees.
LEMMA Unseen ==
  ASSUME pc = "up" <=> pc' = "up", Previous' = Previous, pending' = pending, Archive' = Archive
  PROVE  AbstractStep
<1>1. Waiting' = Waiting
  BY DEF Waiting, Backup
<1>2. (pc = "up")' = (pc = "up")
  OBVIOUS
<1> QED BY <1>1, <1>2 DEF AbstractStep, Whole!vars, Archive, Waiting

\* The server starts and stops.
LEMMA ServerRefines == Inv /\ (Launch \/ Stop) => AbstractStep
<1> SUFFICES ASSUME Inv, Launch \/ Stop PROVE AbstractStep
  OBVIOUS
<1>1. UNCHANGED <<disk, wal, pending, saved, rollback, restores>>
  BY DEF Launch, Stop, files, restore, bounds
<1>2. Previous' = Previous /\ Archive' = Archive /\ Waiting' = Waiting
  BY <1>1 DEF Previous, Now, Archive, Waiting, Backup
<1>3. CASE pc = "up" <=> pc' = "up"
  BY <1>1, <1>2, <1>3, Unseen
<1>4. CASE pc # "up" /\ pc' = "up"
  <2>1. pending = 0
    BY <1>4 DEF Launch, Stop, Startable
  <2> QED BY <1>2, <1>4, <2>1 DEF AbstractStep, Whole!Next, Whole!Start, Archive, Waiting
<1>5. CASE pc = "up" /\ pc' # "up"
  BY <1>2, <1>5 DEF AbstractStep, Whole!Next, Whole!Stop, Archive, Waiting
<1> QED BY <1>3, <1>4, <1>5

\* While the server runs, the previous installation is what is on the disk.
LEMMA EditRefines == Inv /\ Edit => AbstractStep
<1> SUFFICES ASSUME Inv, Edit PROVE AbstractStep
  OBVIOUS
<1>1. pc = "up" /\ ~saved /\ UNCHANGED <<pc, pending, saved, rollback, restores>>
  BY DEF Edit, Inv, Kept, restore, server
<1>2. Archive' = Archive /\ Waiting' = Waiting
  BY <1>1 DEF Archive, Waiting, Backup
<1>3. Inv' /\ disk' \in [Files -> Contents \cup {None}] /\ wal' \in Contents \cup {None}
  BY EditInv DEF Inv, TypeOK
<1>4. \A f \in Files : Now(f)' \in Contents \cup {None}
  BY <1>3 DEF Now, Files
<1>5. PICK f \in Files : \A g \in Files : g # f => Now(g)' = Now(g)
  BY DEF Edit, Now, Files, Inv, TypeOK
<1>6. Previous' = [Previous EXCEPT ![f] = Now(f)']
  BY <1>1, <1>5 DEF Previous
<1> QED BY <1>1, <1>2, <1>4, <1>5, <1>6 DEF AbstractStep, Whole!Next, Whole!Edit, Archive, Waiting

\* A restore is asked for.
LEMMA RequestRefines == Inv /\ (Pause \/ Resume \/ Checkpoint \/ Stage) => AbstractStep
<1> SUFFICES ASSUME Inv, Pause \/ Resume \/ Checkpoint \/ Stage PROVE AbstractStep
  OBVIOUS
<1>1. pc = "up" /\ ~saved /\ ~saved' /\ UNCHANGED <<pc, rollback>>
  BY DEF Pause, Resume, Checkpoint, Stage, Inv, Kept, files, restore, server
<1>2. \A f \in Files : Now(f)' = Now(f)
  <2>1. CASE Checkpoint
    BY <2>1, CheckpointKeepsNow DEF Checkpoint, Now, Inv
  <2>2. CASE UNCHANGED files
    BY <2>2 DEF files, Now
  <2> QED BY <2>1, <2>2 DEF Pause, Resume, Stage, files
<1>3. Previous' = Previous
  BY <1>1, <1>2 DEF Previous
<1>4. CASE ~Stage
  <2>1. UNCHANGED <<pending, restores>>
    BY <1>4 DEF Pause, Resume, Checkpoint, restore, bounds
  <2>2. Archive' = Archive
    BY <1>1, <2>1 DEF Archive
  <2> QED BY <1>1, <1>3, <2>1, <2>2, Unseen
<1>5. CASE Stage
  <2>1. pending = 0 /\ pending' # 0 /\ restores' - 1 = restores /\ pending' \in 0 .. MaxRestores
    BY <1>5, BoundsAreNumbers DEF Stage, Inv, TypeOK
  <2>2. Archive' = Archive
    BY <1>1, <2>1 DEF Archive
  <2>3. Waiting = None /\ Waiting' \in [Files -> Contents \cup {None}]
    BY <2>1, BackupType DEF Waiting, Backup
  <2> QED BY <1>1, <1>3, <2>2, <2>3
      DEF AbstractStep, Whole!Next, Whole!Request, Whole!Installations, Archive, Waiting
<1> QED BY <1>4, <1>5

\* The check starts the server or prepares the rollback directory, which is
\* not read before it is complete.
LEMMA CheckRefines == Inv /\ Check => AbstractStep
<1> SUFFICES ASSUME Inv, Check PROVE AbstractStep
  OBVIOUS
<1>1. CASE pending = 0
  <2>1. UNCHANGED <<disk, wal, pending, saved, rollback, restores>> /\ pc # "up" /\ pc' = "up"
    BY <1>1 DEF Check, files, restore, bounds, ServerStarts
  <2>2. Previous' = Previous /\ Archive' = Archive /\ Waiting' = Waiting
    BY <2>1 DEF Previous, Now, Archive, Waiting, Backup
  <2> QED BY <1>1, <2>1, <2>2 DEF AbstractStep, Whole!Next, Whole!Start, Archive, Waiting
<1>2. CASE pending # 0
  <2>1. pc # "up" /\ pc' # "up" /\ MakeRollback /\ UNCHANGED <<disk, wal, pending, saved, restores>>
    BY <1>2 DEF Check, files, bounds, MakeRollback
  <2>2. saved => rollback' = rollback
    BY <2>1 DEF Inv, Kept, MakeRollback
  <2>3. Previous' = Previous
    BY <2>1, <2>2 DEF Previous, Now
  <2>4. \A k \in 1 .. restores - 1 : rollback'[k] = rollback[k]
    BY <1>2, <2>1 DEF Inv, Present, TypeOK, MakeRollback
  <2>5. Archive' = Archive
    BY <1>2, <2>1, <2>4 DEF Archive
  <2> QED BY <2>1, <2>3, <2>5, Unseen
<1> QED BY <1>1, <1>2

\* What is saved is not read before all of it is, and then it is the same.
LEMMA SavingRefines == Inv /\ (WritePauseMarker \/ SavePrevious \/ MarkSaved) => AbstractStep
<1> SUFFICES ASSUME Inv, WritePauseMarker \/ SavePrevious \/ MarkSaved PROVE AbstractStep
  OBVIOUS
<1>1. pc # "up" /\ pending # 0 /\ UNCHANGED <<disk, wal, pending, restores>>
  BY DEF WritePauseMarker, SavePrevious, MarkSaved, Inv, Kept, Launching, files, restore, bounds
<1>2. pc' # "up"
  BY DEF WritePauseMarker, SavePrevious, MarkSaved, NextFile
<1>3. \A k \in 1 .. restores - 1 : rollback'[k] = rollback[k]
  <2>1. \A k \in 1 .. restores - 1 : k \in 1 .. MaxRestores /\ k # pending
    BY <1>1, BoundsAreNumbers DEF Inv, Present, TypeOK
  <2>2. CASE SavePrevious
    BY <2>1, <2>2 DEF SavePrevious, Inv, TypeOK
  <2>3. CASE WritePauseMarker \/ MarkSaved
    BY <2>3 DEF WritePauseMarker, MarkSaved, restore
  <2> QED BY <2>2, <2>3
<1>4. Archive' = Archive
  BY <1>1, <1>3 DEF Archive
<1>5. Previous' = Previous
  <2>1. CASE WritePauseMarker
    BY <2>1, <1>1 DEF WritePauseMarker, restore, Previous, Now
  <2>2. CASE SavePrevious
    BY <2>2, <1>1 DEF SavePrevious, Inv, Kept, Saving, Previous, Now
  <2>3. CASE MarkSaved
    BY <2>3, <1>1 DEF MarkSaved, Inv, Kept, Saving, Previous, Now
  <2> QED BY <2>1, <2>2, <2>3
<1> QED BY <1>1, <1>2, <1>4, <1>5, Unseen

\* While files are replaced the saved installation is the previous one.
LEMMA ReplacingRefines == Inv /\ (FoldLog \/ CopyFile \/ RecordRestore) => AbstractStep
<1> SUFFICES ASSUME Inv, FoldLog \/ CopyFile \/ RecordRestore PROVE AbstractStep
  OBVIOUS
<1>1. pc # "up" /\ saved /\ UNCHANGED <<pending, saved, rollback, restores>>
  BY DEF FoldLog, CopyFile, RecordRestore, Inv, Kept, Replacing, restore, bounds
<1>2. pc' # "up"
  BY DEF FoldLog, CopyFile, RecordRestore, NextFile
<1>3. Previous' = Previous /\ Archive' = Archive
  BY <1>1 DEF Previous, Archive
<1> QED BY <1>1, <1>2, <1>3, Unseen

\* The rename installs the backup and archives what was saved.
LEMMA CompleteRefines == Inv /\ Complete => AbstractStep
<1> SUFFICES ASSUME Inv, Complete PROVE AbstractStep
  OBVIOUS
<1>1. pc # "up" /\ pc' # "up" /\ saved /\ ~saved' /\ pending # 0 /\ pending' = 0
  BY DEF Complete, Inv, Kept, Launching, Replacing
<1>2. UNCHANGED <<disk, wal, rollback, restores>> /\ pending = restores /\ restores \in Nat
  BY <1>1, BoundsAreNumbers DEF Complete, files, bounds, Inv, Present, TypeOK
<1>3. pending \in 1 .. MaxRestores /\ rollback[pending] \in [Files -> Contents \cup {None}]
  BY <1>1, BoundsAreNumbers DEF Inv, TypeOK, Kept
<1>4. Previous = rollback[pending]
  BY <1>1, <1>3 DEF Previous
<1>5. wal = None /\ \A f \in Files : disk[f] = Backup(pending)
  BY DEF Complete, Inv, Replaced, Replacing
<1>6. Previous' = Waiting
  BY <1>1, <1>2, <1>5 DEF Previous, Waiting, Now
<1>7. Archive' = Archive \cup {Previous}
  <2>1. 1 .. restores = (1 .. restores - 1) \cup {restores}
    BY <1>2, <1>1
  <2>2. Archive = {rollback[k] : k \in 1 .. restores - 1}
    BY <1>1 DEF Archive
  <2>3. Archive' = {rollback[k] : k \in 1 .. restores}
    BY <1>1, <1>2 DEF Archive
  <2> QED BY <2>1, <2>2, <2>3, <1>2, <1>4
<1>8. Waiting # None
  <2>1. Waiting \in [Files -> Contents \cup {None}]
    BY <1>1, <1>3, BackupType DEF Waiting
  <2> QED BY <2>1, RestoreAssumption
<1>9. Waiting' = None
  BY <1>1 DEF Waiting
<1> QED BY <1>1, <1>6, <1>7, <1>8, <1>9 DEF AbstractStep, Whole!Next, Whole!Install, Archive, Waiting

\* Every step is a step of the abstract specification, or none.
LEMMA StepRefines == Inv /\ [Next]_vars => AbstractStep
<1> SUFFICES ASSUME Inv, [Next]_vars PROVE AbstractStep
  OBVIOUS
<1>1. CASE UNCHANGED vars
  <2>1. UNCHANGED <<pc, disk, wal, pending, saved, rollback, restores>>
    BY <1>1 DEF vars, files, restore, server, bounds
  <2>2. Previous' = Previous /\ Archive' = Archive
    BY <2>1 DEF Previous, Archive, Now
  <2> QED BY <2>1, <2>2, Unseen
<1>2. CASE Next
  BY <1>2, ServerRefines, EditRefines, RequestRefines, CheckRefines, SavingRefines,
     ReplacingRefines, CompleteRefines DEF Next, LauncherStep
<1> QED BY <1>1, <1>2

\* README.md:1102: a restore replaces the whole installation while no server
\* runs, or nothing, and keeps the one that was there.
THEOREM RestoresAreAtomic == Spec => RestoreIsAtomic
<1> QED BY Invariance, InitRefines, StepRefines, PTL
    DEF Spec, RestoreIsAtomic, Whole!Spec, AbstractStep
=============================================================================
