------------------------------- MODULE Restore --------------------------------
(***************************************************************************)
(* Staging a backup and installing it at the next start: app/restore.py,   *)
(* app/launcher.py and the beginning of lifespan in app/main.py.           *)
(*                                                                         *)
(* An installation is a database with its write-ahead log, the settings    *)
(* and the notes.  Each file is replaced atomically, the three of them one *)
(* after the other, and the container may die or an operation raise        *)
(* between any two of these steps; the launcher then starts from the       *)
(* beginning.  Contents are told apart by the backup they come from and    *)
(* the edits made since.  Every guard that refuses a restore (hashes,      *)
(* free space, symbolic links, a changed target) is a step that fails.     *)
(* A paused controller is taken to be drained: PostPromotion shows that.   *)
(***************************************************************************)
EXTENDS Naturals

CONSTANTS
  None,
  MaxRestores, MaxEdits, MaxFaults   \* bounds: backups staged, writes, failures

Files == {"database", "settings", "notes"}
File == <<"database", "settings", "notes">>
Contents == [of : 0 .. MaxRestores, edits : 0 .. MaxEdits]

ASSUME RestoreAssumption ==
  /\ MaxRestores \in Nat /\ MaxEdits \in Nat /\ MaxFaults \in Nat
  /\ None \notin Contents /\ None \notin [Files -> Contents \cup {None}]

VARIABLES
  disk,       \* the files of the installation
  wal,        \* the database's write-ahead log: what the database is with it
  pending,    \* .restore-pending: the number of the backup, or 0
  saved,      \* saved_previous in its apply.json
  rollback,   \* before-restore-<id>: None until the directory exists
  last,       \* last-restore.json
  marker,     \* controller-paused.json exists
  pc,         \* the launcher, or "up" while the server runs
  at,         \* the file it saves or copies next
  paused,     \* Controller.paused
  trusted,    \* history: the backup with which automation was last resumed
  restores, edits, faults

files == <<disk, wal>>
restore == <<pending, saved, rollback, last>>
server == <<marker, pc, at, paused, trusted>>
bounds == <<restores, edits, faults>>
vars == <<files, restore, server, bounds>>

Backup(k) == [of |-> k, edits |-> 0]
Nothing == [f \in Files |-> None]
Launching == {"check", "pause", "save", "mark", "fold", "copy", "record", "complete"}

\* What SQLite reads: the log, when there is one, wins.
Now(f) == IF f = "database" /\ wal # None THEN wal ELSE disk[f]

\* The notes are optional.
Init ==
  /\ disk \in [Files -> {Backup(0), None}]
  /\ disk["database"] = Backup(0) /\ disk["settings"] = Backup(0)
  /\ wal = None
  /\ pending = 0 /\ saved = FALSE /\ rollback = [k \in 1 .. MaxRestores |-> None] /\ last = 0
  /\ marker \in BOOLEAN /\ pc = "down" /\ at = 1 /\ paused = TRUE /\ trusted = 0
  /\ restores = 0 /\ edits = 0 /\ faults = 0

-----------------------------------------------------------------------------
(* The server                                                              *)

\* Mutant of PausedAtStart: the marker of the last run is overlooked.
NeverPaused == FALSE
\* Controller.__init__
PausedAtStart == marker

ServerStarts == pc' = "up" /\ paused' = PausedAtStart

Startable == pending = 0

\* The image's entrypoint, or a command that goes around the launcher.  Both also
\* write the settings of their environment into the settings file
\* (persist_settings): that is data here, and the file stays the edit it was.
Launch ==
  /\ pc = "down"
  /\ \/ pc' = "check" /\ UNCHANGED paused
     \/ Startable /\ ServerStarts
  /\ UNCHANGED <<files, restore, marker, at, trusted, bounds>>

Edited(f) == [of |-> Now(f).of, edits |-> edits + 1]

\* A running application writes its database through the log, unless it is
\* paused and waits for a restart; an administrator saves settings while it is
\* paused, and the notes at any time.
Edit ==
  /\ pc = "up" /\ edits < MaxEdits /\ edits' = edits + 1
  /\ \/ (~paused \/ pending = 0) /\ wal' = Edited("database") /\ UNCHANGED disk
     \/ /\ paused /\ pending = 0
        /\ disk' = [disk EXCEPT !["settings"] = Edited("settings")] /\ UNCHANGED wal
     \/ /\ disk' = [disk EXCEPT !["notes"] = [of |-> disk["settings"].of, edits |-> edits + 1]]
        /\ UNCHANGED wal
  /\ UNCHANGED <<restore, server, restores, faults>>

\* SQLite moves the log into the database, when it likes.
Checkpoint ==
  /\ pc = "up" /\ wal # None
  /\ disk' = [disk EXCEPT !["database"] = wal] /\ wal' = None
  /\ UNCHANGED <<restore, server, bounds>>

\* Controller.pause and Controller.resume
Pause ==
  /\ pc = "up" /\ ~paused /\ marker' = TRUE /\ paused' = TRUE
  /\ UNCHANGED <<files, restore, pc, at, trusted, bounds>>

Resume ==
  /\ pc = "up" /\ paused /\ pending = 0
  /\ marker' = FALSE /\ paused' = FALSE /\ trusted' = Now("database").of
  /\ UNCHANGED <<files, restore, pc, at, bounds>>

\* stage_restore: the rename makes the validated backup pending.
Stage ==
  /\ pc = "up" /\ paused /\ pending = 0 /\ restores < MaxRestores
  /\ restores' = restores + 1 /\ pending' = restores + 1 /\ saved' = FALSE
  /\ UNCHANGED <<files, rollback, last, server, edits, faults>>

\* The container is restarted, or dies, or the launcher raises.
Stop ==
  /\ pc # "down" /\ pc' = "down"
  /\ \/ pc = "up" /\ UNCHANGED faults
     \/ pc # "up" /\ faults < MaxFaults /\ faults' = faults + 1
  /\ UNCHANGED <<files, restore, marker, at, paused, trusted, restores, edits>>

-----------------------------------------------------------------------------
(* apply_pending_restore                                                   *)

\* Mutant of MakeRollback: a directory that is there makes it raise.
MakeRollbackOnce ==
  IF rollback[pending] = None
  THEN rollback' = [rollback EXCEPT ![pending] = Nothing] /\ pc' = "pause"
  ELSE UNCHANGED rollback /\ pc' = "down"
\* The directory may be there from an earlier try.
MakeRollback ==
  /\ pc' = "pause"
  /\ rollback' = IF rollback[pending] = None
                 THEN [rollback EXCEPT ![pending] = Nothing] ELSE rollback

Check ==
  /\ pc = "check"
  /\ \/ pending = 0 /\ ServerStarts /\ UNCHANGED <<restore, at>>
     \/ /\ pending # 0 /\ MakeRollback /\ at' = 1
        /\ UNCHANGED <<pending, saved, last, paused>>
  /\ UNCHANGED <<files, marker, trusted, bounds>>

\* Mutant of SavedBefore: each try saves what it finds.
NeverSaved == FALSE
SavedBefore == saved

WritePauseMarker ==
  /\ pc = "pause" /\ marker' = TRUE
  /\ pc' = IF SavedBefore THEN "fold" ELSE "save"
  /\ UNCHANGED <<files, restore, at, paused, trusted, bounds>>

\* After the last file the launcher goes on at label.
NextFile(label) ==
  IF at = 3 THEN at' = 1 /\ pc' = label ELSE at' = at + 1 /\ UNCHANGED pc

\* The snapshot of the database holds what its log does.
SavePrevious ==
  /\ pc = "save"
  /\ rollback' = [rollback EXCEPT ![pending][File[at]] = Now(File[at])]
  /\ NextFile("mark")
  /\ UNCHANGED <<files, pending, saved, last, marker, paused, trusted, bounds>>

MarkSaved ==
  /\ pc = "mark" /\ saved' = TRUE /\ pc' = "fold"
  /\ UNCHANGED <<files, pending, rollback, last, marker, at, paused, trusted, bounds>>

\* The log is moved into the database and removed.
FoldLog ==
  /\ pc = "fold" /\ pc' = "copy"
  /\ disk' = [disk EXCEPT !["database"] = Now("database")] /\ wal' = None
  /\ UNCHANGED <<restore, marker, at, paused, trusted, bounds>>

\* _copy_atomic
CopyFile ==
  /\ pc = "copy" /\ disk' = [disk EXCEPT ![File[at]] = Backup(pending)]
  /\ NextFile("record")
  /\ UNCHANGED <<wal, restore, marker, paused, trusted, bounds>>

RecordRestore ==
  /\ pc = "record" /\ last' = pending /\ pc' = "complete"
  /\ UNCHANGED <<files, pending, saved, rollback, marker, at, paused, trusted, bounds>>

\* The rename that ends it; the renamed directory is then removed.
Complete ==
  /\ pc = "complete" /\ pending' = 0 /\ saved' = FALSE /\ pc' = "check"
  /\ UNCHANGED <<files, rollback, last, marker, at, paused, trusted, bounds>>

LauncherStep ==
  \/ Check \/ WritePauseMarker \/ SavePrevious \/ MarkSaved \/ FoldLog \/ CopyFile
  \/ RecordRestore \/ Complete

Next ==
  \/ Launch \/ Edit \/ Checkpoint \/ Pause \/ Resume \/ Stage \/ Stop \/ LauncherStep

\* Somebody restarts a container in which a restore waits, the runtime one
\* that died.
Fairness ==
  WF_vars(Launch) /\ WF_vars(LauncherStep) /\ WF_vars(pc = "up" /\ pending # 0 /\ Stop)

Spec == Init /\ [][Next]_vars
FairSpec == Spec /\ Fairness

-----------------------------------------------------------------------------
(* Properties                                                              *)

\* Files, directories and the launcher hold values of their types.
TypeOK ==
  /\ disk \in [Files -> Contents \cup {None}] /\ wal \in Contents \cup {None}
  /\ pending \in 0 .. MaxRestores /\ saved \in BOOLEAN
  /\ rollback \in [1 .. MaxRestores -> [Files -> Contents \cup {None}] \cup {None}]
  /\ last \in 0 .. MaxRestores /\ marker \in BOOLEAN /\ at \in 1 .. 3
  /\ pc \in {"down", "up"} \cup Launching /\ paused \in BOOLEAN
  /\ trusted \in 0 .. MaxRestores
  /\ restores \in 0 .. MaxRestores /\ edits \in 0 .. MaxEdits /\ faults \in 0 .. MaxFaults

\* README.md:1102: the launcher installs a backup as a whole or not at all,
\* never with the log of another database, and keeps the installation that
\* was there.  While a restore is under way the previous installation is what
\* was saved, or, before that, what is on the disk.
Previous == [f \in Files |-> IF saved THEN rollback[pending][f] ELSE Now(f)]
Whole == INSTANCE Installation WITH
  Contents <- Contents \cup {None},
  running <- pc = "up",
  installed <- Previous,
  waiting <- IF pending = 0 THEN None ELSE [f \in Files |-> Backup(pending)],
  archive <- {rollback[k] : k \in 1 .. IF pending = 0 THEN restores ELSE restores - 1}
RestoreIsAtomic == Whole!Spec

\* README.md:1044: automation does not run under a restored database before
\* an operator resumed it.
AutomationWaits == pc = "up" /\ ~paused => trusted = Now("database").of

\* A staged restore is installed, however often the launcher dies on the way.
RestoreEnds == \A k \in 1 .. MaxRestores : pending = k ~> last = k /\ pc = "up"
=============================================================================
