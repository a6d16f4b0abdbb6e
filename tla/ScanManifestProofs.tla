-------------------------- MODULE ScanManifestProofs --------------------------
(***************************************************************************)
(* Proofs about ScanManifest for any number of files, contents, engines,   *)
(* changes and faults, whatever the engines find.                          *)
(***************************************************************************)
EXTENDS ScanManifest, FiniteSetTheorems, TLAPS

Clean(f) == status[f] = "clean"
Flawless(f) == <<f, version[f], runEngine>> \notin Detected

\* A checkpoint holds for the engine of the run, unless a newer engine looked
\* at the file, and then the next round will notice.
Checkpoints ==
  /\ \A f \in Files : Clean(f) => Flawless(f) \/ engine > runEngine
  /\ runRoot = None => With("clean") = {}

\* From the health check of a round up to the verdict or the next file the
\* checkpoints are those of the engine seen there.
Verifying == pc \in {"pick", "finish"} \/ (pc \in {"walk", "commit"} /\ goal = "verify")
Settled == Verifying => identity = runEngine /\ \A f \in Files : Clean(f) => Flawless(f)
ScanEngine == pc \in {"scan", "report"} => identity = runEngine

\* A checkpoint stands for a file that was there, and the file being scanned
\* has no result yet.
Read ==
  /\ \A f \in Files : Clean(f) => version[f] # Absent
  /\ pc \in {"scan", "report"} =>
       \A f \in current : version[f] # Absent /\ status[f] \notin {"clean", "infected"}

\* What the thread carries from the walk to the manifest and to the verdict.
Carried ==
  /\ pc = "commit" => listing = atWalk /\ \A f \in Files : listing[f] # Special
  /\ pc = "finish" =>
       \A f \in Files : atWalk[f] = Absent \/ (Clean(f) /\ version[f] = atWalk[f])

\* A decided job has no thread, and its clean verdict stands.
Decision ==
  /\ jobState = "scan_clean" => pc = "idle"
  /\ verdict = "clean" => jobState = "scan_clean"

\* The inductive invariant.
Inv ==
  /\ TypeOK /\ Checkpoints /\ Settled /\ ScanEngine /\ Read /\ Carried /\ Decision
  /\ NoMalwarePasses

\* What a step may not do to a checkpoint.
KeepsCheckpoints ==
  \A f \in Files :
    status[f] = "clean" /\ status'[f] # "clean" =>
      version'[f] # version[f] \/ runEngine' # runEngine \/ runRoot' # runRoot
-----------------------------------------------------------------------------

\* A claim that is given up.
LEMMA GiveUpInv ==
  ASSUME Inv, GiveUp, pc # "idle",
         UNCHANGED world
  PROVE  Inv'
<1> USE ManifestAssumption DEF ManifestAssumption, Inv, TypeOK, WorldType,
          RunType, FilesType, ThreadType, GiveUp,
          EndThread, FilesReturned, run, rows, world
<1>1. WorldType'
  BY DEF Contents
<1>2. RunType'
  OBVIOUS
<1>3. FilesType'
  BY DEF Statuses, Contents, Carried
<1>4. ThreadType'
  BY DEF Pcs
<1>5. Checkpoints' /\ Settled' /\ ScanEngine'
  BY DEF Checkpoints, Settled, ScanEngine, Verifying, Clean, Flawless, With
<1>6. Carried' /\ Decision' /\ NoMalwarePasses'
  BY DEF Carried, Decision, NoMalwarePasses, Settled, Verifying, Clean, Flawless
<1>7. Read'
  BY DEF Read, Clean, Absent
<1> QED
  BY <1>1, <1>2, <1>3, <1>4, <1>5, <1>6, <1>7

\* A claim that failed.
LEMMA FailInv ==
  ASSUME Inv, Fail, pc # "idle",
         UNCHANGED world
  PROVE  Inv'
<1> USE ManifestAssumption DEF ManifestAssumption, Inv, TypeOK, WorldType,
          RunType, FilesType, ThreadType, Fail,
          EndThread, FilesReturned, run, rows, world
<1>1. WorldType'
  BY DEF Contents
<1>2. RunType'
  OBVIOUS
<1>3. FilesType'
  BY DEF Statuses, Contents, Carried
<1>4. ThreadType'
  BY DEF Pcs
<1>5. Checkpoints' /\ Settled' /\ ScanEngine'
  BY DEF Checkpoints, Settled, ScanEngine, Verifying, Clean, Flawless, With
<1>6. Carried' /\ Decision' /\ NoMalwarePasses'
  BY DEF Carried, Decision, NoMalwarePasses, Settled, Verifying, Clean, Flawless
<1>7. Read'
  BY DEF Read, Clean, Absent
<1> QED
  BY <1>1, <1>2, <1>3, <1>4, <1>5, <1>6, <1>7

\* A claim whose content a scanner policy refuses.
LEMMA RejectInv ==
  ASSUME Inv, Reject, pc # "idle",
         UNCHANGED world
  PROVE  Inv'
<1> USE ManifestAssumption DEF ManifestAssumption, Inv, TypeOK, WorldType,
          RunType, FilesType, ThreadType, Reject,
          EndThread, FilesReturned, run, rows, world
<1>1. WorldType'
  BY DEF Contents
<1>2. RunType'
  OBVIOUS
<1>3. FilesType'
  BY DEF Statuses, Contents, Carried
<1>4. ThreadType'
  BY DEF Pcs
<1>5. Checkpoints' /\ Settled' /\ ScanEngine'
  BY DEF Checkpoints, Settled, ScanEngine, Verifying, Clean, Flawless, With
<1>6. Carried' /\ Decision' /\ NoMalwarePasses'
  BY DEF Carried, Decision, NoMalwarePasses, Settled, Verifying, Clean, Flawless
<1>7. Read'
  BY DEF Read, Clean, Absent
<1> QED
  BY <1>1, <1>2, <1>3, <1>4, <1>5, <1>6, <1>7

\* A claim begins.
LEMMA ClaimInv ==
  ASSUME Inv, Claim
  PROVE  Inv'
<1> USE ManifestAssumption DEF ManifestAssumption, Inv, TypeOK, WorldType,
          RunType, FilesType, ThreadType, Claim, world,
          rows
<1>1. WorldType'
  BY DEF Contents
<1>2. RunType'
  OBVIOUS
<1>3. FilesType'
  BY DEF Statuses, Contents, Carried
<1>4. ThreadType'
  BY DEF Pcs
<1>5. Checkpoints' /\ Settled' /\ ScanEngine'
  BY DEF Checkpoints, Settled, ScanEngine, Verifying, Clean, Flawless, With
<1>6. Carried' /\ Decision' /\ NoMalwarePasses'
  BY DEF Carried, Decision, NoMalwarePasses, Settled, Verifying, Clean, Flawless
<1>7. Read'
  BY DEF Read, Clean, Absent
<1> QED
  BY <1>1, <1>2, <1>3, <1>4, <1>5, <1>6, <1>7

\* The health check of a claim.
LEMMA HealthInv ==
  ASSUME Inv, pc = "spawned", owns, identity' = engine, pc' = "locate",
         UNCHANGED <<world, run, rows, owns, goal,
                     content, listing, current, atWalk>>
  PROVE  Inv'
<1> USE ManifestAssumption DEF ManifestAssumption, Inv, TypeOK, WorldType,
          RunType, FilesType, ThreadType, world, run,
          rows
<1>1. WorldType'
  BY DEF Contents
<1>2. RunType'
  OBVIOUS
<1>3. FilesType'
  BY DEF Statuses, Contents, Carried
<1>4. ThreadType'
  BY DEF Pcs
<1>5. Checkpoints' /\ Settled' /\ ScanEngine'
  BY DEF Checkpoints, Settled, ScanEngine, Verifying, Clean, Flawless, With
<1>6. Carried' /\ Decision' /\ NoMalwarePasses'
  BY DEF Carried, Decision, NoMalwarePasses, Settled, Verifying, Clean, Flawless
<1>7. Read'
  BY DEF Read, Clean, Absent
<1> QED
  BY <1>1, <1>2, <1>3, <1>4, <1>5, <1>6, <1>7

\* The content is located.
LEMMA LocateInv ==
  ASSUME Inv, Locate
  PROVE  Inv'
<1> USE ManifestAssumption DEF ManifestAssumption, Inv, TypeOK, WorldType,
          RunType, FilesType, ThreadType, Locate, world,
          run, rows
<1>1. WorldType'
  BY DEF Contents
<1>2. RunType'
  OBVIOUS
<1>3. FilesType'
  BY DEF Statuses, Contents, Carried
<1>4. ThreadType'
  BY DEF Pcs
<1>5. Checkpoints' /\ Settled' /\ ScanEngine'
  BY DEF Checkpoints, Settled, ScanEngine, Verifying, Clean, Flawless, With
<1>6. Carried' /\ Decision' /\ NoMalwarePasses'
  BY DEF Carried, Decision, NoMalwarePasses, Settled, Verifying, Clean, Flawless
<1>7. Read'
  BY DEF Read, Clean, Absent
<1> QED
  BY <1>1, <1>2, <1>3, <1>4, <1>5, <1>6, <1>7

\* A walk that lists the disk.
LEMMA WalkInv ==
  ASSUME Inv, pc = "walk", Listable,
         listing' = disk, atWalk' = disk, pc' = "commit",
         UNCHANGED <<world, run, rows, owns, goal, identity, content, current>>
  PROVE  Inv'
<1> USE ManifestAssumption DEF ManifestAssumption, Inv, TypeOK, WorldType,
          RunType, FilesType, ThreadType, Listable,
          world, run, rows
<1>1. WorldType'
  BY DEF Contents
<1>2. RunType'
  OBVIOUS
<1>3. FilesType'
  BY DEF Statuses, Contents, Carried
<1>4. ThreadType'
  BY DEF Pcs
<1>5. Checkpoints' /\ Settled' /\ ScanEngine'
  BY DEF Checkpoints, Settled, ScanEngine, Verifying, Clean, Flawless, With
<1>6. Carried' /\ Decision' /\ NoMalwarePasses'
  BY DEF Carried, Decision, NoMalwarePasses, Settled, Verifying, Clean, Flawless
<1>7. Read'
  BY DEF Read, Clean, Absent
<1> QED
  BY <1>1, <1>2, <1>3, <1>4, <1>5, <1>6, <1>7

\* A round begins: a new engine sends the thread to the walk.
LEMMA RoundInv ==
  ASSUME Inv, pc = "loop", owns, NextRound
  PROVE  Inv'
<1> USE ManifestAssumption DEF ManifestAssumption, Inv, TypeOK, WorldType,
          RunType, FilesType, ThreadType, NextRound,
          MustReset, GiveUp, EndThread, FilesReturned,
          world, run, rows
<1>1. WorldType'
  BY DEF Contents
<1>2. RunType'
  OBVIOUS
<1>3. FilesType'
  BY DEF Statuses, Contents, Carried
<1>4. ThreadType'
  BY DEF Pcs
<1>5. Checkpoints' /\ Settled' /\ ScanEngine'
  BY DEF Checkpoints, Settled, ScanEngine, Verifying, Clean, Flawless, With
<1>6. Carried' /\ Decision' /\ NoMalwarePasses'
  BY DEF Carried, Decision, NoMalwarePasses, Settled, Verifying, Clean, Flawless
<1>7. Read'
  BY DEF Read, Clean, Absent
<1> QED
  BY <1>1, <1>2, <1>3, <1>4, <1>5, <1>6, <1>7

\* The next file is marked.
LEMMA MarkInv ==
  ASSUME Inv, pc = "pick", NEW f \in Files, status[f] = "pending", Regular(f),
         status' = [status EXCEPT ![f] = "scanning"], version' = [version EXCEPT ![f] = disk[f]],
         pc' = "scan", current' = {f},
         UNCHANGED <<world, run, owns, goal, identity, content, listing, atWalk>>
  PROVE  Inv'
<1> USE ManifestAssumption DEF ManifestAssumption, Inv, TypeOK, WorldType,
          RunType, FilesType, ThreadType, Regular, world,
          run
<1>1. WorldType'
  BY DEF Contents
<1>2. RunType'
  OBVIOUS
<1>3. FilesType'
  BY DEF Statuses, Contents, Carried
<1>4. ThreadType'
  BY DEF Pcs
<1>5. Checkpoints' /\ Settled' /\ ScanEngine'
  BY DEF Checkpoints, Settled, ScanEngine, Verifying, Clean, Flawless, With
<1>6. Carried' /\ Decision' /\ NoMalwarePasses'
  BY DEF Carried, Decision, NoMalwarePasses, Settled, Verifying, Clean, Flawless
<1>7. Read'
  BY DEF Read, Clean, Absent
<1> QED
  BY <1>1, <1>2, <1>3, <1>4, <1>5, <1>6, <1>7

\* No file is left and the last walk begins.
LEMMA LastWalkInv ==
  ASSUME Inv, pc = "pick", pc' = "walk", goal' = "verify",
         UNCHANGED <<world, run, rows, owns, identity, content, listing, current, atWalk>>
  PROVE  Inv'
<1> USE ManifestAssumption DEF ManifestAssumption, Inv, TypeOK, WorldType,
          RunType, FilesType, ThreadType, world, run,
          rows
<1>1. WorldType'
  BY DEF Contents
<1>2. RunType'
  OBVIOUS
<1>3. FilesType'
  BY DEF Statuses, Contents, Carried
<1>4. ThreadType'
  BY DEF Pcs
<1>5. Checkpoints' /\ Settled' /\ ScanEngine'
  BY DEF Checkpoints, Settled, ScanEngine, Verifying, Clean, Flawless, With
<1>6. Carried' /\ Decision' /\ NoMalwarePasses'
  BY DEF Carried, Decision, NoMalwarePasses, Settled, Verifying, Clean, Flawless
<1>7. Read'
  BY DEF Read, Clean, Absent
<1> QED
  BY <1>1, <1>2, <1>3, <1>4, <1>5, <1>6, <1>7

\* A finding is reported.
LEMMA FoundInv ==
  ASSUME Inv, pc = "scan", pc' = "report",
         UNCHANGED <<world, run, rows, owns, goal, identity, content, listing, current,
                     atWalk>>
  PROVE  Inv'
<1> USE ManifestAssumption DEF ManifestAssumption, Inv, TypeOK, WorldType,
          RunType, FilesType, ThreadType, world, run, rows
<1>1. WorldType'
  BY DEF Contents
<1>2. RunType'
  OBVIOUS
<1>3. FilesType'
  BY DEF Statuses, Contents, Carried
<1>4. ThreadType'
  BY DEF Pcs
<1>5. Checkpoints' /\ Settled' /\ ScanEngine'
  BY DEF Checkpoints, Settled, ScanEngine, Verifying, Clean, Flawless, With
<1>6. Carried' /\ Decision' /\ NoMalwarePasses'
  BY DEF Carried, Decision, NoMalwarePasses, Settled, Verifying, Clean, Flawless
<1>7. Read'
  BY DEF Read, Clean, Absent
<1> QED
  BY <1>1, <1>2, <1>3, <1>4, <1>5, <1>6, <1>7

\* A finding is recorded.
LEMMA InfectedInv ==
  ASSUME Inv, pc = "report",
         UNCHANGED world, NEW f \in Files, f \in current, RecordInfected(f)
  PROVE  Inv'
<1> USE ManifestAssumption DEF ManifestAssumption, Inv, TypeOK, WorldType,
          RunType, FilesType, ThreadType, RecordInfected,
          EndThread, world, run, rows
<1>1. WorldType'
  BY DEF Contents
<1>2. RunType'
  OBVIOUS
<1>3. FilesType'
  BY DEF Statuses, Contents, Carried
<1>4. ThreadType'
  BY DEF Pcs
<1>5. Checkpoints' /\ Settled' /\ ScanEngine'
  BY DEF Checkpoints, Settled, ScanEngine, Verifying, Clean, Flawless, With
<1>6. Carried' /\ Decision' /\ NoMalwarePasses'
  BY DEF Carried, Decision, NoMalwarePasses, Settled, Verifying, Clean, Flawless
<1>7. Read'
  BY DEF Read, Clean, Absent
<1> QED
  BY <1>1, <1>2, <1>3, <1>4, <1>5, <1>6, <1>7

\* A clean file is recorded: under an engine newer than the one of the run the next round notices.
LEMMA CleanInv ==
  ASSUME Inv, pc = "scan",
         UNCHANGED world, NEW f \in Files, f \in current,
         SameFile(f),
         NEW e \in Engines, identity <= e, e <= engine, <<f, version[f], e>> \notin Detected,
         RecordClean(f)
  PROVE  Inv'
<1> USE ManifestAssumption DEF ManifestAssumption, Inv, TypeOK, WorldType,
          RunType, FilesType, ThreadType, RecordClean,
          SameFile, EndThread, world, run, rows
<1>1. WorldType'
  BY DEF Contents
<1>2. RunType'
  OBVIOUS
<1>3. FilesType'
  BY DEF Statuses, Contents, Carried
<1>4. ThreadType'
  BY DEF Pcs
<1>5. Checkpoints' /\ Settled' /\ ScanEngine'
  BY DEF Checkpoints, Settled, ScanEngine, Verifying, Clean, Flawless, With
<1>6. Carried' /\ Decision' /\ NoMalwarePasses'
  BY DEF Carried, Decision, NoMalwarePasses, Settled, Verifying, Clean, Flawless
<1>7. Read'
  BY DEF Read, Clean, Absent
<1> QED
  BY <1>1, <1>2, <1>3, <1>4, <1>5, <1>6, <1>7

\* The verdict.
LEMMA FinishInv ==
  ASSUME Inv, Finish
  PROVE  Inv'
<1> USE ManifestAssumption DEF ManifestAssumption, Inv, TypeOK, WorldType,
          RunType, FilesType, ThreadType, Finish, Fail,
          FilesReturned, EndThread, world, run, rows
<1>1. WorldType'
  BY DEF Contents
<1>2. RunType'
  OBVIOUS
<1>3. FilesType'
  BY DEF Statuses, Contents, Carried
<1>4. ThreadType'
  BY DEF Pcs
<1>5. Checkpoints' /\ Settled' /\ ScanEngine'
  BY DEF Checkpoints, Settled, ScanEngine, Verifying, Clean, Flawless, With
<1>6. Carried' /\ Decision' /\ NoMalwarePasses'
  <2>1. CASE Fail
    BY <2>1 DEF Carried, Decision, NoMalwarePasses
  <2>2. CASE ~Fail
    <3>1. verdict' = "clean" /\ jobState' = "scan_clean" /\ pc' = "idle"
      BY <2>2
    <3>2. \A f \in Files : atWalk[f] # Special /\ <<f, atWalk[f], runEngine>> \notin Detected
      BY DEF Carried, Settled, Verifying, Clean, Flawless, Special, Absent
    <3>3. atWalk' = atWalk /\ runEngine' = runEngine
      BY <2>2
    <3> QED
      BY <3>1, <3>2, <3>3 DEF Carried, Decision, NoMalwarePasses
  <2> QED
    BY <2>1, <2>2
<1>7. Read'
  BY DEF Read, Clean, Absent
<1> QED
  BY <1>1, <1>2, <1>3, <1>4, <1>5, <1>6, <1>7

\* A claim is taken back.
LEMMA TakeBackInv ==
  ASSUME Inv, TakeBack
  PROVE  Inv'
<1> USE ManifestAssumption DEF ManifestAssumption, Inv, TypeOK, WorldType,
          RunType, FilesType, ThreadType, TakeBack,
          FilesReturned, world
<1>1. WorldType'
  BY DEF Contents
<1>2. RunType'
  OBVIOUS
<1>3. FilesType'
  BY DEF Statuses, Contents, Carried
<1>4. ThreadType'
  BY DEF Pcs
<1>5. Checkpoints' /\ Settled' /\ ScanEngine'
  BY DEF Checkpoints, Settled, ScanEngine, Verifying, Clean, Flawless, With
<1>6. Carried' /\ Decision' /\ NoMalwarePasses'
  BY DEF Carried, Decision, NoMalwarePasses, Settled, Verifying, Clean, Flawless
<1>7. Read'
  BY DEF Read, Clean, Absent
<1> QED
  BY <1>1, <1>2, <1>3, <1>4, <1>5, <1>6, <1>7

\* The job is queued again.
LEMMA QueueInv ==
  ASSUME Inv, QueueJob
  PROVE  Inv'
<1> USE ManifestAssumption DEF ManifestAssumption, Inv, TypeOK, WorldType,
          RunType, FilesType, ThreadType, QueueJob,
          world, rows
<1>1. WorldType'
  BY DEF Contents
<1>2. RunType'
  OBVIOUS
<1>3. FilesType'
  BY DEF Statuses, Contents, Carried
<1>4. ThreadType'
  BY DEF Pcs
<1>5. Checkpoints' /\ Settled' /\ ScanEngine'
  BY DEF Checkpoints, Settled, ScanEngine, Verifying, Clean, Flawless, With
<1>6. Carried' /\ Decision' /\ NoMalwarePasses'
  BY DEF Carried, Decision, NoMalwarePasses, Settled, Verifying, Clean, Flawless
<1>7. Read'
  BY DEF Read, Clean, Absent
<1> QED
  BY <1>1, <1>2, <1>3, <1>4, <1>5, <1>6, <1>7

\* A crash.
LEMMA CrashInv ==
  ASSUME Inv, Crash
  PROVE  Inv'
<1> USE ManifestAssumption DEF ManifestAssumption, Inv, TypeOK, WorldType,
          RunType, FilesType, ThreadType, Crash,
          EndThread, world, run, rows
<1>1. WorldType'
  BY DEF Contents
<1>2. RunType'
  OBVIOUS
<1>3. FilesType'
  BY DEF Statuses, Contents, Carried
<1>4. ThreadType'
  BY DEF Pcs
<1>5. Checkpoints' /\ Settled' /\ ScanEngine'
  BY DEF Checkpoints, Settled, ScanEngine, Verifying, Clean, Flawless, With
<1>6. Carried' /\ Decision' /\ NoMalwarePasses'
  BY DEF Carried, Decision, NoMalwarePasses, Settled, Verifying, Clean, Flawless
<1>7. Read'
  BY DEF Read, Clean, Absent
<1> QED
  BY <1>1, <1>2, <1>3, <1>4, <1>5, <1>6, <1>7

\* A file changes.
LEMMA ChangeInv ==
  ASSUME Inv, NEW f \in Files, ChangeFile(f)
  PROVE  Inv'
<1> USE ManifestAssumption DEF ManifestAssumption, Inv, TypeOK, WorldType,
          RunType, FilesType, ThreadType, ChangeFile,
          run, rows, thread
<1>1. WorldType'
  BY DEF Contents
<1>2. RunType'
  OBVIOUS
<1>3. FilesType'
  BY DEF Statuses, Contents, Carried
<1>4. ThreadType'
  BY DEF Pcs
<1>5. Checkpoints' /\ Settled' /\ ScanEngine'
  BY DEF Checkpoints, Settled, ScanEngine, Verifying, Clean, Flawless, With
<1>6. Carried' /\ Decision' /\ NoMalwarePasses'
  BY DEF Carried, Decision, NoMalwarePasses, Settled, Verifying, Clean, Flawless
<1>7. Read'
  BY DEF Read, Clean, Absent
<1> QED
  BY <1>1, <1>2, <1>3, <1>4, <1>5, <1>6, <1>7

\* The content moves.
LEMMA MoveInv ==
  ASSUME Inv, MoveContent
  PROVE  Inv'
<1> USE ManifestAssumption DEF ManifestAssumption, Inv, TypeOK, WorldType,
          RunType, FilesType, ThreadType, MoveContent,
          run, rows, thread
<1>1. WorldType'
  BY DEF Contents
<1>2. RunType'
  OBVIOUS
<1>3. FilesType'
  BY DEF Statuses, Contents, Carried
<1>4. ThreadType'
  BY DEF Pcs
<1>5. Checkpoints' /\ Settled' /\ ScanEngine'
  BY DEF Checkpoints, Settled, ScanEngine, Verifying, Clean, Flawless, With
<1>6. Carried' /\ Decision' /\ NoMalwarePasses'
  BY DEF Carried, Decision, NoMalwarePasses, Settled, Verifying, Clean, Flawless
<1>7. Read'
  BY DEF Read, Clean, Absent
<1> QED
  BY <1>1, <1>2, <1>3, <1>4, <1>5, <1>6, <1>7

\* The engine is upgraded.
LEMMA UpgradeInv ==
  ASSUME Inv, UpgradeEngine
  PROVE  Inv'
<1> USE ManifestAssumption DEF ManifestAssumption, Inv, TypeOK, WorldType,
          RunType, FilesType, ThreadType, UpgradeEngine,
          run, rows, thread
<1>1. WorldType'
  BY DEF Contents
<1>2. RunType'
  OBVIOUS
<1>3. FilesType'
  BY DEF Statuses, Contents, Carried
<1>4. ThreadType'
  BY DEF Pcs
<1>5. Checkpoints' /\ Settled' /\ ScanEngine'
  <2>1. engine' \in Nat /\ engine \in Nat /\ runEngine \in Nat /\ engine' > engine
    OBVIOUS
  <2>2. engine > runEngine => engine' > runEngine
    BY <2>1
  <2> QED
    BY <2>2 DEF Checkpoints, Settled, ScanEngine, Verifying, Clean, Flawless, With
<1>6. Carried' /\ Decision' /\ NoMalwarePasses'
  BY DEF Carried, Decision, NoMalwarePasses, Settled, Verifying, Clean, Flawless
<1>7. Read'
  BY DEF Read, Clean, Absent
<1> QED
  BY <1>1, <1>2, <1>3, <1>4, <1>5, <1>6, <1>7

\* Nothing happens.
LEMMA StutterInv ==
  ASSUME Inv, UNCHANGED vars
  PROVE  Inv'
<1> USE ManifestAssumption DEF ManifestAssumption, Inv, TypeOK, WorldType,
          RunType, FilesType, ThreadType, vars, world,
          run, rows, thread
<1>1. WorldType'
  BY DEF Contents
<1>2. RunType'
  OBVIOUS
<1>3. FilesType'
  BY DEF Statuses, Contents, Carried
<1>4. ThreadType'
  BY DEF Pcs
<1>5. Checkpoints' /\ Settled' /\ ScanEngine'
  BY DEF Checkpoints, Settled, ScanEngine, Verifying, Clean, Flawless, With
<1>6. Carried' /\ Decision' /\ NoMalwarePasses'
  BY DEF Carried, Decision, NoMalwarePasses, Settled, Verifying, Clean, Flawless
<1>7. Read'
  BY DEF Read, Clean, Absent
<1> QED
  BY <1>1, <1>2, <1>3, <1>4, <1>5, <1>6, <1>7

-----------------------------------------------------------------------------
(* The manifest is written                                                 *)

\* A set of files is counted by a natural number.
LEMMA FilesCounted ==
  ASSUME NEW S \in SUBSET Files
  PROVE  Cardinality(S) \in Nat
BY ManifestAssumption, FS_Subset, FS_CardinalityType DEF ManifestAssumption

\* A row is written as clean only if it was clean, for the same file and
\* engine.
LEMMA ManifestKeeps ==
  ASSUME TypeOK, NEW f \in Files, ManifestStatus[f] = "clean"
  PROVE  /\ Clean(f) /\ version[f] = listing[f] /\ listing[f] # Absent
         /\ runRoot = content /\ (runRoot # None => runEngine = identity)
BY DEF ManifestStatus, RootChanged, Outdated, VersionChanged, Clean, TypeOK, FilesType,
       Statuses

\* A row that is written and not pending is clean, and a file not listed has none.
LEMMA ManifestLeaves ==
  ASSUME TypeOK, NEW f \in Files, ManifestStatus[f] # "pending"
  PROVE  ManifestStatus[f] = "clean" \/ listing[f] = Absent
BY DEF ManifestStatus, RootChanged, Outdated, VersionChanged, TypeOK, FilesType, Statuses

\* The manifest keeps what the run vouches for.
LEMMA WriteInv ==
  ASSUME Inv, pc = "commit", WriteManifest,
         pc' = IF goal = "verify" /\ (\A f \in Files : ManifestStatus[f] # "pending")
               THEN "finish" ELSE "loop",
         UNCHANGED <<world, jobState, failures, owns, goal, identity, content, listing,
                     current, atWalk>>
  PROVE  Inv'
<1> USE ManifestAssumption DEF ManifestAssumption, Inv
<1>1. TypeOK'
  <2>1. WorldType'
    BY DEF TypeOK, WorldType, world
  <2>2. RunType'
    <3>1. completed' \in Nat
      BY FilesCounted DEF WriteManifest
    <3> QED
      BY <3>1 DEF TypeOK, RunType, ThreadType, WriteManifest
  <2>3. FilesType'
    <3>1. version' \in [Files -> Versions \cup {Absent}]
      BY DEF TypeOK, ThreadType, Contents, Carried, WriteManifest
    <3>2. status' \in [Files -> Statuses]
      BY DEF TypeOK, FilesType, ManifestStatus, Statuses, WriteManifest
    <3> QED
      BY <3>1, <3>2 DEF FilesType
  <2>4. ThreadType'
    BY DEF TypeOK, ThreadType, Pcs
  <2> QED
    BY <2>1, <2>2, <2>3, <2>4 DEF TypeOK
<1>2. \A f \in Files : status'[f] = "clean" =>
         /\ Clean(f) /\ version'[f] = version[f] /\ listing[f] # Absent
         /\ runRoot = content /\ (runRoot # None => runEngine' = runEngine)
  BY ManifestKeeps DEF WriteManifest
<1>3. \A f \in Files : status'[f] = "clean" => runRoot # None
  BY <1>2 DEF Checkpoints, With, Clean
<1>4. Checkpoints'
  BY <1>2, <1>3 DEF Checkpoints, With, Clean, Flawless, WriteManifest, world
<1>5. Settled' /\ ScanEngine'
  BY <1>2, <1>3 DEF Settled, ScanEngine, Verifying, Clean, Flawless, WriteManifest
<1>6. Carried'
  BY ManifestLeaves DEF Carried, Clean, WriteManifest
<1>7. Decision' /\ NoMalwarePasses'
  BY DEF Decision, NoMalwarePasses, TypeOK, RunType, WriteManifest
<1>8. Read'
  BY <1>2 DEF Read, Clean, WriteManifest
<1> QED
  BY <1>1, <1>4, <1>5, <1>6, <1>7, <1>8

-----------------------------------------------------------------------------
(* The specification                                                       *)

\* What the thread does by itself keeps the invariant.
LEMMA ThreadInv ==
  ASSUME Inv, ThreadStep
  PROVE  Inv'
<1>1. CASE CheckHealth
  BY <1>1, GiveUpInv, HealthInv DEF CheckHealth, world
<1>2. CASE Locate
  BY <1>2, LocateInv
<1>3. CASE Walk
  BY <1>3, FailInv, WalkInv DEF Walk, world
<1>4. CASE CommitManifest
  BY <1>4, GiveUpInv, WriteInv DEF CommitManifest, world
<1>5. CASE NextRound
  <2>1. CASE owns
    BY <1>5, <2>1, RoundInv DEF NextRound
  <2>2. CASE ~owns
    BY <1>5, <2>2, GiveUpInv DEF NextRound
  <2> QED
    BY <2>1, <2>2
<1>6. CASE PickFile
  BY <1>6, FailInv, MarkInv, LastWalkInv DEF PickFile, With, world
<1>7. CASE RecordResult
  <2>1. PICK f \in current :
          \/ GiveUp
          \/ Fail
          \/ /\ SameFile(f)
             /\ \E e \in {x \in Engines : identity <= x /\ x <= engine} :
                  <<f, version[f], e>> \notin Detected /\ RecordClean(f)
          \/ /\ pc' = "report"
             /\ UNCHANGED <<run, rows, owns, goal, identity, content, listing, current,
                            atWalk>>
    BY <1>7 DEF RecordResult
  <2>2. pc = "scan" /\ UNCHANGED world
    BY <1>7 DEF RecordResult
  <2>3. f \in Files
    BY DEF Inv, TypeOK, ThreadType
  <2> QED
    BY <2>1, <2>2, <2>3, GiveUpInv, FailInv, FoundInv, CleanInv
<1>8. CASE Finish
  BY <1>8, FinishInv
<1>9. CASE ReportInfected
  <2>1. PICK f \in current : RecordInfected(f)
    BY <1>9 DEF ReportInfected
  <2>2. pc = "report" /\ UNCHANGED world /\ f \in Files
    BY <1>9 DEF ReportInfected, Inv, TypeOK, ThreadType
  <2> QED
    BY <2>1, <2>2, InfectedInv
<1> QED
  BY <1>1, <1>2, <1>3, <1>4, <1>5, <1>6, <1>7, <1>8, <1>9 DEF ThreadStep

\* Every step keeps the invariant.
LEMMA StepInv ==
  ASSUME Inv, [Next]_vars
  PROVE  Inv'
<1>1. CASE ThreadStep
  BY <1>1, ThreadInv
<1>2. CASE pc # "idle" /\ Disturbed
  BY <1>2, GiveUpInv, FailInv, RejectInv DEF Disturbed
<1>3. CASE \E f \in Files : ChangeFile(f)
  BY <1>3, ChangeInv
<1>4. CASE Claim \/ TakeBack \/ QueueJob \/ Crash
  BY <1>4, ClaimInv, TakeBackInv, QueueInv, CrashInv
<1>5. CASE MoveContent \/ UpgradeEngine \/ UNCHANGED vars
  BY <1>5, MoveInv, UpgradeInv, StutterInv
<1> QED
  BY <1>1, <1>2, <1>3, <1>4, <1>5 DEF Next

\* Every initial state satisfies the invariant.
LEMMA InitInv == Init => Inv
<1> SUFFICES ASSUME Init PROVE Inv
  OBVIOUS
<1> USE ManifestAssumption DEF ManifestAssumption, Init
<1>1. WorldType /\ FilesType
  BY DEF WorldType, FilesType, Contents, Statuses
<1>2. RunType /\ ThreadType
  BY DEF RunType, ThreadType, Contents, Pcs
<1>3. Checkpoints /\ Settled /\ ScanEngine /\ Read
  BY DEF Read, Checkpoints, Settled, ScanEngine, Verifying, Clean, Flawless, With
<1>4. Carried /\ Decision /\ NoMalwarePasses
  BY DEF Carried, Decision, NoMalwarePasses
<1> QED
  BY <1>1, <1>2, <1>3, <1>4 DEF Inv, TypeOK

\* The invariant holds in every state.
THEOREM Invariance == Spec => []Inv
BY InitInv, StepInv, PTL DEF Spec

\* World, run, rows and thread keep their types, whatever the services do.
THEOREM TypeCorrect == Spec => []TypeOK
<1>1. Inv => TypeOK
  BY DEF Inv
<1> QED
  BY <1>1, Invariance, PTL

\* run_claim never records a clean verdict over a file of the last walk that
\* the engine of the run finds fault with, nor over one it did not read.
THEOREM MalwareNeverPasses == Spec => []NoMalwarePasses
<1>1. Inv => NoMalwarePasses
  BY DEF Inv
<1> QED
  BY <1>1, Invariance, PTL

\* Only a manifest takes a checkpoint away, and only for a file that changed.
LEMMA ManifestKeepsCheckpoints ==
  ASSUME Inv, WriteManifest
  PROVE  KeepsCheckpoints
BY DEF Inv, Read, Clean, KeepsCheckpoints, WriteManifest, ManifestStatus, RootChanged,
       Outdated, VersionChanged, TypeOK, FilesType, ThreadType

\* Every step keeps the checkpoints.
LEMMA StepKeepsCheckpoints ==
  ASSUME Inv, Next
  PROVE  [KeepsCheckpoints]_vars
<1> USE DEF Inv, TypeOK, FilesType, ThreadType, KeepsCheckpoints
<1>1. CASE UNCHANGED rows
  BY <1>1 DEF rows
<1>2. CASE GiveUp \/ Fail \/ Reject \/ TakeBack
  BY <1>2 DEF GiveUp, Fail, Reject, TakeBack, FilesReturned, rows, run
<1>3. CASE CommitManifest
  BY <1>2, <1>3, ManifestKeepsCheckpoints DEF CommitManifest
<1>4. CASE PickFile
  BY <1>2, <1>4 DEF PickFile, With, rows
<1>5. CASE RecordResult
  <2>1. PICK f \in current : GiveUp \/ Fail \/ UNCHANGED rows \/ RecordClean(f)
    BY <1>5 DEF RecordResult
  <2>2. f \in Files /\ ~Clean(f)
    BY <1>5 DEF RecordResult, Read, Clean
  <2> QED
    BY <1>1, <1>2, <2>1, <2>2 DEF RecordClean, Clean
<1>9. CASE ReportInfected
  <2>1. PICK f \in current : RecordInfected(f)
    BY <1>9 DEF ReportInfected
  <2>2. f \in Files /\ ~Clean(f)
    BY <1>9 DEF ReportInfected, Read, Clean
  <2> QED
    BY <2>1, <2>2 DEF RecordInfected, Clean
<1>6. CASE CheckHealth \/ Walk \/ NextRound \/ Finish \/ Disturbed
  BY <1>1, <1>2, <1>6 DEF CheckHealth, Walk, NextRound, Finish, Disturbed, rows
<1>7. CASE Claim \/ Locate \/ QueueJob \/ Crash \/ MoveContent \/ UpgradeEngine
  BY <1>1, <1>7 DEF Claim, Locate, QueueJob, Crash, MoveContent, UpgradeEngine, rows
<1>8. CASE \E f \in Files : ChangeFile(f)
  BY <1>1, <1>8 DEF ChangeFile, rows
<1> QED
  BY <1>2, <1>3, <1>4, <1>5, <1>6, <1>7, <1>8, <1>9 DEF Next, ThreadStep

\* No restart, retry, pause or failure of run_claim costs the checkpoint of a
\* file that did not change.
THEOREM CheckpointsAreKept == Spec => CheckpointsSurvive
<1>1. Inv /\ [Next]_vars => [KeepsCheckpoints]_vars
  BY StepKeepsCheckpoints
<1> QED
  BY <1>1, Invariance, PTL DEF Spec, CheckpointsSurvive, KeepsCheckpoints

\* A step that leaves the count and the results alone.
LEMMA CountStays ==
  ASSUME ProgressIsExact, Done' = Done, completed' = completed
  PROVE  ProgressIsExact'
BY DEF ProgressIsExact

\* One more result is one more file that is done.
LEMMA OneMore ==
  ASSUME Inv, NEW f \in Files, status[f] \notin {"clean", "infected"},
         NEW s \in {"clean", "infected"}, status' = [status EXCEPT ![f] = s]
  PROVE  Cardinality(Done') = Cardinality(Done) + 1
<1>1. Done' = Done \cup {f} /\ f \notin Done
  BY DEF Done, With, Inv, TypeOK, FilesType
<1>2. Done \in SUBSET Files /\ IsFiniteSet(Files)
  BY ManifestAssumption DEF Done, With, ManifestAssumption
<1>3. IsFiniteSet(Done)
  BY <1>2, FS_Subset
<1> QED
  BY <1>1, <1>3, FS_AddElement

\* Every step keeps the count.
LEMMA StepCounts ==
  ASSUME Inv, ProgressIsExact, [Next]_vars
  PROVE  ProgressIsExact'
<1> USE DEF Inv, TypeOK, FilesType, ThreadType
<1>u. UNCHANGED rows /\ completed' = completed => ProgressIsExact'
  BY CountStays DEF rows, Done, With
<1>1. GiveUp \/ Fail \/ Reject => ProgressIsExact'
  <2> SUFFICES ASSUME GiveUp \/ Fail \/ Reject PROVE ProgressIsExact'
    OBVIOUS
  <2>1. Done' = Done /\ completed' = completed
    BY DEF GiveUp, Fail, Reject, FilesReturned, Done, With, run, rows
  <2> QED
    BY <2>1, CountStays
<1>2. CASE CommitManifest
  <2>1. CASE WriteManifest
    <3>1. Done' = {f \in Files : ManifestStatus[f] = "clean"}
      BY <2>1 DEF WriteManifest, Done, With, ManifestStatus, Outdated
    <3> QED
      BY <2>1, <3>1 DEF WriteManifest, ProgressIsExact
  <2> QED
    BY <1>1, <1>2, <2>1 DEF CommitManifest
<1>3. CASE PickFile
  <2>1. CASE UNCHANGED run /\ Done' = Done
    BY <2>1, CountStays DEF run
  <2>2. PickFile => Fail \/ (UNCHANGED run /\ Done' = Done)
    BY DEF PickFile, Done, With, rows
  <2> QED
    BY <1>1, <1>3, <2>1, <2>2
<1>4. CASE RecordResult
  <2>1. PICK f \in current : GiveUp \/ Fail \/ UNCHANGED <<run, rows>> \/ RecordClean(f)
    BY <1>4 DEF RecordResult
  <2>2. f \in Files /\ status[f] \notin {"clean", "infected"}
    BY <1>4 DEF RecordResult, Read
  <2>3. CASE RecordClean(f)
    BY <2>2, <2>3, OneMore DEF RecordClean, ProgressIsExact
  <2> QED
    BY <1>1, <1>u, <2>1, <2>3 DEF run
<1>5. CASE ReportInfected
  <2>1. PICK f \in current : RecordInfected(f)
    BY <1>5 DEF ReportInfected
  <2>2. f \in Files /\ status[f] \notin {"clean", "infected"}
    BY <1>5 DEF ReportInfected, Read
  <2> QED
    BY <2>1, <2>2, OneMore DEF RecordInfected, ProgressIsExact
<1>6. CASE CheckHealth \/ Walk \/ NextRound \/ Finish \/ Locate
  BY <1>1, <1>u, <1>6 DEF CheckHealth, Walk, NextRound, Finish, Locate, run
<1>7. CASE Claim \/ TakeBack \/ QueueJob \/ Crash
  <2>1. Done' = Done /\ completed' = completed
    BY <1>7 DEF Claim, TakeBack, QueueJob, Crash, FilesReturned, Done, With, run, rows
  <2> QED
    BY <2>1, CountStays
<1>8. CASE (\E f \in Files : ChangeFile(f)) \/ MoveContent \/ UpgradeEngine \/ UNCHANGED vars
  BY <1>8, <1>u DEF ChangeFile, MoveContent, UpgradeEngine, vars, run
<1>9. CASE pc # "idle" /\ Disturbed
  BY <1>1, <1>9 DEF Disturbed
<1> QED
  BY <1>2, <1>3, <1>4, <1>5, <1>6, <1>7, <1>8, <1>9 DEF Next, ThreadStep

\* The progress an operator sees is the number of files with a result, across
\* manifests that put files back, findings that a late callback queues again,
\* crashes, retries and claims that were taken away.
THEOREM ProgressStaysExact == Spec => []ProgressIsExact
<1>1. Init => ProgressIsExact
  <2> SUFFICES ASSUME Init PROVE ProgressIsExact
    OBVIOUS
  <2>1. Done = {}
    BY DEF Init, Done, With
  <2> QED
    BY <2>1, FS_EmptySet DEF Init, ProgressIsExact
<1>2. Inv /\ ProgressIsExact /\ [Next]_vars => ProgressIsExact'
  BY StepCounts
<1> QED
  BY <1>1, <1>2, Invariance, PTL DEF Spec
=============================================================================
