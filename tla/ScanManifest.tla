----------------------------- MODULE ScanManifest -----------------------------
(***************************************************************************)
(* The file manifest of one job and its checkpoints: what run_claim of     *)
(* app/scan_coordinator.py writes to scan_files and scan_runs while the    *)
(* content on disk, its place and the scanner's engine change under it.    *)
(*                                                                         *)
(* ScanQueue shows that a job has one thread and that a thread may lose    *)
(* its run while it works; here owns says whether it still has it.  The    *)
(* fingerprint of a file (size, times, device, inode) is one number, new   *)
(* with every change; the engine stands for the engine and policy versions *)
(* and only rises.  A signature update alone resets nothing in the code    *)
(* and is left out.  A walk of the disk is one step.  A paused job waits   *)
(* like a queued one and is shown as scan_pending.                         *)
(***************************************************************************)
EXTENDS Integers, FiniteSets

CONSTANTS
  Files,         \* relative paths the torrent may have
  Roots, None,   \* content paths qBittorrent may report; no path
  Versions,      \* fingerprints a file can have: 1 .. n
  Engines,       \* engine and policy versions: 1 .. n
  Detected,      \* the <<file, version, engine>> with a finding
  MaxFailures,   \* scan_max_failures
  MaxChanges,    \* bound: changes of disk, place and engine, and retries
  MaxFaults      \* bound: crashes, lost runs and errors of other services

ASSUME ManifestAssumption ==
  /\ IsFiniteSet(Files) /\ None \notin Roots /\ Roots # {}
  /\ Versions \subseteq Nat \ {0} /\ Engines \subseteq Nat \ {0} /\ Engines # {}
  /\ Detected \subseteq Files \X Versions \X Engines
  /\ MaxFailures \in Nat \ {0} /\ MaxChanges \in Nat /\ MaxFaults \in Nat

VARIABLES
  disk, newest, place, engine,            \* the world
  jobState, verdict, failures,            \* the job and its run
  runRoot, runEngine, completed,
  status, version,            \* its rows of scan_files
  pc, owns, goal, identity, content, listing, current,  \* run_claim
  atWalk,                                 \* history: the disk at the last walk
  changes, faults

world == <<disk, newest, place, engine>>
run == <<jobState, verdict, failures, runRoot, runEngine, completed>>
rows == <<status, version>>
thread == <<pc, owns, goal, identity, content, listing, current, atWalk>>
vars == <<world, run, rows, thread, changes, faults>>

Absent == 0
Special == -1      \* a link, a device, anything but a regular file
Contents == Versions \cup {Absent, Special}
Statuses == {"none", "pending", "scanning", "clean", "infected", "error"}
Pcs == {"idle", "spawned", "locate", "walk", "commit", "loop", "pick", "scan",
        "report", "finish"}

Change == changes < MaxChanges /\ changes' = changes + 1
Fault == faults < MaxFaults /\ faults' = faults + 1
Calm == UNCHANGED <<changes, faults>>
With(s) == {f \in Files : status[f] = s}

Init ==
  /\ newest \in [Files -> Versions \cup {Absent}]
  /\ disk = newest
  /\ place \in Roots /\ engine \in Engines
  /\ jobState = "scan_pending" /\ verdict = "none" /\ failures = 0
  /\ runRoot = None /\ runEngine = 0 /\ completed = 0
  /\ status = [f \in Files |-> "none"]
  /\ version = [f \in Files |-> Absent]
  /\ pc = "idle" /\ owns = FALSE /\ goal = "loop" /\ identity = 0
  /\ content = None /\ listing = disk /\ current = {} /\ atWalk = disk
  /\ changes = 0 /\ faults = 0

-----------------------------------------------------------------------------
(* How a claim ends                                                        *)

\* Mutant of FilesReturned: the rows of finished files go back as well.
AllReturned(s) == status' = [f \in Files |-> IF status[f] = "none" THEN "none" ELSE s]
\* The rows in progress are set to s.
FilesReturned(s) == status' = [f \in Files |-> IF status[f] = "scanning" THEN s ELSE status[f]]
EndThread == pc' = "idle" /\ owns' = FALSE /\ current' = {}
             /\ UNCHANGED <<goal, identity, content, listing, atWalk>>

\* _handle_interruption, _defer_claim, a pause; all three do nothing to a
\* run that is not the thread's any more, nor do the next two.
GiveUp ==
  /\ EndThread
  /\ IF owns
     THEN /\ jobState' = "scan_pending" /\ FilesReturned("pending")
          /\ UNCHANGED <<verdict, failures, runRoot, runEngine, completed,
                         version>>
     ELSE UNCHANGED <<run, rows>>

\* _handle_failure
Fail ==
  /\ EndThread
  /\ IF owns
     THEN /\ failures' = failures + 1 /\ FilesReturned("pending")
          /\ jobState' = IF failures + 1 >= MaxFailures THEN "error" ELSE "scan_pending"
          /\ UNCHANGED <<verdict, runRoot, runEngine, completed, version>>
     ELSE UNCHANGED <<run, rows>>

\* _handle_policy_failure
Reject ==
  /\ EndThread
  /\ IF owns
     THEN /\ jobState' = "error" /\ verdict' = "error" /\ FilesReturned("error")
          /\ UNCHANGED <<failures, runRoot, runEngine, completed, version>>
     ELSE UNCHANGED <<run, rows>>

Disturbed == Fault /\ (GiveUp \/ Fail \/ Reject) /\ UNCHANGED <<world, changes>>

-----------------------------------------------------------------------------
(* run_claim                                                               *)

\* claim_jobs and the start of the thread
Claim ==
  /\ pc = "idle" /\ jobState = "scan_pending"
  /\ jobState' = "scanning" /\ pc' = "spawned" /\ owns' = TRUE
  /\ UNCHANGED <<world, verdict, failures, runRoot, runEngine, completed, rows, goal,
                 identity, content, listing, current, atWalk>> /\ Calm

\* The thread looks for its run and asks for the engine (require_healthy).
CheckHealth ==
  /\ pc = "spawned"
  /\ \/ ~owns /\ GiveUp
     \/ /\ owns /\ identity' = engine /\ pc' = "locate"
        /\ UNCHANGED <<run, rows, owns, goal, content, listing, current, atWalk>>
  /\ UNCHANGED world /\ Calm

\* qBittorrent confirms the pause and the content path.
Locate ==
  /\ pc = "locate" /\ content' = place /\ pc' = "walk" /\ goal' = "loop"
  /\ UNCHANGED <<world, run, rows, owns, identity, listing, current, atWalk>> /\ Calm

\* _filesystem_manifest refuses a root or a file it cannot list.
Listable == content = place /\ \A f \in Files : disk[f] # Special
Walk ==
  /\ pc = "walk"
  /\ \/ /\ Listable /\ listing' = disk /\ atWalk' = disk /\ pc' = "commit"
        /\ UNCHANGED <<run, rows, owns, goal, identity, content, current>>
     \/ ~Listable /\ Fail
  /\ UNCHANGED world /\ Calm

VersionChanged == runRoot # None /\ runEngine # identity
\* Mutant of RootChanged: a resolved path is compared with one that is not.
RootUnresolved == TRUE
RootChanged == runRoot # content

\* Mutant of Outdated: every file that was begun starts again.
OutdatedAlways(f) == version[f] # listing[f] \/ VersionChanged \/ status[f] # "pending"
\* A row that does not stand for the listed file under this engine any more.
Outdated(f) ==
  \/ version[f] # listing[f] \/ VersionChanged
  \/ status[f] \notin {"pending", "clean"}

\* _prepare_manifest after the walk
ManifestStatus ==
  [f \in Files |->
     IF listing[f] = Absent THEN "none"
     ELSE IF RootChanged \/ status[f] = "none" \/ Outdated(f) THEN "pending"
     ELSE status[f]]
WriteManifest ==
  /\ status' = ManifestStatus
  /\ version' = listing
  /\ runRoot' = content /\ runEngine' = identity
  /\ completed' = Cardinality({f \in Files : ManifestStatus[f] = "clean"})
  /\ verdict' = IF VersionChanged THEN "none" ELSE verdict

\* The lease is renewed, or the claim is lost; then the manifest is written.
\* The walk before a verdict goes back to the loop when it put files back.
CommitManifest ==
  /\ pc = "commit"
  /\ \/ ~owns /\ GiveUp
     \/ /\ owns /\ WriteManifest
        /\ pc' = IF goal = "verify" /\ (\A f \in Files : ManifestStatus[f] # "pending")
                 THEN "finish" ELSE "loop"
        /\ UNCHANGED <<jobState, failures, owns, goal, identity, content, listing,
                       current, atWalk>>
  /\ UNCHANGED world /\ Calm

\* Mutant of MustReset: a changed engine is recorded and its walk left out.
NoReset(e) == FALSE
\* _identity_requires_reset
MustReset(e) == runEngine # e

\* The head of the loop, up to the query for the next file.
NextRound ==
  /\ pc = "loop"
  /\ \/ ~owns /\ GiveUp
     \/ /\ owns /\ identity' = engine
        /\ IF MustReset(engine)
           THEN pc' = "walk" /\ goal' = "loop" /\ UNCHANGED runEngine
           ELSE pc' = "pick" /\ runEngine' = engine /\ UNCHANGED goal
        /\ UNCHANGED <<jobState, verdict, failures, runRoot, completed, rows, owns,
                       content, listing, current, atWalk>>
  /\ UNCHANGED world /\ Calm

\* _refresh_file_fingerprint takes a regular file only.
Regular(f) == disk[f] \in Versions
\* The next pending file is marked, with the fingerprint it has now.
PickFile ==
  /\ pc = "pick"
  /\ \/ \E f \in With("pending") :
          \/ /\ runRoot = place /\ Regular(f)
             /\ status' = [status EXCEPT ![f] = "scanning"]
             /\ version' = [version EXCEPT ![f] = disk[f]]
             /\ pc' = "scan" /\ current' = {f}
             /\ UNCHANGED <<run, owns, goal, identity, content, listing, atWalk>>
          \/ ~(runRoot = place /\ Regular(f)) /\ Fail
     \/ /\ With("pending") = {} /\ pc' = "walk" /\ goal' = "verify"
        /\ UNCHANGED <<run, rows, owns, identity, content, listing, current, atWalk>>
  /\ UNCHANGED world /\ Calm

RecordInfected(f) ==
  /\ status' = [status EXCEPT ![f] = "infected"]
  /\ completed' = completed + 1 /\ failures' = 0 /\ verdict' = "infected"
  /\ jobState' = "scan_infected"
  /\ EndThread /\ UNCHANGED <<runRoot, runEngine, version>>

\* Afterwards the thread goes on, pauses or yields.
RecordClean(f) ==
  /\ status' = [status EXCEPT ![f] = "clean"]
  /\ completed' = completed + 1 /\ failures' = 0 /\ runEngine' = identity
  /\ \/ pc' = "loop" /\ UNCHANGED <<jobState, owns, goal, identity, content, listing,
                                    current, atWalk>>
     \/ jobState' = "scan_pending" /\ EndThread
  /\ UNCHANGED <<verdict, runRoot, version>>

\* scan_path compares the fingerprint before and after the scan.
SameFile(f) == runRoot = place /\ disk[f] = version[f]

\* The scan ran under the engine of the health check or a newer one.  A finding
\* is first written to disk as an event.
RecordResult ==
  /\ pc = "scan"
  /\ \E f \in current :
       \/ ~owns /\ GiveUp
       \/ ~SameFile(f) /\ Fail
       \/ /\ owns /\ SameFile(f)
          /\ \E e \in {x \in Engines : identity <= x /\ x <= engine} :
               IF <<f, version[f], e>> \in Detected
               THEN /\ pc' = "report"
                    /\ UNCHANGED <<run, rows, owns, goal, identity, content, listing,
                                   current, atWalk>>
               ELSE RecordClean(f)
  /\ UNCHANGED world /\ Calm

\* The finding is committed, whoever holds the run by now.
ReportInfected ==
  /\ pc = "report" /\ \E f \in current : RecordInfected(f)
  /\ UNCHANGED world /\ Calm

\* The content path is compared once more; the run is not.
Finish ==
  /\ pc = "finish"
  /\ \/ runRoot # place /\ Fail
     \/ /\ runRoot = place
        /\ verdict' = "clean" /\ jobState' = "scan_clean"
        /\ EndThread /\ UNCHANGED <<failures, runRoot, runEngine, completed, rows>>
  /\ UNCHANGED world /\ Calm

ThreadStep ==
  \/ CheckHealth \/ Locate \/ Walk \/ CommitManifest \/ NextRound \/ PickFile
  \/ RecordResult \/ ReportInfected \/ Finish

-----------------------------------------------------------------------------
(* What goes on around the thread                                          *)

\* recover_interrupted_scans, for a dead claim or under one whose lease ran out
TakeBack ==
  /\ jobState = "scanning" /\ jobState' = "scan_pending" /\ owns' = FALSE
  /\ FilesReturned("pending")
  /\ IF pc = "idle" THEN UNCHANGED faults ELSE Fault
  /\ UNCHANGED <<world, verdict, failures, runRoot, runEngine, completed, version, pc,
                 goal, identity, content, listing, current, atWalk, changes>>

\* queue_job: for a retried job, or by a callback that read the job before it
\* was queued and commits over the scan or its verdict.  The rows of the files
\* and their count stay.
QueueJob ==
  /\ \/ jobState = "error" /\ Change /\ UNCHANGED faults
     \/ Fault /\ UNCHANGED changes
  /\ jobState' = "scan_pending" /\ verdict' = "none" /\ failures' = 0 /\ owns' = FALSE
  /\ UNCHANGED <<world, runRoot, runEngine, completed, rows, pc, goal, identity,
                 content, listing, current, atWalk>>

Crash ==
  /\ pc # "idle" /\ Fault /\ EndThread
  /\ UNCHANGED <<world, run, rows, changes>>

\* The file gets a content it never had, disappears, or becomes special.
ChangeFile(f) ==
  /\ Change
  /\ \/ /\ newest[f] + 1 \in Versions
        /\ newest' = [newest EXCEPT ![f] = @ + 1]
        /\ disk' = [disk EXCEPT ![f] = newest'[f]]
     \/ disk' = [disk EXCEPT ![f] = Absent] /\ UNCHANGED newest
     \/ disk' = [disk EXCEPT ![f] = Special] /\ UNCHANGED newest
  /\ UNCHANGED <<place, engine, run, rows, thread, faults>>

MoveContent ==
  /\ Change /\ place' \in Roots \ {place}
  /\ UNCHANGED <<disk, newest, engine, run, rows, thread, faults>>

UpgradeEngine ==
  /\ Change /\ engine' \in {e \in Engines : e > engine}
  /\ UNCHANGED <<disk, newest, place, run, rows, thread, faults>>

Next ==
  \/ Claim \/ ThreadStep \/ (pc # "idle" /\ Disturbed)
  \/ TakeBack \/ QueueJob \/ Crash
  \/ \E f \in Files : ChangeFile(f)
  \/ MoveContent \/ UpgradeEngine

\* The queue claims, the thread runs, and the recovery finds dead claims.
Fairness == WF_vars(Claim) /\ WF_vars(ThreadStep) /\ WF_vars(pc = "idle" /\ TakeBack)

Spec == Init /\ [][Next]_vars
FairSpec == Spec /\ Fairness

-----------------------------------------------------------------------------
(* Properties                                                              *)

\* World, run, rows and thread hold values of their types.
WorldType ==
  /\ disk \in [Files -> Contents] /\ newest \in [Files -> Versions \cup {Absent}]
  /\ place \in Roots /\ engine \in Engines
RunType ==
  /\ jobState \in {"scan_pending", "scanning", "scan_clean", "scan_infected", "error"}
  /\ verdict \in {"none", "clean", "infected", "error"}
  /\ failures \in Nat /\ runRoot \in Roots \cup {None}
  /\ runEngine \in Engines \cup {0} /\ completed \in Nat
FilesType ==
  /\ status \in [Files -> Statuses]
  /\ version \in [Files -> Versions \cup {Absent}]
ThreadType ==
  /\ pc \in Pcs /\ owns \in BOOLEAN /\ goal \in {"loop", "verify"}
  /\ identity \in Engines \cup {0} /\ content \in Roots \cup {None}
  /\ listing \in [Files -> Contents] /\ atWalk \in [Files -> Contents]
  /\ current \in SUBSET Files
TypeOK == WorldType /\ RunType /\ FilesType /\ ThreadType

\* A clean verdict vouches for everything the last walk met, under the engine
\* it names: nothing special, and no version that engine finds fault with.
NoMalwarePasses ==
  verdict = "clean" =>
    \A f \in Files :
      /\ atWalk[f] # Special
      /\ <<f, atWalk[f], runEngine>> \notin Detected

\* A restart, a retry, a pause or a failure costs no checkpoint: a file that
\* was done is scanned again only if it, its place or the engine changed.
CheckpointsSurvive ==
  [][\A f \in Files :
       status[f] = "clean" /\ status'[f] # "clean" =>
         version'[f] # version[f] \/ runEngine' # runEngine \/ runRoot' # runRoot]_vars

\* The progress shown for a scan is the number of files with a result: the
\* checkpoints and, until the next manifest, a finding.
Done == With("clean") \cup With("infected")
ProgressIsExact == completed = Cardinality(Done)

\* Whatever happened before, a queued job comes to a decision.
ScanDecides ==
  jobState \in {"scan_pending", "scanning"} ~>
    jobState \in {"scan_clean", "scan_infected", "error"}
=============================================================================
