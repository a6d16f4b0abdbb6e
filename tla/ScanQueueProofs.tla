--------------------------- MODULE ScanQueueProofs ---------------------------
(***************************************************************************)
(* Proofs about ScanQueue for any number of jobs, slots, files, faults and *)
(* requests.                                                               *)
(***************************************************************************)
EXTENDS ScanQueue, FiniteSetTheorems, TLAPS

\* What the loop of run_claim knows of its manifest: a file being scanned is
\* not yet counted as done, and a thread about to finish saw none left.
FileCounts ==
  \A j \in Jobs, i \in Ids :
    /\ pc[j][i] = "scanning" => unscanned[j] > 0
    /\ pc[j][i] = "finishing" => unscanned[j] = 0

\* Decisions of the management cycle are in flight only during that cycle,
\* and claims wait for their thread only between claim_jobs and the spawning.
LoopPhases ==
  /\ managed # None => loopPc = "managing"
  /\ \A j \in Jobs, i \in Ids : pc[j][i] = "issued" => loopPc \in {"claiming", "spawning"}

\* What holds of the rows alone.
RowsInv == RowsType /\ ScanningIsLeased /\ VerdictBacked

PcInv == ThreadType /\ OneRunnerPerJob /\ FileCounts
PhaseInv == LoopPhases /\ ManagementMissesScans /\ DownIsQuiet
RestType == ControlType /\ LoopType /\ ApiType /\ BudgetType

\* The inductive invariant.
Inv == RowsInv /\ PcInv /\ PhaseInv /\ RestType

\* A step that puts no job into scanning.
NoNewScan == \A k \in Jobs : jobState'[k] = "scanning" => jobState[k] = "scanning"
-----------------------------------------------------------------------------
(* Values                                                                  *)

\* The literals the code assigns are of the types of their columns.
LEMMA Values ==
  /\ "tracking" \in JobStates /\ "error" \in JobStates /\ "removed" \in JobStates
  /\ "scan_pending" \in JobStates /\ "scanning" \in JobStates
  /\ "scan_paused" \in JobStates /\ "scan_clean" \in JobStates
  /\ "scan_infected" \in JobStates
  /\ "none" \in Verdicts /\ "clean" \in Verdicts /\ "infected" \in Verdicts
  /\ "error" \in Verdicts
  /\ "none" \in Leases /\ "live" \in Leases /\ "expired" \in Leases
  /\ "revived" \in Leases
  /\ RunningPcs \subseteq Pcs /\ "free" \in Pcs /\ "issued" \in Pcs
  /\ QueueStates \subseteq JobStates
BY DEF JobStates, QueueStates, DecidedStates, Verdicts, Leases, Pcs, RunningPcs

\* The null is no worker id and no job.
LEMMA NullIsNoId == None \notin Ids /\ None \notin Jobs
BY ConstantsAssumption DEF ConstantsAssumption

\* A lease stays a lease when it is renewed or counted.
LEMMA LeasesStay ==
  ASSUME NEW l \in Leases
  PROVE  /\ Renewed(l) \in {"live", "expired", "revived"}
         /\ Counted(l) \in Leases /\ (l # "none" => Counted(l) # "none")
BY DEF Renewed, Counted, Leases

\* A torrent has a file.
LEMMA FilesAreCounted == MaxFiles \in Nat /\ MaxFiles > 0
BY ConstantsAssumption DEF ConstantsAssumption

-----------------------------------------------------------------------------
(* The writers of the rows                                                 *)

\* Nothing written.
LEMMA RowsUnchanged ==
  ASSUME RowsInv, UNCHANGED rows
  PROVE  RowsInv' /\ NoNewScan
<1>1. RowsType'
  BY Values, NullIsNoId DEF RowsInv, RowsType, rows
<1>2. ScanningIsLeased' /\ NoNewScan
  BY Values, NullIsNoId DEF RowsInv, RowsType, ScanningIsLeased, NoNewScan, rows
<1>3. VerdictBacked'
  BY Values, NullIsNoId DEF RowsInv, RowsType, VerdictBacked, rows
<1> QED
  BY <1>1, <1>2, <1>3 DEF RowsInv

\* queue_job
LEMMA RowsQueueJob ==
  ASSUME RowsInv, NEW j \in Jobs, QueueJob(j)
  PROVE  RowsInv' /\ NoNewScan
<1>1. RowsType'
  <2>1. jobState' \in [Jobs -> JobStates] /\ verdict' \in [Jobs -> Verdicts]
    BY Values, NullIsNoId DEF RowsInv, RowsType, QueueJob, ReleaseLease
  <2>2. workerId' \in [Jobs -> Ids \cup {None}] /\ lease' \in [Jobs -> Leases]
    BY Values, NullIsNoId DEF RowsInv, RowsType, QueueJob, ReleaseLease
  <2>3. pauseRequested' \in [Jobs -> BOOLEAN] /\ backoff' \in [Jobs -> BOOLEAN]
    BY Values, NullIsNoId DEF RowsInv, RowsType, QueueJob, ReleaseLease
  <2>4. failures' \in [Jobs -> Nat] /\ unscanned' \in [Jobs -> 0 .. MaxFiles]
    BY Values, NullIsNoId DEF RowsInv, RowsType, QueueJob, ReleaseLease
  <2> QED
    BY <2>1, <2>2, <2>3, <2>4 DEF RowsType
<1>2. ScanningIsLeased' /\ NoNewScan
  BY Values, NullIsNoId DEF RowsInv, RowsType, ScanningIsLeased, NoNewScan, QueueJob, ReleaseLease
<1>3. VerdictBacked'
  BY Values, NullIsNoId DEF RowsInv, RowsType, VerdictBacked, QueueJob, ReleaseLease
<1> QED
  BY <1>1, <1>2, <1>3 DEF RowsInv

\* recover_interrupted_scans
LEMMA RowsRecover ==
  ASSUME RowsInv, NEW force \in BOOLEAN, RecoverInterrupted(force)
  PROVE  RowsInv' /\ NoNewScan
<1>1. RowsType'
  <2>1. jobState' \in [Jobs -> JobStates] /\ verdict' \in [Jobs -> Verdicts]
    BY Values, NullIsNoId DEF RowsInv, RowsType, RecoverInterrupted, StaleScans, StateAfterRequeue
  <2>2. workerId' \in [Jobs -> Ids \cup {None}] /\ lease' \in [Jobs -> Leases]
    BY Values, NullIsNoId DEF RowsInv, RowsType, RecoverInterrupted, StaleScans, StateAfterRequeue
  <2>3. pauseRequested' \in [Jobs -> BOOLEAN] /\ backoff' \in [Jobs -> BOOLEAN]
    BY Values, NullIsNoId DEF RowsInv, RowsType, RecoverInterrupted, StaleScans, StateAfterRequeue
  <2>4. failures' \in [Jobs -> Nat] /\ unscanned' \in [Jobs -> 0 .. MaxFiles]
    BY Values, NullIsNoId DEF RowsInv, RowsType, RecoverInterrupted, StaleScans, StateAfterRequeue
  <2> QED
    BY <2>1, <2>2, <2>3, <2>4 DEF RowsType
<1>2. ScanningIsLeased' /\ NoNewScan
  BY Values, NullIsNoId DEF RowsInv, RowsType, ScanningIsLeased, NoNewScan, RecoverInterrupted, StaleScans, StateAfterRequeue
<1>3. VerdictBacked'
  BY Values, NullIsNoId DEF RowsInv, RowsType, VerdictBacked, RecoverInterrupted, StaleScans, StateAfterRequeue
<1> QED
  BY <1>1, <1>2, <1>3 DEF RowsInv

\* _handle_interruption
LEMMA RowsInterruption ==
  ASSUME RowsInv, NEW j \in Jobs, NEW i \in Ids, HandleInterruption(j, i)
  PROVE  RowsInv' /\ NoNewScan
<1>1. CASE ~Owns(j, i)
  BY <1>1, RowsUnchanged DEF HandleInterruption
<1>2. CASE Owns(j, i)
  <2>1. RowsType'
    <3>1. jobState' \in [Jobs -> JobStates] /\ verdict' \in [Jobs -> Verdicts]
      BY <1>2, Values, NullIsNoId DEF RowsInv, RowsType, HandleInterruption, ReleaseLease, StateAfterRequeue
    <3>2. workerId' \in [Jobs -> Ids \cup {None}] /\ lease' \in [Jobs -> Leases]
      BY <1>2, Values, NullIsNoId DEF RowsInv, RowsType, HandleInterruption, ReleaseLease, StateAfterRequeue
    <3>3. pauseRequested' \in [Jobs -> BOOLEAN] /\ backoff' \in [Jobs -> BOOLEAN]
      BY <1>2, Values, NullIsNoId DEF RowsInv, RowsType, HandleInterruption, ReleaseLease, StateAfterRequeue
    <3>4. failures' \in [Jobs -> Nat] /\ unscanned' \in [Jobs -> 0 .. MaxFiles]
      BY <1>2, Values, NullIsNoId DEF RowsInv, RowsType, HandleInterruption, ReleaseLease, StateAfterRequeue
    <3> QED
      BY <3>1, <3>2, <3>3, <3>4 DEF RowsType
  <2>2. ScanningIsLeased' /\ NoNewScan
    BY <1>2, Values, NullIsNoId DEF RowsInv, RowsType, ScanningIsLeased, NoNewScan, HandleInterruption, ReleaseLease, StateAfterRequeue
  <2>3. VerdictBacked'
    BY <1>2, Values, NullIsNoId DEF RowsInv, RowsType, VerdictBacked, HandleInterruption, ReleaseLease, StateAfterRequeue
  <2> QED
    BY <2>1, <2>2, <2>3 DEF RowsInv
<1> QED
  BY <1>1, <1>2

\* _defer_claim
LEMMA RowsDefer ==
  ASSUME RowsInv, NEW j \in Jobs, NEW i \in Ids, NEW b \in BOOLEAN,
         DeferClaim(j, i, b)
  PROVE  RowsInv' /\ NoNewScan
<1>1. CASE ~Owns(j, i)
  BY <1>1, RowsUnchanged DEF DeferClaim
<1>2. CASE Owns(j, i)
  <2>1. RowsType'
    <3>1. jobState' \in [Jobs -> JobStates] /\ verdict' \in [Jobs -> Verdicts]
      BY <1>2, Values, NullIsNoId DEF RowsInv, RowsType, DeferClaim, ReleaseLease, StateAfterRequeue
    <3>2. workerId' \in [Jobs -> Ids \cup {None}] /\ lease' \in [Jobs -> Leases]
      BY <1>2, Values, NullIsNoId DEF RowsInv, RowsType, DeferClaim, ReleaseLease, StateAfterRequeue
    <3>3. pauseRequested' \in [Jobs -> BOOLEAN] /\ backoff' \in [Jobs -> BOOLEAN]
      BY <1>2, Values, NullIsNoId DEF RowsInv, RowsType, DeferClaim, ReleaseLease, StateAfterRequeue
    <3>4. failures' \in [Jobs -> Nat] /\ unscanned' \in [Jobs -> 0 .. MaxFiles]
      BY <1>2, Values, NullIsNoId DEF RowsInv, RowsType, DeferClaim, ReleaseLease, StateAfterRequeue
    <3> QED
      BY <3>1, <3>2, <3>3, <3>4 DEF RowsType
  <2>2. ScanningIsLeased' /\ NoNewScan
    BY <1>2, Values, NullIsNoId DEF RowsInv, RowsType, ScanningIsLeased, NoNewScan, DeferClaim, ReleaseLease, StateAfterRequeue
  <2>3. VerdictBacked'
    BY <1>2, Values, NullIsNoId DEF RowsInv, RowsType, VerdictBacked, DeferClaim, ReleaseLease, StateAfterRequeue
  <2> QED
    BY <2>1, <2>2, <2>3 DEF RowsInv
<1> QED
  BY <1>1, <1>2

\* _handle_failure
LEMMA RowsFailure ==
  ASSUME RowsInv, NEW j \in Jobs, NEW i \in Ids, HandleFailure(j, i)
  PROVE  RowsInv' /\ NoNewScan
<1>1. CASE ~Owns(j, i)
  BY <1>1, RowsUnchanged DEF HandleFailure
<1>2. CASE Owns(j, i)
  <2>1. PICK s \in {"error", "scan_pending"} : jobState' = [jobState EXCEPT ![j] = s]
    BY <1>2 DEF HandleFailure
  <2>2. backoff' \in [Jobs -> BOOLEAN]
    BY <1>2 DEF HandleFailure, RowsInv, RowsType
  <2>3. /\ failures' = [failures EXCEPT ![j] = @ + 1]
        /\ ReleaseLease(j)
        /\ UNCHANGED <<verdict, pauseRequested, unscanned>>
    BY <1>2 DEF HandleFailure
  <2>4. RowsType'
    <3>1. s \in JobStates
      BY Values
    <3>2. failures' \in [Jobs -> Nat]
      BY <2>3 DEF RowsInv, RowsType
    <3> QED
      BY <2>1, <2>2, <2>3, <3>1, <3>2, Values DEF RowsInv, RowsType, ReleaseLease
  <2>5. ScanningIsLeased' /\ NoNewScan
    BY <2>1, <2>3 DEF RowsInv, RowsType, ScanningIsLeased, NoNewScan, ReleaseLease
  <2>6. VerdictBacked'
    BY <2>1, <2>3 DEF RowsInv, RowsType, VerdictBacked, ReleaseLease
  <2> QED
    BY <2>4, <2>5, <2>6 DEF RowsInv
<1> QED
  BY <1>1, <1>2

\* _handle_policy_failure
LEMMA RowsPolicy ==
  ASSUME RowsInv, NEW j \in Jobs, NEW i \in Ids, HandlePolicyFailure(j, i)
  PROVE  RowsInv' /\ NoNewScan
<1>1. CASE ~Owns(j, i)
  BY <1>1, RowsUnchanged DEF HandlePolicyFailure
<1>2. CASE Owns(j, i)
  <2>1. RowsType'
    <3>1. jobState' \in [Jobs -> JobStates] /\ verdict' \in [Jobs -> Verdicts]
      BY <1>2, Values, NullIsNoId DEF RowsInv, RowsType, HandlePolicyFailure, ReleaseLease
    <3>2. workerId' \in [Jobs -> Ids \cup {None}] /\ lease' \in [Jobs -> Leases]
      BY <1>2, Values, NullIsNoId DEF RowsInv, RowsType, HandlePolicyFailure, ReleaseLease
    <3>3. pauseRequested' \in [Jobs -> BOOLEAN] /\ backoff' \in [Jobs -> BOOLEAN]
      BY <1>2, Values, NullIsNoId DEF RowsInv, RowsType, HandlePolicyFailure, ReleaseLease
    <3>4. failures' \in [Jobs -> Nat] /\ unscanned' \in [Jobs -> 0 .. MaxFiles]
      BY <1>2, Values, NullIsNoId DEF RowsInv, RowsType, HandlePolicyFailure, ReleaseLease
    <3> QED
      BY <3>1, <3>2, <3>3, <3>4 DEF RowsType
  <2>2. ScanningIsLeased' /\ NoNewScan
    BY <1>2, Values, NullIsNoId DEF RowsInv, RowsType, ScanningIsLeased, NoNewScan, HandlePolicyFailure, ReleaseLease
  <2>3. VerdictBacked'
    BY <1>2, Values, NullIsNoId DEF RowsInv, RowsType, VerdictBacked, HandlePolicyFailure, ReleaseLease
  <2> QED
    BY <2>1, <2>2, <2>3 DEF RowsInv
<1> QED
  BY <1>1, <1>2

\* The manifest of a job whose run the claim holds.
LEMMA RowsManifest ==
  ASSUME RowsInv, NEW j \in Jobs, NEW i \in Ids, Owns(j, i), PrepareManifest(j)
  PROVE  RowsInv' /\ NoNewScan
<1>0. lease[j] \in Leases
  BY DEF RowsInv, RowsType
<1>l. Renewed(lease[j]) \in Leases /\ Renewed(lease[j]) # "none"
  BY <1>0, LeasesStay DEF Leases
<1>1. RowsType'
  <2>1. jobState' \in [Jobs -> JobStates] /\ verdict' \in [Jobs -> Verdicts]
    BY <1>l, Values, NullIsNoId, FilesAreCounted DEF RowsInv, RowsType, PrepareManifest, Owns
  <2>2. workerId' \in [Jobs -> Ids \cup {None}] /\ lease' \in [Jobs -> Leases]
    BY <1>l, Values, NullIsNoId, FilesAreCounted DEF RowsInv, RowsType, PrepareManifest, Owns
  <2>3. pauseRequested' \in [Jobs -> BOOLEAN] /\ backoff' \in [Jobs -> BOOLEAN]
    BY <1>l, Values, NullIsNoId, FilesAreCounted DEF RowsInv, RowsType, PrepareManifest, Owns
  <2>4. failures' \in [Jobs -> Nat] /\ unscanned' \in [Jobs -> 0 .. MaxFiles]
    BY <1>l, Values, NullIsNoId, FilesAreCounted DEF RowsInv, RowsType, PrepareManifest, Owns
  <2> QED
    BY <2>1, <2>2, <2>3, <2>4 DEF RowsType
<1>2. ScanningIsLeased' /\ NoNewScan
  BY <1>l, Values, NullIsNoId, FilesAreCounted DEF RowsInv, RowsType, ScanningIsLeased, NoNewScan, PrepareManifest, Owns
<1>3. VerdictBacked'
  BY <1>l, Values, NullIsNoId, FilesAreCounted DEF RowsInv, RowsType, VerdictBacked, PrepareManifest, Owns
<1> QED
  BY <1>1, <1>2, <1>3 DEF RowsInv

\* The verdict of an infected file.
LEMMA RowsInfected ==
  ASSUME RowsInv, NEW j \in Jobs, NEW i \in Ids, RecordInfected(j, i)
  PROVE  RowsInv' /\ NoNewScan
<1>1. RowsType'
  <2>1. jobState' \in [Jobs -> JobStates] /\ verdict' \in [Jobs -> Verdicts]
    BY Values, NullIsNoId DEF RowsInv, RowsType, RecordInfected, ReleaseLease
  <2>2. workerId' \in [Jobs -> Ids \cup {None}] /\ lease' \in [Jobs -> Leases]
    BY Values, NullIsNoId DEF RowsInv, RowsType, RecordInfected, ReleaseLease
  <2>3. pauseRequested' \in [Jobs -> BOOLEAN] /\ backoff' \in [Jobs -> BOOLEAN]
    BY Values, NullIsNoId DEF RowsInv, RowsType, RecordInfected, ReleaseLease
  <2>4. failures' \in [Jobs -> Nat] /\ unscanned' \in [Jobs -> 0 .. MaxFiles]
    BY Values, NullIsNoId DEF RowsInv, RowsType, RecordInfected, ReleaseLease
  <2> QED
    BY <2>1, <2>2, <2>3, <2>4 DEF RowsType
<1>2. ScanningIsLeased' /\ NoNewScan
  BY Values, NullIsNoId DEF RowsInv, RowsType, ScanningIsLeased, NoNewScan, RecordInfected, ReleaseLease
<1>3. VerdictBacked'
  BY Values, NullIsNoId DEF RowsInv, RowsType, VerdictBacked, RecordInfected, ReleaseLease
<1> QED
  BY <1>1, <1>2, <1>3 DEF RowsInv

\* A clean file, counted once.
LEMMA RowsClean ==
  ASSUME RowsInv, NEW j \in Jobs, NEW i \in Ids, Owns(j, i), unscanned[j] > 0,
         RecordClean(j, i)
  PROVE  RowsInv' /\ NoNewScan
<1>1. RowsType'
  <2>1. jobState' \in [Jobs -> JobStates] /\ verdict' \in [Jobs -> Verdicts]
    BY Values, NullIsNoId, FilesAreCounted DEF RowsInv, RowsType, RecordClean, ReleaseLease, Owns
  <2>2. workerId' \in [Jobs -> Ids \cup {None}] /\ lease' \in [Jobs -> Leases]
    BY Values, NullIsNoId, FilesAreCounted DEF RowsInv, RowsType, RecordClean, ReleaseLease, Owns
  <2>3. pauseRequested' \in [Jobs -> BOOLEAN] /\ backoff' \in [Jobs -> BOOLEAN]
    BY Values, NullIsNoId, FilesAreCounted DEF RowsInv, RowsType, RecordClean, ReleaseLease, Owns
  <2>4. failures' \in [Jobs -> Nat] /\ unscanned' \in [Jobs -> 0 .. MaxFiles]
    BY Values, NullIsNoId, FilesAreCounted DEF RowsInv, RowsType, RecordClean, ReleaseLease, Owns
  <2> QED
    BY <2>1, <2>2, <2>3, <2>4 DEF RowsType
<1>2. ScanningIsLeased' /\ NoNewScan
  BY Values, NullIsNoId, FilesAreCounted DEF RowsInv, RowsType, ScanningIsLeased, NoNewScan, RecordClean, ReleaseLease, Owns
<1>3. VerdictBacked'
  BY Values, NullIsNoId, FilesAreCounted DEF RowsInv, RowsType, VerdictBacked, RecordClean, ReleaseLease, Owns
<1> QED
  BY <1>1, <1>2, <1>3 DEF RowsInv

\* _finish_clean_scan with no file left.
LEMMA RowsFinish ==
  ASSUME RowsInv, NEW j \in Jobs, NEW i \in Ids, unscanned[j] = 0,
         FinishCleanScan(j, i)
  PROVE  RowsInv' /\ NoNewScan
<1>1. RowsType'
  <2>1. jobState' \in [Jobs -> JobStates] /\ verdict' \in [Jobs -> Verdicts]
    BY Values, NullIsNoId DEF RowsInv, RowsType, FinishCleanScan, ReleaseLease
  <2>2. workerId' \in [Jobs -> Ids \cup {None}] /\ lease' \in [Jobs -> Leases]
    BY Values, NullIsNoId DEF RowsInv, RowsType, FinishCleanScan, ReleaseLease
  <2>3. pauseRequested' \in [Jobs -> BOOLEAN] /\ backoff' \in [Jobs -> BOOLEAN]
    BY Values, NullIsNoId DEF RowsInv, RowsType, FinishCleanScan, ReleaseLease
  <2>4. failures' \in [Jobs -> Nat] /\ unscanned' \in [Jobs -> 0 .. MaxFiles]
    BY Values, NullIsNoId DEF RowsInv, RowsType, FinishCleanScan, ReleaseLease
  <2> QED
    BY <2>1, <2>2, <2>3, <2>4 DEF RowsType
<1>2. ScanningIsLeased' /\ NoNewScan
  BY Values, NullIsNoId DEF RowsInv, RowsType, ScanningIsLeased, NoNewScan, FinishCleanScan, ReleaseLease
<1>3. VerdictBacked'
  BY Values, NullIsNoId DEF RowsInv, RowsType, VerdictBacked, FinishCleanScan, ReleaseLease
<1> QED
  BY <1>1, <1>2, <1>3 DEF RowsInv

\* _pause_job
LEMMA RowsCommitPause ==
  ASSUME RowsInv, NEW j \in Jobs, CommitPause(j)
  PROVE  RowsInv' /\ NoNewScan
<1>1. RowsType'
  <2>1. jobState' \in [Jobs -> JobStates] /\ verdict' \in [Jobs -> Verdicts]
    BY Values, NullIsNoId DEF RowsInv, RowsType, CommitPause
  <2>2. workerId' \in [Jobs -> Ids \cup {None}] /\ lease' \in [Jobs -> Leases]
    BY Values, NullIsNoId DEF RowsInv, RowsType, CommitPause
  <2>3. pauseRequested' \in [Jobs -> BOOLEAN] /\ backoff' \in [Jobs -> BOOLEAN]
    BY Values, NullIsNoId DEF RowsInv, RowsType, CommitPause
  <2>4. failures' \in [Jobs -> Nat] /\ unscanned' \in [Jobs -> 0 .. MaxFiles]
    BY Values, NullIsNoId DEF RowsInv, RowsType, CommitPause
  <2> QED
    BY <2>1, <2>2, <2>3, <2>4 DEF RowsType
<1>2. ScanningIsLeased' /\ NoNewScan
  BY Values, NullIsNoId DEF RowsInv, RowsType, ScanningIsLeased, NoNewScan, CommitPause
<1>3. VerdictBacked'
  BY Values, NullIsNoId DEF RowsInv, RowsType, VerdictBacked, CommitPause
<1> QED
  BY <1>1, <1>2, <1>3 DEF RowsInv

\* _resume_job
LEMMA RowsCommitResume ==
  ASSUME RowsInv, NEW j \in Jobs, CommitResume(j)
  PROVE  RowsInv' /\ NoNewScan
<1>1. RowsType'
  <2>1. jobState' \in [Jobs -> JobStates] /\ verdict' \in [Jobs -> Verdicts]
    BY Values, NullIsNoId DEF RowsInv, RowsType, CommitResume
  <2>2. workerId' \in [Jobs -> Ids \cup {None}] /\ lease' \in [Jobs -> Leases]
    BY Values, NullIsNoId DEF RowsInv, RowsType, CommitResume
  <2>3. pauseRequested' \in [Jobs -> BOOLEAN] /\ backoff' \in [Jobs -> BOOLEAN]
    BY Values, NullIsNoId DEF RowsInv, RowsType, CommitResume
  <2>4. failures' \in [Jobs -> Nat] /\ unscanned' \in [Jobs -> 0 .. MaxFiles]
    BY Values, NullIsNoId DEF RowsInv, RowsType, CommitResume
  <2> QED
    BY <2>1, <2>2, <2>3, <2>4 DEF RowsType
<1>2. ScanningIsLeased' /\ NoNewScan
  BY Values, NullIsNoId DEF RowsInv, RowsType, ScanningIsLeased, NoNewScan, CommitResume
<1>3. VerdictBacked'
  BY Values, NullIsNoId DEF RowsInv, RowsType, VerdictBacked, CommitResume
<1> QED
  BY <1>1, <1>2, <1>3 DEF RowsInv

\* The lease of a run, renewed or run out.
LEMMA RowsLease ==
  ASSUME RowsInv, NEW j \in Jobs, NEW l \in {"live", "expired", "revived"},
         lease' = [lease EXCEPT ![j] = l],
         UNCHANGED <<jobState, verdict, pauseRequested, workerId, backoff,
                     failures, unscanned>>
  PROVE  RowsInv' /\ NoNewScan
<1>1. RowsType'
  BY Values DEF RowsInv, RowsType
<1>2. ScanningIsLeased' /\ VerdictBacked' /\ NoNewScan
  BY DEF RowsInv, RowsType, ScanningIsLeased, VerdictBacked, NoNewScan
<1> QED
  BY <1>1, <1>2 DEF RowsInv

\* claim_jobs counts the scans.
LEMMA RowsCounted ==
  ASSUME RowsInv, lease' = [j \in Jobs |-> Counted(lease[j])],
         UNCHANGED <<jobState, verdict, pauseRequested, workerId, backoff,
                     failures, unscanned>>
  PROVE  RowsInv' /\ NoNewScan
<1>1. \A j \in Jobs : lease[j] \in Leases
  BY DEF RowsInv, RowsType
<1>2. \A j \in Jobs : lease'[j] \in Leases /\ (lease[j] # "none" => lease'[j] # "none")
  BY <1>1, LeasesStay
<1>3. lease' \in [Jobs -> Leases]
  BY <1>2
<1>4. RowsType'
  BY <1>3 DEF RowsInv, RowsType
<1>5. ScanningIsLeased' /\ VerdictBacked' /\ NoNewScan
  BY <1>2 DEF RowsInv, ScanningIsLeased, VerdictBacked, NoNewScan
<1> QED
  BY <1>4, <1>5 DEF RowsInv

\* The scan of a file loop that found the pause request.
LEMMA RowsPaused ==
  ASSUME RowsInv, NEW j \in Jobs, NEW s \in {"scan_paused", "removed"},
         jobState' = [jobState EXCEPT ![j] = s],
         ReleaseLease(j),
         verdict' \in [Jobs -> Verdicts],
         \A k \in Jobs \ {j} : verdict'[k] = verdict[k],
         pauseRequested' \in [Jobs -> BOOLEAN],
         UNCHANGED <<backoff, failures, unscanned>>
  PROVE  RowsInv' /\ NoNewScan
<1>1. RowsType'
  <2>1. s \in JobStates
    BY Values
  <2> QED
    BY <2>1, Values DEF RowsInv, RowsType, ReleaseLease
<1>2. ScanningIsLeased' /\ NoNewScan
  BY DEF RowsInv, RowsType, ScanningIsLeased, NoNewScan, ReleaseLease
<1>3. VerdictBacked'
  BY DEF RowsInv, RowsType, VerdictBacked, ReleaseLease
<1> QED
  BY <1>1, <1>2, <1>3 DEF RowsInv

\* A state outside the verdicts and scanning, nothing else.
LEMMA RowsMarked ==
  ASSUME RowsInv, NEW j \in Jobs, NEW s \in {"tracking", "error"},
         jobState' = [jobState EXCEPT ![j] = s],
         UNCHANGED <<verdict, pauseRequested, workerId, lease, backoff, failures,
                     unscanned>>
  PROVE  RowsInv' /\ NoNewScan
<1>1. s \in JobStates
  BY Values
<1>2. RowsType'
  BY <1>1 DEF RowsInv, RowsType
<1>3. ScanningIsLeased' /\ VerdictBacked' /\ NoNewScan
  BY DEF RowsInv, RowsType, ScanningIsLeased, VerdictBacked, NoNewScan
<1> QED
  BY <1>2, <1>3 DEF RowsInv

\* A job that the management cycle or a callback processes.
LEMMA RowsProcessOne ==
  ASSUME RowsInv, NEW j \in Jobs, ProcessOneCommit(j)
  PROVE  RowsInv' /\ NoNewScan
<1>1. CASE UNCHANGED rows
  BY <1>1, RowsUnchanged
<1>2. CASE QueueJob(j)
  BY <1>2, RowsQueueJob
<1>3. CASE ~(UNCHANGED rows) /\ ~QueueJob(j)
  <2>1. PICK s \in {"tracking", "error"} :
          /\ jobState' = [jobState EXCEPT ![j] = s]
          /\ UNCHANGED <<verdict, pauseRequested, workerId, lease, backoff,
                         failures, unscanned>>
    BY <1>3 DEF ProcessOneCommit
  <2> QED
    BY <2>1, RowsMarked
<1> QED
  BY <1>1, <1>2, <1>3

\* What a thread makes of an exception.
LEMMA RowsRaise ==
  ASSUME RowsInv, NEW j \in Jobs, NEW i \in Ids, RaiseError(j, i)
  PROVE  RowsInv' /\ NoNewScan
BY RowsFailure, RowsDefer, RowsPolicy DEF RaiseError

-----------------------------------------------------------------------------
(* The steps of a thread                                                   *)

\* A thread keeps the rows in order and never puts a job into scanning.
LEMMA RowsThread ==
  ASSUME RowsInv, FileCounts, NEW j \in Jobs, NEW i \in Ids, ThreadStep(j, i)
  PROVE  RowsInv' /\ NoNewScan
<1>1. CASE Enter(j, i)
  BY <1>1, RowsUnchanged DEF Enter
<1>2. CASE Prepare(j, i)
  BY <1>2, RowsManifest, RowsInterruption, RowsRaise DEF Prepare
<1>3. CASE CheckRequests(j, i)
  <2>1. CASE HandleInterruption(j, i)
    BY <2>1, RowsInterruption
  <2>2. CASE DeferClaim(j, i, FALSE)
    BY <2>2, RowsDefer
  <2>3. CASE UNCHANGED rows
    BY <2>3, RowsUnchanged
  <2>4. CASE /\ jobState' = [jobState EXCEPT ![j] = "scan_paused"]
             /\ ReleaseLease(j)
             /\ UNCHANGED <<verdict, pauseRequested, backoff, failures, unscanned>>
    <3>1. verdict' \in [Jobs -> Verdicts] /\ pauseRequested' \in [Jobs -> BOOLEAN]
      BY <2>4 DEF RowsInv, RowsType
    <3> QED
      BY <2>4, <3>1, RowsPaused
  <2> QED
    BY <1>3, <2>1, <2>2, <2>3, <2>4 DEF CheckRequests
<1>4. CASE MarkScanning(j, i)
  <2>1. CASE UNCHANGED rows
    BY <2>1, RowsUnchanged
  <2>2. CASE ~ UNCHANGED rows
    <3>1. lease[j] \in Leases
      BY DEF RowsInv, RowsType
    <3>2. Renewed(lease[j]) \in {"live", "expired", "revived"}
      BY <3>1, LeasesStay
    <3> QED
      BY <1>4, <2>2, <3>2, RowsLease DEF MarkScanning
  <2> QED
    BY <2>1, <2>2
<1>5. CASE Recheck(j, i)
  BY <1>5, RowsManifest, RowsInterruption, RowsRaise DEF Recheck
<1>6. CASE RecordResult(j, i)
  <2>1. pc[j][i] = "scanning" => unscanned[j] > 0
    BY DEF FileCounts
  <2> QED
    BY <1>6, <2>1, RowsInterruption, RowsUnchanged, RowsClean, RowsRaise DEF RecordResult
<1>7. CASE Finish(j, i)
  <2>1. pc[j][i] = "finishing" => unscanned[j] = 0
    BY DEF FileCounts
  <2> QED
    BY <1>7, <2>1, RowsUnchanged, RowsFinish, RowsRaise DEF Finish
<1>8. CASE ReportInfected(j, i)
  BY <1>8, RowsUnchanged, RowsInfected, RowsFailure DEF ReportInfected
<1> QED
  BY <1>1, <1>2, <1>3, <1>4, <1>5, <1>6, <1>7, <1>8 DEF ThreadStep

\* A thread that runs moves on or ends, and moves no other thread; the rest
\* of the service is as it was.
LEMMA ThreadMoves ==
  ASSUME NEW j \in Jobs, NEW i \in Ids, ThreadStep(j, i)
  PROVE  /\ Running(j, i) /\ ThreadOnly
         /\ \E label \in RunningPcs \cup {"free"} : Goto(j, i, label)
         /\ UNCHANGED faults \/ Fault
<1> USE DEF RunningPcs, Running, NoFault
<1>h. ASSUME NEW b \in BOOLEAN, \/ HandleInterruption(j, i) \/ HandleFailure(j, i)
             \/ DeferClaim(j, i, b) \/ HandlePolicyFailure(j, i)
      PROVE  Goto(j, i, "free")
  BY <1>h DEF HandleInterruption, HandleFailure, DeferClaim, HandlePolicyFailure
<1>r. RaiseError(j, i) => Goto(j, i, "free") /\ Fault
  BY <1>h DEF RaiseError
<1>n. HandleInterruption(j, i) => Goto(j, i, "free") /\ UNCHANGED faults
  BY DEF HandleInterruption
<1>m. PrepareManifest(j) => UNCHANGED faults \/ Fault
  BY DEF PrepareManifest
<1>1. CASE Enter(j, i)
  BY <1>1 DEF Enter
<1>2. CASE Prepare(j, i)
  BY <1>2, <1>r, <1>n, <1>m DEF Prepare
<1>3. CASE CheckRequests(j, i)
  BY <1>3, <1>h, <1>n DEF CheckRequests
<1>4. CASE MarkScanning(j, i)
  BY <1>4 DEF MarkScanning
<1>5. CASE Recheck(j, i)
  BY <1>5, <1>r, <1>n, <1>m DEF Recheck
<1>6. CASE RecordResult(j, i)
  BY <1>6, <1>r, <1>n DEF RecordResult, RecordClean
<1>7. CASE Finish(j, i)
  BY <1>7, <1>r DEF Finish
<1>8. CASE ReportInfected(j, i)
  BY <1>8, <1>h DEF ReportInfected, RecordInfected
<1> QED
  BY <1>1, <1>2, <1>3, <1>4, <1>5, <1>6, <1>7, <1>8 DEF ThreadStep

\* What a thread leaves of its manifest where it goes on.
LEMMA ThreadFiles ==
  ASSUME RowsInv, ThreadType, NEW j \in Jobs, NEW i \in Ids, ThreadStep(j, i)
  PROVE  /\ pc'[j][i] = "scanning" => unscanned'[j] > 0
         /\ pc'[j][i] = "finishing" => unscanned'[j] = 0
         /\ \A k \in Jobs \ {j} : unscanned'[k] = unscanned[k]
<1> USE DEF RowsInv, RowsType, ThreadType, Goto, rows
<1>h. ASSUME NEW b \in BOOLEAN, \/ HandleInterruption(j, i) \/ HandleFailure(j, i)
             \/ DeferClaim(j, i, b) \/ HandlePolicyFailure(j, i)
      PROVE  pc'[j][i] = "free" /\ UNCHANGED unscanned
  BY <1>h DEF HandleInterruption, HandleFailure, DeferClaim, HandlePolicyFailure
<1>r. RaiseError(j, i) => pc'[j][i] = "free" /\ UNCHANGED unscanned
  BY <1>h DEF RaiseError
<1>m. PrepareManifest(j) => \A k \in Jobs \ {j} : unscanned'[k] = unscanned[k]
  BY DEF PrepareManifest
<1>1. CASE Enter(j, i)
  BY <1>1 DEF Enter
<1>2. CASE Prepare(j, i)
  BY <1>2, <1>r, <1>h, <1>m DEF Prepare
<1>3. CASE CheckRequests(j, i)
  <2>1. HandleInterruption(j, i) => pc'[j][i] = "free" /\ UNCHANGED unscanned
    BY <1>h
  <2>2. DeferClaim(j, i, FALSE) => pc'[j][i] = "free" /\ UNCHANGED unscanned
    BY <1>h
  <2>3. \/ HandleInterruption(j, i) \/ DeferClaim(j, i, FALSE)
        \/ Goto(j, i, "free") /\ UNCHANGED unscanned
        \/ Goto(j, i, "picked") /\ UNCHANGED unscanned
    BY <1>3 DEF CheckRequests
  <2> QED
    BY <2>1, <2>2, <2>3
<1>4. CASE MarkScanning(j, i)
  BY <1>4 DEF MarkScanning, FileLeft
<1>5. CASE Recheck(j, i)
  BY <1>5, <1>r, <1>h, <1>m DEF Recheck, NoneLeft
<1>6. CASE RecordResult(j, i)
  <2>1. Goto(j, i, "reporting") => pc'[j][i] = "reporting"
    OBVIOUS
  <2>2. RecordClean(j, i) => /\ pc'[j][i] \in {"free", "loop"}
                             /\ \A k \in Jobs \ {j} : unscanned'[k] = unscanned[k]
    BY DEF RecordClean
  <2> QED
    BY <1>6, <1>r, <1>h, <2>1, <2>2 DEF RecordResult
<1>7. CASE Finish(j, i)
  BY <1>7, <1>r DEF Finish, FinishCleanScan
<1>8. CASE ReportInfected(j, i)
  BY <1>8, <1>h DEF ReportInfected, RecordInfected
<1> QED
  BY <1>1, <1>2, <1>3, <1>4, <1>5, <1>6, <1>7, <1>8 DEF ThreadStep

\* A running thread that moves leaves the threads in order.
LEMMA PcThread ==
  ASSUME RowsInv, PcInv, NEW j \in Jobs, NEW i \in Ids, ThreadStep(j, i)
  PROVE  /\ PcInv'
         /\ \A k \in Jobs, h \in Ids : pc'[k][h] = "issued" => pc[k][h] = "issued"
         /\ \A k \in Jobs, h \in Ids : pc[k][h] = "free" => pc'[k][h] = "free"
<1>1. Running(j, i)
  BY ThreadMoves
<1>2. PICK label \in RunningPcs \cup {"free"} : Goto(j, i, label)
  BY ThreadMoves
<1>3. label \in Pcs
  BY Values
<1>4. ThreadType'
  BY <1>2, <1>3 DEF PcInv, ThreadType, Goto
<1>5. OneRunnerPerJob'
  BY <1>1, <1>2 DEF PcInv, ThreadType, Goto, OneRunnerPerJob, Running
<1>6. \A h \in Ids \ {i} : pc'[j][h] = pc[j][h] /\ pc[j][h] \notin RunningPcs
  BY <1>1, <1>2 DEF PcInv, ThreadType, Goto, OneRunnerPerJob, Running
<1>7. \A k \in Jobs \ {j}, h \in Ids : pc'[k][h] = pc[k][h]
  BY <1>2 DEF PcInv, ThreadType, Goto
<1>8. FileCounts'
  <2>1. ThreadType
    BY DEF PcInv
  <2> QED
    BY <1>6, <1>7, <2>1, ThreadFiles DEF PcInv, FileCounts, RunningPcs
<1>9. label # "issued" /\ pc[j][i] # "free"
  BY <1>1 DEF RunningPcs, Running
<1> QED
  BY <1>2, <1>4, <1>5, <1>8, <1>9 DEF PcInv, ThreadType, Goto

-----------------------------------------------------------------------------
(* What a step leaves alone                                                *)

\* A step that leaves the threads alone.
LEMMA KeepPc ==
  ASSUME PcInv, UNCHANGED <<pc, unscanned>>
  PROVE  PcInv'
BY DEF PcInv, ThreadType, OneRunnerPerJob, Running, FileCounts

\* A step that leaves threads and loop alone and puts no job into scanning.
LEMMA KeepPhases ==
  ASSUME PhaseInv, UNCHANGED <<pc, loopPc, managed>>, RestType, NoNewScan
  PROVE  PhaseInv'
BY NullIsNoId DEF PhaseInv, LoopPhases, ManagementMissesScans, DownIsQuiet,
  RestType, LoopType, NoNewScan

\* A step that ends threads, or none.
LEMMA EndPc ==
  ASSUME PcInv, UNCHANGED unscanned, pc' \in [Jobs -> [Ids -> Pcs]],
         \A j \in Jobs, i \in Ids :
           pc'[j][i] = pc[j][i] \/ pc'[j][i] \in {"free", "issued"}
  PROVE  PcInv'
BY DEF PcInv, ThreadType, OneRunnerPerJob, Running, RunningPcs, FileCounts

\* A step spends at most one fault and one request.
LEMMA KeepBudget ==
  ASSUME BudgetType, UNCHANGED faults \/ Fault, UNCHANGED ops \/ Op
  PROVE  BudgetType'
BY ConstantsAssumption DEF ConstantsAssumption, BudgetType, Fault, Op

\* A step of a handler or of time leaves the loop and the threads alone.
LEMMA KeepLoop ==
  ASSUME RestType, UNCHANGED loop, UNCHANGED stop
  PROVE  LoopType'
BY DEF RestType, LoopType, loop

\* A step that leaves the settings of the scanner alone.
LEMMA KeepControl ==
  ASSUME RestType, UNCHANGED control
  PROVE  ControlType'
BY DEF RestType, ControlType, control

\* A step that leaves the handlers in flight alone.
LEMMA KeepApi ==
  ASSUME RestType, UNCHANGED api
  PROVE  ApiType'
BY DEF RestType, ApiType, api, NoOp

-----------------------------------------------------------------------------
(* The loop                                                                *)

\* The places claim_jobs has to give are within the limits.
LEMMA FreeType ==
  ASSUME NEW n \in Nat, NEW busy \in Nat
  PROVE  Free(n, busy) \in 0 .. n
BY DEF Free

\* The boost that ends with an empty queue.
LEMMA ResetBoostType ==
  ASSUME ControlType, NEW seen \in BOOLEAN, NEW b \in BOOLEAN, ResetBoost(seen, b)
  PROVE  ControlType'
<1>1. CASE seen /\ b
  <2>1. slots' = DefaultSlots /\ boost' \in BOOLEAN /\ ~boost' /\ maintenance' = maintenance
    BY <1>1, Zenon DEF ResetBoost
  <2> QED
    BY <2>1, ConstantsAssumption DEF ConstantsAssumption, ControlType
<1>2. CASE ~(seen /\ b)
  <2>1. slots' = slots /\ boost' \in BOOLEAN /\ (boost' <=> boost) /\ maintenance' = maintenance
    BY <1>2, Zenon DEF ResetBoost, ControlType
  <2> QED
    BY <2>1 DEF ControlType
<1> QED
  BY <1>1, <1>2

\* The limits as numbers.
LEMMA LimitsAreNumbers ==
  /\ HardMaxSlots \in Nat /\ MaxLarge \in Nat /\ MaxLarge <= HardMaxSlots
  /\ DefaultSlots \in 1 .. HardMaxSlots
BY ConstantsAssumption DEF ConstantsAssumption

\* What CountScans leaves for the claims.
CountsAre(n) ==
  /\ ResetBoost(limit > DefaultSlots, QueueIsEmpty)
  /\ limit' = n /\ n = IF QueueIsEmpty /\ limit > DefaultSlots THEN DefaultSlots ELSE limit
  /\ avail' = Free(n, Cardinality(Busy))
  /\ availLarge' = Free(MaxLarge, Cardinality(Busy \cap LargeJobs))
  /\ todo' = {j \in Jobs : Claimable(j)}
  /\ loopPc' = "claiming" /\ UNCHANGED <<managed, stop>>

\* The scans that are counted are finitely many.
LEMMA BusyIsFinite ==
  ASSUME LoopType
  PROVE  /\ Busy \in SUBSET Jobs
         /\ IsFiniteSet(Busy) /\ IsFiniteSet(Busy \cap LargeJobs)
         /\ Cardinality(Busy) \in Nat /\ Cardinality(Busy \cap LargeJobs) \in Nat
<1>1. Busy \in SUBSET Jobs
  BY DEF Busy, Active, LoopType
<1>2. IsFiniteSet(Busy) /\ IsFiniteSet(Busy \cap LargeJobs)
  BY <1>1, ConstantsAssumption, FS_Subset DEF ConstantsAssumption
<1> QED
  BY <1>1, <1>2, FS_CardinalityType

\* The counts of claim_jobs are within the limits.
LEMMA CountsType ==
  ASSUME ControlType, LoopType, NEW n, CountsAre(n)
  PROVE  ControlType' /\ LoopType'
<1>1. QueueIsEmpty \in BOOLEAN /\ (limit > DefaultSlots) \in BOOLEAN
  BY DEF QueueIsEmpty
<1>2. ControlType'
  BY <1>1, ResetBoostType DEF CountsAre
<1>3. n \in 0 .. HardMaxSlots
  BY LimitsAreNumbers DEF CountsAre, LoopType
<1>4. avail' \in 0 .. HardMaxSlots /\ availLarge' \in 0 .. MaxLarge
  <2>1. avail' = Free(n, Cardinality(Busy)) /\ availLarge' = Free(MaxLarge, Cardinality(Busy \cap LargeJobs))
    BY DEF CountsAre
  <2>2. Cardinality(Busy) \in Nat /\ Cardinality(Busy \cap LargeJobs) \in Nat
    BY BusyIsFinite
  <2>3. HardMaxSlots \in Nat /\ MaxLarge \in Nat
    BY LimitsAreNumbers
  <2>4. n \in Nat /\ n <= HardMaxSlots
    BY <1>3, <2>3
  <2>5. avail' \in 0 .. n
    BY <2>1, <2>2, <2>4, FreeType
  <2>6. availLarge' \in 0 .. MaxLarge
    BY <2>1, <2>2, <2>3, FreeType
  <2> QED
    BY <2>3, <2>4, <2>5, <2>6
<1> QED
  BY <1>2, <1>3, <1>4 DEF CountsAre, LoopType, LoopPcs

\* Every step of worker_loop keeps the invariant.
LEMMA LoopStepInv ==
  ASSUME Inv, LoopStep
  PROVE  Inv'
<1> USE DEF Inv
<1>1. CASE Startup
  <2>1. RowsInv' /\ NoNewScan
    BY <1>1, RowsRecover, RowsUnchanged DEF Startup
  <2>2. PcInv'
    BY <1>1, KeepPc DEF Startup, RecoverInterrupted, rows
  <2>3. PhaseInv'
    BY <1>1, <2>1, NullIsNoId DEF Startup, PhaseInv, LoopPhases, ManagementMissesScans,
      DownIsQuiet, RestType, LoopType
  <2>4. LoopType'
    BY <1>1 DEF Startup, RestType, LoopType, LoopPcs
  <2>5. RestType'
    BY <1>1, <2>4, KeepControl, KeepApi, KeepBudget DEF Startup, RestType, NoFault
  <2> QED
    BY <2>1, <2>2, <2>3, <2>5
<1>2. CASE BeginCycle
  <2>1. RowsInv' /\ NoNewScan
    BY <1>2, RowsUnchanged DEF BeginCycle
  <2>2. PcInv'
    BY <1>2, KeepPc DEF BeginCycle, rows
  <2>3. PhaseInv'
    BY <1>2, NullIsNoId DEF BeginCycle, PhaseInv, LoopPhases, ManagementMissesScans, DownIsQuiet
  <2>4. LoopType'
    BY <1>2 DEF BeginCycle, RestType, LoopType, LoopPcs
  <2>5. RestType'
    BY <1>2, <2>4, KeepControl, KeepApi, KeepBudget DEF BeginCycle, RestType
  <2> QED
    BY <2>1, <2>2, <2>3, <2>5
<1>3. CASE \E j \in Jobs : ManageRead(j)
  <2> PICK j \in Jobs : ManageRead(j)
    BY <1>3
  <2>1. RowsInv'
    BY RowsUnchanged DEF ManageRead
  <2>2. PcInv'
    BY KeepPc DEF ManageRead, rows
  <2>3. PhaseInv'
    BY NullIsNoId DEF ManageRead, Managed, PhaseInv, LoopPhases, ManagementMissesScans,
      DownIsQuiet, rows
  <2>4. LoopType'
    BY DEF ManageRead, RestType, LoopType
  <2>5. RestType'
    BY <2>4, KeepControl, KeepApi, KeepBudget DEF ManageRead, RestType
  <2> QED
    BY <2>1, <2>2, <2>3, <2>5
<1>4. CASE ManageCommit
  <2>0. managed \in Jobs
    BY <1>4 DEF ManageCommit, RestType, LoopType
  <2>1. RowsInv'
    BY <1>4, <2>0, RowsProcessOne DEF ManageCommit
  <2>a. UNCHANGED unscanned /\ (UNCHANGED faults \/ Fault)
    BY <1>4 DEF ManageCommit, ProcessOneCommit, QueueJob, rows, NoFault
  <2>2. PcInv'
    BY <1>4, <2>a, KeepPc DEF ManageCommit
  <2>3. PhaseInv'
    BY <1>4 DEF ManageCommit, PhaseInv, LoopPhases, ManagementMissesScans, DownIsQuiet
  <2>4. LoopType'
    BY <1>4 DEF ManageCommit, RestType, LoopType
  <2>5. RestType'
    BY <1>4, <2>4, <2>a, KeepControl, KeepApi, KeepBudget DEF ManageCommit, RestType
  <2> QED
    BY <2>1, <2>2, <2>3, <2>5
<1>5. CASE RecoverScans
  <2>1. RowsInv' /\ NoNewScan
    BY <1>5, RowsRecover DEF RecoverScans
  <2>2. PcInv'
    BY <1>5, KeepPc DEF RecoverScans, RecoverInterrupted
  <2>3. PhaseInv'
    BY <1>5 DEF RecoverScans, PhaseInv, LoopPhases, ManagementMissesScans, DownIsQuiet
  <2>4. LoopType'
    BY <1>5 DEF RecoverScans, RestType, LoopType, LoopPcs
  <2>5. RestType'
    BY <1>5, <2>4, KeepControl, KeepApi, KeepBudget DEF RecoverScans, RestType
  <2> QED
    BY <2>1, <2>2, <2>3, <2>5
<1>12. CASE ReadControl
  <2>1. RowsInv' /\ NoNewScan
    BY <1>12, RowsUnchanged DEF ReadControl
  <2>2. PcInv'
    BY <1>12, KeepPc DEF ReadControl, rows
  <2>3. PhaseInv'
    BY <1>12 DEF ReadControl, PhaseInv, LoopPhases, ManagementMissesScans, DownIsQuiet
  <2>4. LoopType'
    <3>1. slots \in 0 .. HardMaxSlots
      BY LimitsAreNumbers DEF RestType, ControlType
    <3> QED
      BY <1>12, <3>1 DEF ReadControl, RestType, LoopType, LoopPcs, Active
  <2>5. RestType'
    BY <1>12, <2>4, KeepControl, KeepApi, KeepBudget DEF ReadControl, RestType
  <2> QED
    BY <2>1, <2>2, <2>3, <2>5
<1>13. CASE CountScans
  <2>1. RowsInv' /\ NoNewScan
    BY <1>13, RowsCounted, RowsUnchanged DEF CountScans, rows
  <2>2. PcInv'
    BY <1>13, KeepPc DEF CountScans
  <2>3. PhaseInv'
    BY <1>13 DEF CountScans, PhaseInv, LoopPhases, ManagementMissesScans, DownIsQuiet
  <2>4. ControlType' /\ LoopType'
    <3>1. CASE UNCHANGED <<control, avail, availLarge>> /\ loopPc' = "idle" /\ todo' = {} /\ limit' = 0
      BY <1>13, <3>1, LimitsAreNumbers, KeepControl
        DEF CountScans, RestType, LoopType, LoopPcs
    <3>2. CASE CountsAre(limit')
      BY <1>13, <3>2, CountsType DEF CountScans, RestType
    <3> QED
      BY <1>13, <3>1, <3>2 DEF CountScans, CountsAre
  <2>5. RestType'
    BY <1>13, <2>4, KeepApi, KeepBudget DEF CountScans, RestType, NoFault
  <2> QED
    BY <2>1, <2>2, <2>3, <2>5
<1>6. CASE \E j \in Jobs : ClaimJob(j)
  <2> PICK j \in Jobs : ClaimJob(j)
    BY <1>6
  <2>1. CASE UNCHANGED <<rows, pc, avail, availLarge>>
    <3>1. RowsInv' /\ NoNewScan
      BY <2>1, RowsUnchanged
    <3>2. PcInv'
      BY <2>1, KeepPc DEF rows
    <3>3. PhaseInv'
      BY <2>1, <3>1, KeepPhases DEF ClaimJob
    <3>4. LoopType'
      BY <2>1 DEF ClaimJob, RestType, LoopType
    <3>5. RestType'
      BY <3>4, KeepControl, KeepApi, KeepBudget DEF ClaimJob, RestType
    <3> QED
      BY <3>1, <3>2, <3>3, <3>5
  <2>2. CASE ~ UNCHANGED <<rows, pc, avail, availLarge>>
    <3>0. PICK i \in FreshIds(j) :
            /\ workerId' = [workerId EXCEPT ![j] = i]
            /\ pc' = [pc EXCEPT ![j][i] = "issued"]
            /\ jobState' = [jobState EXCEPT ![j] = "scanning"]
            /\ lease' = [lease EXCEPT ![j] = "live"]
            /\ backoff' = [backoff EXCEPT ![j] = FALSE]
            /\ UNCHANGED <<verdict, pauseRequested, failures, unscanned>>
            /\ j \in LargeJobs => availLarge > 0
            /\ avail' = avail - 1
            /\ availLarge' = IF j \in LargeJobs THEN availLarge - 1 ELSE availLarge
      BY <2>2 DEF ClaimJob
    <3>i. i \in Ids /\ pc[j][i] = "free"
      BY DEF FreshIds
    <3>1. RowsInv'
      <4>1. RowsType'
        BY <3>0, <3>i, Values DEF RowsInv, RowsType
      <4>2. ScanningIsLeased'
        BY <3>0, <3>i, NullIsNoId DEF RowsInv, RowsType, ScanningIsLeased
      <4>3. VerdictBacked'
        BY <3>0 DEF RowsInv, RowsType, VerdictBacked
      <4> QED
        BY <4>1, <4>2, <4>3 DEF RowsInv
    <3>2. PcInv'
      <4>1. pc' \in [Jobs -> [Ids -> Pcs]]
        BY <3>0, <3>i, Values DEF PcInv, ThreadType
      <4>2. \A k \in Jobs, h \in Ids : pc'[k][h] = pc[k][h] \/ pc'[k][h] = "issued"
        BY <3>0, <3>i DEF PcInv, ThreadType
      <4> QED
        BY <3>0, <4>1, <4>2, EndPc
    <3>3. PhaseInv'
      BY DEF ClaimJob, PhaseInv, LoopPhases, ManagementMissesScans, DownIsQuiet
    <3>4. LoopType'
      BY <3>0, LimitsAreNumbers DEF ClaimJob, RestType, LoopType
    <3>5. RestType'
      BY <3>4, KeepControl, KeepApi, KeepBudget DEF ClaimJob, RestType
    <3> QED
      BY <3>1, <3>2, <3>3, <3>5
  <2> QED
    BY <2>1, <2>2
<1>7. CASE EndClaims
  <2>1. RowsInv' /\ NoNewScan
    BY <1>7, RowsUnchanged DEF EndClaims
  <2>2. PcInv'
    BY <1>7, KeepPc DEF EndClaims, rows
  <2>3. PhaseInv'
    BY <1>7 DEF EndClaims, PhaseInv, LoopPhases, ManagementMissesScans, DownIsQuiet
  <2>4. LoopType' /\ ControlType'
    <3>1. QueueIsEmpty \in BOOLEAN
      BY DEF QueueIsEmpty
    <3>2. BoostSeen \in BOOLEAN
      <4>1. boost \in BOOLEAN /\ (limit > DefaultSlots) \in BOOLEAN
        BY DEF RestType, ControlType
      <4> QED
        BY <4>1, Zenon DEF BoostSeen
    <3>3. ControlType'
      BY <1>7, <3>1, <3>2, ResetBoostType, KeepControl DEF EndClaims, RestType
    <3>4. LoopType'
      BY <1>7, LimitsAreNumbers DEF EndClaims, LoopForgets, RestType, LoopType, LoopPcs
    <3> QED
      BY <3>3, <3>4
  <2>5. RestType'
    BY <1>7, <2>4, KeepApi, KeepBudget DEF EndClaims, RestType
  <2> QED
    BY <2>1, <2>2, <2>3, <2>5
<1>8. CASE SchedulerCycleFails
  <2>1. RowsInv' /\ NoNewScan
    BY <1>8, RowsUnchanged DEF SchedulerCycleFails
  <2>2. PcInv'
    <3>1. /\ pc' \in [Jobs -> [Ids -> Pcs]]
          /\ \A j \in Jobs, i \in Ids : pc'[j][i] = pc[j][i] \/ pc'[j][i] = "free"
      BY <1>8, Values DEF SchedulerCycleFails, PcInv, ThreadType
    <3> QED
      BY <1>8, <3>1, EndPc DEF SchedulerCycleFails, rows
  <2>3. PhaseInv'
    BY <1>8 DEF SchedulerCycleFails, PhaseInv, LoopPhases, ManagementMissesScans, DownIsQuiet
  <2>4. LoopType'
    BY <1>8, LimitsAreNumbers DEF SchedulerCycleFails, LoopForgets, RestType, LoopType, LoopPcs
  <2>5. RestType'
    BY <1>8, <2>4, KeepControl, KeepApi, KeepBudget DEF SchedulerCycleFails, RestType
  <2> QED
    BY <2>1, <2>2, <2>3, <2>5
<1>9. CASE \E j \in Jobs, i \in Ids : SpawnClaim(j, i)
  <2> PICK j \in Jobs, i \in Ids : SpawnClaim(j, i)
    BY <1>9
  <2>1. RowsInv' /\ NoNewScan
    BY RowsUnchanged DEF SpawnClaim
  <2>2. PcInv'
    <3>1. CASE HasRunner(j)
      <4>1. /\ pc' \in [Jobs -> [Ids -> Pcs]]
            /\ \A k \in Jobs, h \in Ids : pc'[k][h] = pc[k][h] \/ pc'[k][h] = "free"
        BY <3>1, Values DEF SpawnClaim, PcInv, ThreadType
      <4> QED
        BY <4>1, EndPc DEF SpawnClaim, rows
    <3>2. CASE ~HasRunner(j)
      <4>1. pc' = [pc EXCEPT ![j][i] = "spawned"]
        BY <3>2 DEF SpawnClaim
      <4>2. "spawned" \in Pcs
        BY DEF Pcs, RunningPcs
      <4>3. ThreadType'
        BY <4>1, <4>2 DEF PcInv, ThreadType
      <4>4. OneRunnerPerJob'
        BY <3>2, <4>1 DEF PcInv, ThreadType, OneRunnerPerJob, HasRunner, Running
      <4>5. FileCounts'
        BY <4>1 DEF SpawnClaim, PcInv, ThreadType, FileCounts, rows
      <4> QED
        BY <4>3, <4>4, <4>5 DEF PcInv
    <3> QED
      BY <3>1, <3>2
  <2>3. PhaseInv'
    BY DEF SpawnClaim, PhaseInv, LoopPhases, ManagementMissesScans, DownIsQuiet,
      PcInv, ThreadType, loop, rows
  <2>4. LoopType'
    BY KeepLoop DEF SpawnClaim
  <2>5. RestType'
    BY <2>4, KeepControl, KeepApi, KeepBudget DEF SpawnClaim, RestType
  <2> QED
    BY <2>1, <2>2, <2>3, <2>5
<1>10. CASE EndCycle
  <2>1. RowsInv' /\ NoNewScan
    BY <1>10, RowsUnchanged DEF EndCycle
  <2>2. PcInv'
    BY <1>10, KeepPc DEF EndCycle, rows
  <2>3. PhaseInv'
    BY <1>10 DEF EndCycle, PhaseInv, LoopPhases, ManagementMissesScans, DownIsQuiet
  <2>4. LoopType'
    BY <1>10 DEF EndCycle, RestType, LoopType, LoopPcs
  <2>5. RestType'
    BY <1>10, <2>4, KeepControl, KeepApi, KeepBudget DEF EndCycle, RestType
  <2> QED
    BY <2>1, <2>2, <2>3, <2>5
<1>11. CASE Drained
  <2>1. RowsInv' /\ NoNewScan
    BY <1>11, RowsUnchanged DEF Drained
  <2>2. PcInv'
    BY <1>11, KeepPc DEF Drained, rows
  <2>3. PhaseInv'
    <3>1. \A j \in Jobs, i \in Ids : pc[j][i] = "free"
      BY <1>11 DEF Drained, HasRunner, Running, PhaseInv, LoopPhases, PcInv, ThreadType, Pcs
    <3> QED
      BY <1>11, <3>1 DEF Drained, PhaseInv, LoopPhases, ManagementMissesScans, DownIsQuiet
  <2>4. LoopType'
    BY <1>11 DEF Drained, RestType, LoopType, LoopPcs
  <2>5. RestType'
    BY <1>11, <2>4, KeepControl, KeepApi, KeepBudget DEF Drained, RestType
  <2> QED
    BY <2>1, <2>2, <2>3, <2>5
<1> QED
  BY <1>1, <1>2, <1>3, <1>4, <1>5, <1>6, <1>7, <1>8, <1>9, <1>10, <1>11, <1>12, <1>13
    DEF LoopStep

-----------------------------------------------------------------------------
(* Threads, requests and the environment                                   *)

\* Every step of run_claim keeps the invariant.
LEMMA ThreadStepInv ==
  ASSUME Inv, NEW j \in Jobs, NEW i \in Ids, ThreadStep(j, i)
  PROVE  Inv'
<1> USE DEF Inv
<1>1. RowsInv' /\ NoNewScan
  BY RowsThread DEF PcInv
<1>2. ThreadOnly /\ (UNCHANGED faults \/ Fault)
  BY ThreadMoves
<1>3. /\ PcInv'
      /\ \A k \in Jobs, h \in Ids : pc'[k][h] = "issued" => pc[k][h] = "issued"
      /\ \A k \in Jobs, h \in Ids : pc[k][h] = "free" => pc'[k][h] = "free"
  BY PcThread
<1>4. PhaseInv'
  BY <1>1, <1>2, <1>3, NullIsNoId DEF ThreadOnly, loop, PhaseInv, LoopPhases,
    ManagementMissesScans, DownIsQuiet, NoNewScan, RestType, LoopType
<1>5. RestType'
  BY <1>2, KeepLoop, KeepControl, KeepApi, KeepBudget DEF ThreadOnly, RestType
<1> QED
  BY <1>1, <1>3, <1>4, <1>5

\* A step that writes rows through a lemma above, and neither moves a thread
\* nor counts a file nor starts a scan.
LEMMA OutsideInv ==
  ASSUME Inv, RowsInv', NoNewScan, UNCHANGED <<pc, unscanned>>,
         UNCHANGED loop, ControlType', ApiType', stop' \in BOOLEAN,
         UNCHANGED faults \/ Fault, UNCHANGED ops \/ Op
  PROVE  Inv'
<1>1. PcInv'
  BY KeepPc DEF Inv
<1>2. PhaseInv'
  BY KeepPhases DEF Inv, loop
<1>3. LoopType'
  BY DEF Inv, RestType, LoopType, loop
<1>4. RestType'
  BY <1>3, KeepBudget DEF Inv, RestType
<1> QED
  BY <1>1, <1>2, <1>4 DEF Inv

\* Every request, read or committed, keeps the invariant.
LEMMA RequestsInv ==
  ASSUME Inv, Requests
  PROVE  Inv'
<1>t. stop \in BOOLEAN /\ ControlType /\ ApiType /\ RowsInv
  BY DEF Inv, RestType, LoopType
<1>1. ASSUME NEW j \in Jobs, ReadForPause(j) \/ ReadForResume(j)
      PROVE  Inv'
  <2>1. RowsInv' /\ NoNewScan
    BY <1>1, <1>t, RowsUnchanged DEF ReadForPause, ReadForResume
  <2>2. ApiType'
    BY <1>1, <1>t DEF ReadForPause, ReadForResume, ApiType, NoOp, QueueStates
  <2> QED
    BY <1>1, <1>t, <2>1, <2>2, OutsideInv, KeepControl
      DEF ReadForPause, ReadForResume, RequestOnly, rows, Inv
<1>2. CASE CommitRequest
  <2>1. op.job \in Jobs
    BY <1>2, <1>t DEF CommitRequest, ApiType
  <2>2. RowsInv' /\ NoNewScan
    BY <1>2, <1>t, <2>1, RowsUnchanged, RowsCommitPause, RowsCommitResume DEF CommitRequest
  <2>3. UNCHANGED unscanned
    BY <1>2 DEF CommitRequest, CommitPause, CommitResume, rows
  <2>4. ApiType'
    BY <1>2, <1>t DEF CommitRequest, ApiType, NoOp
  <2> QED
    BY <1>2, <1>t, <2>2, <2>3, <2>4, OutsideInv, KeepControl DEF CommitRequest, RequestOnly, Inv
<1>3. ASSUME NEW j \in Jobs, DeleteJob(j)
      PROVE  Inv'
  <2>1. RowsInv' /\ NoNewScan
    <3>1. /\ verdict' \in [Jobs -> Verdicts]
          /\ \A k \in Jobs \ {j} : verdict'[k] = verdict[k]
          /\ pauseRequested' \in [Jobs -> BOOLEAN]
      BY <1>3, <1>t, Values DEF DeleteJob, RowsInv, RowsType
    <3> QED
      BY <1>3, <1>t, <3>1, RowsPaused DEF DeleteJob
  <2> QED
    BY <1>3, <1>t, <2>1, OutsideInv, KeepControl, KeepApi DEF DeleteJob, RequestOnly, Inv
<1>4. ASSUME NEW j \in Jobs, CallbackRead(j)
      PROVE  Inv'
  <2>1. RowsInv' /\ NoNewScan
    BY <1>4, <1>t, RowsUnchanged DEF CallbackRead
  <2>2. ApiType'
    BY <1>4, <1>t DEF CallbackRead, ApiType, NoOp
  <2> QED
    BY <1>4, <1>t, <2>1, <2>2, OutsideInv, KeepControl DEF CallbackRead, RequestOnly, rows, Inv
<1>5. CASE CallbackCommit
  <2>0. callback \in Jobs
    BY <1>5, <1>t DEF CallbackCommit, ApiType
  <2>1. RowsInv' /\ NoNewScan
    BY <1>5, <1>t, <2>0, RowsProcessOne DEF CallbackCommit
  <2>2. UNCHANGED unscanned /\ (UNCHANGED faults \/ Fault)
    BY <1>5 DEF CallbackCommit, ProcessOneCommit, QueueJob, rows, NoFault
  <2>3. ApiType'
    BY <1>5, <1>t DEF CallbackCommit, ApiType, NoOp
  <2> QED
    BY <1>5, <1>t, <2>1, <2>2, <2>3, OutsideInv, KeepControl DEF CallbackCommit, Inv
<1>6. ASSUME NEW n \in 1 .. HardMaxSlots, SetSlots(n)
      PROVE  Inv'
  <2>1. RowsInv' /\ NoNewScan
    BY <1>6, <1>t, RowsUnchanged DEF SetSlots
  <2>2. ControlType'
    <3>1. slots' = n /\ boost' = (n > DefaultSlots) /\ maintenance' = maintenance
      BY <1>6 DEF SetSlots
    <3>2. slots' \in 1 .. HardMaxSlots /\ maintenance' \in BOOLEAN
      BY <1>6, <1>t, <3>1 DEF ControlType
    <3>3. boost' \in BOOLEAN /\ (boost' <=> slots' > DefaultSlots)
      <4>1. boost' = (slots' > DefaultSlots)
        BY <3>1, Zenon
      <4>2. (slots' > DefaultSlots) \in BOOLEAN
        BY <3>2, ConstantsAssumption DEF ConstantsAssumption
      <4> QED
        BY <4>1, <4>2, Zenon
    <3> QED
      BY <3>2, <3>3, Zenon DEF ControlType
  <2> QED
    BY <1>6, <1>t, <2>1, <2>2, OutsideInv, KeepApi DEF SetSlots, RequestOnly, rows, Inv
<1>7. ASSUME NEW b \in BOOLEAN, SetMaintenance(b)
      PROVE  Inv'
  <2>1. RowsInv' /\ NoNewScan
    BY <1>7, <1>t, RowsUnchanged DEF SetMaintenance
  <2>2. ControlType'
    BY <1>7, <1>t DEF SetMaintenance, ControlType
  <2> QED
    BY <1>7, <1>t, <2>1, <2>2, OutsideInv, KeepApi DEF SetMaintenance, RequestOnly, rows, Inv
<1> QED
  BY <1>1, <1>2, <1>3, <1>4, <1>5, <1>6, <1>7 DEF Requests

\* Init establishes the invariant.
LEMMA InitInv ==
  ASSUME Init
  PROVE  Inv
<1> USE ConstantsAssumption DEF ConstantsAssumption, Init
<1>1. RowsInv
  <2>1. jobState \in [Jobs -> JobStates]
    BY Values
  <2>2. verdict \in [Jobs -> Verdicts] /\ lease \in [Jobs -> Leases]
    BY Values
  <2>3. RowsType
    BY <2>1, <2>2 DEF RowsType
  <2>4. ScanningIsLeased /\ VerdictBacked
    BY DEF ScanningIsLeased, VerdictBacked
  <2> QED
    BY <2>3, <2>4 DEF RowsInv
<1>2. PcInv
  <2>1. ThreadType
    BY Values DEF ThreadType
  <2>2. OneRunnerPerJob /\ FileCounts
    BY DEF OneRunnerPerJob, Running, RunningPcs, FileCounts
  <2> QED
    BY <2>1, <2>2 DEF PcInv
<1>3. PhaseInv
  BY DEF PhaseInv, LoopPhases, ManagementMissesScans, DownIsQuiet
<1>4. ControlType
  <2>1. slots \in 1 .. HardMaxSlots /\ ~(slots > DefaultSlots)
    OBVIOUS
  <2>2. boost \in BOOLEAN /\ ~boost /\ maintenance \in BOOLEAN
    BY Zenon
  <2> QED
    BY <2>1, <2>2, Zenon DEF ControlType
<1>a. LoopType
  <2>1. loopPc \in LoopPcs /\ stop \in BOOLEAN
    BY DEF LoopPcs
  <2>2. /\ avail \in 0 .. HardMaxSlots /\ availLarge \in 0 .. MaxLarge
        /\ limit \in 0 .. HardMaxSlots
    BY LimitsAreNumbers
  <2>3. todo \in SUBSET Jobs /\ managed \in Jobs \cup {None}
    OBVIOUS
  <2> QED
    BY <2>1, <2>2, <2>3 DEF LoopType
<1>5. ApiType /\ BudgetType
  BY DEF ApiType, BudgetType
<1> QED
  BY <1>1, <1>2, <1>3, <1>4, <1>a, <1>5 DEF Inv, RestType

\* Every step of the service and its environment keeps the invariant.
LEMMA NextInv ==
  ASSUME Inv, [Next]_vars
  PROVE  Inv'
<1>t. stop \in BOOLEAN /\ ControlType /\ ApiType /\ RowsInv
  BY DEF Inv, RestType, LoopType
<1>1. CASE LoopStep
  BY <1>1, LoopStepInv
<1>2. ASSUME NEW j \in Jobs, NEW i \in Ids, ThreadStep(j, i)
      PROVE  Inv'
  BY <1>2, ThreadStepInv
<1>3. ASSUME NEW j \in Jobs, NEW i \in Ids, Heartbeat(j, i)
      PROVE  Inv'
  <2>1. RowsInv' /\ NoNewScan
    BY <1>3, <1>t, RowsLease DEF Heartbeat
  <2> QED
    BY <1>3, <1>t, <2>1, OutsideInv, KeepControl, KeepApi DEF Heartbeat, Inv
<1>4. CASE Requests
  BY <1>4, RequestsInv
<1>5. ASSUME NEW j \in Jobs, BackoffElapses(j)
      PROVE  Inv'
  <2>1. RowsInv' /\ NoNewScan
    BY <1>5, <1>t DEF BackoffElapses, RowsInv, RowsType, ScanningIsLeased, VerdictBacked, NoNewScan
  <2> QED
    BY <1>5, <1>t, <2>1, OutsideInv, KeepControl, KeepApi DEF BackoffElapses, Inv
<1>6. ASSUME NEW j \in Jobs, LeaseExpires(j)
      PROVE  Inv'
  <2>1. RowsInv' /\ NoNewScan
    BY <1>6, <1>t, RowsLease DEF LeaseExpires
  <2> QED
    BY <1>6, <1>t, <2>1, OutsideInv, KeepControl, KeepApi DEF LeaseExpires, NoFault, Inv
<1>7. CASE RequestStop
  <2>1. RowsInv' /\ NoNewScan
    BY <1>7, <1>t, RowsUnchanged DEF RequestStop
  <2> QED
    BY <1>7, <1>t, <2>1, OutsideInv, KeepControl, KeepApi DEF RequestStop, rows, Inv
<1>8. CASE Crash
  <2>1. RowsInv'
    BY <1>8, <1>t, RowsUnchanged DEF Crash
  <2>2. PcInv'
    <3>1. /\ pc' \in [Jobs -> [Ids -> Pcs]]
          /\ \A j \in Jobs, i \in Ids : pc'[j][i] = "free"
      BY <1>8, Values DEF Crash
    <3> QED
      BY <1>8, <3>1, EndPc DEF Crash, rows, Inv
  <2>3. PhaseInv'
    BY <1>8 DEF Crash, PhaseInv, LoopPhases, ManagementMissesScans, DownIsQuiet
  <2>a. /\ loopPc' = "down" /\ todo' = {} /\ avail' = 0 /\ availLarge' = 0
        /\ managed' = None /\ stop' = FALSE /\ limit' = 0
    BY <1>8 DEF Crash, LoopForgets
  <2>4. LoopType'
    <3>1. loopPc' \in LoopPcs /\ stop' \in BOOLEAN
      BY <2>a DEF LoopPcs
    <3>2. /\ avail' \in 0 .. HardMaxSlots /\ availLarge' \in 0 .. MaxLarge
          /\ limit' \in 0 .. HardMaxSlots
      BY <2>a, LimitsAreNumbers
    <3>3. todo' \in SUBSET Jobs /\ managed' \in Jobs \cup {None}
      BY <2>a
    <3> QED
      BY <3>1, <3>2, <3>3 DEF LoopType
  <2>5. ApiType' /\ ControlType'
    BY <1>8, KeepControl DEF Crash, ApiType, Inv, NoOp
  <2>6. RestType'
    BY <1>8, <2>4, <2>5, KeepBudget DEF Crash, RestType, Inv
  <2> QED
    BY <2>1, <2>2, <2>3, <2>6 DEF Inv
<1>9. CASE Restart
  <2>1. RowsInv'
    BY <1>9, <1>t, RowsUnchanged DEF Restart
  <2>2. PcInv'
    BY <1>9, KeepPc DEF Restart, rows, Inv
  <2>3. PhaseInv'
    BY <1>9 DEF Restart, Inv, PhaseInv, LoopPhases, ManagementMissesScans, DownIsQuiet
  <2>4. LoopType'
    BY <1>9 DEF Restart, Inv, RestType, LoopType, LoopPcs
  <2>5. RestType'
    BY <1>9, <2>4, KeepControl, KeepApi, KeepBudget DEF Restart, RestType, Inv
  <2> QED
    BY <2>1, <2>2, <2>3, <2>5 DEF Inv
<1>10. CASE UNCHANGED vars
  <2>1. RowsInv' /\ NoNewScan
    BY <1>10, <1>t, RowsUnchanged DEF vars
  <2> QED
    BY <1>10, <1>t, <2>1, OutsideInv, KeepControl, KeepApi DEF vars, rows, Inv
<1> QED
  BY <1>1, <1>2, <1>3, <1>4, <1>5, <1>6, <1>7, <1>8, <1>9, <1>10 DEF Next

-----------------------------------------------------------------------------
(* Theorems                                                                *)

\* The invariant holds of every behaviour of the service.
THEOREM Invariance == Spec => []Inv
<1>1. Init => Inv
  BY InitInv
<1>2. Inv /\ [Next]_vars => Inv'
  BY NextInv
<1> QED
  BY <1>1, <1>2, PTL DEF Spec

\* The rows, the loop, the threads and the handlers keep their types.
THEOREM TypeCorrect == Spec => []TypeOK
<1>1. Inv => TypeOK
  BY DEF Inv, RowsInv, PcInv, RestType, TypeOK
<1> QED
  BY <1>1, Invariance, PTL

\* worker_loop never has two threads scan one torrent, however often leases
\* run out, claims are lost and the service restarts.
THEOREM OneRunner == Spec => []OneRunnerPerJob
<1>1. Inv => OneRunnerPerJob
  BY DEF Inv, PcInv
<1> QED
  BY <1>1, Invariance, PTL

\* A job in state scanning always has a worker and a lease to recover it by.
THEOREM ScansAreLeased == Spec => []ScanningIsLeased
<1>1. Inv => ScanningIsLeased
  BY DEF Inv, RowsInv
<1> QED
  BY <1>1, Invariance, PTL

\* A verdict is what the job's state says, and no clean one leaves a file out.
THEOREM VerdictsAreBacked == Spec => []VerdictBacked
<1>1. Inv => VerdictBacked
  BY DEF Inv, RowsInv
<1> QED
  BY <1>1, Invariance, PTL

\* The management cycle never holds a decision on a scan that is running.
THEOREM ManagementIsApart == Spec => []ManagementMissesScans
<1>1. Inv => ManagementMissesScans
  BY DEF Inv, PhaseInv
<1> QED
  BY <1>1, Invariance, PTL

\* A service that is down has no thread left.
THEOREM ShutdownIsQuiet == Spec => []DownIsQuiet
<1>1. Inv => DownIsQuiet
  BY DEF Inv, PhaseInv
<1> QED
  BY <1>1, Invariance, PTL

-----------------------------------------------------------------------------
(* The fence of the worker id                                              *)

\* Only a thread's own step moves it, crashes aside.
LEMMA OwnStep ==
  ASSUME Inv, Next, NEW j \in Jobs, NEW i \in Ids,
         pc[j][i] \in RunningPcs, pc'[j][i] # pc[j][i], loopPc' # "down"
  PROVE  ThreadStep(j, i)
<1>t. ThreadType
  BY DEF Inv, PcInv
<1>1. ASSUME NEW k \in Jobs, NEW h \in Ids, ThreadStep(k, h)
      PROVE  k = j /\ h = i
  <2>1. PICK label \in RunningPcs \cup {"free"} : Goto(k, h, label)
    BY <1>1, ThreadMoves
  <2> QED
    BY <2>1, <1>t DEF Goto, ThreadType
<1>2. ~ LoopStep
  <2>1. ASSUME NEW k \in Jobs, ClaimJob(k) PROVE FALSE
    <3>1. PICK h \in FreshIds(k) : pc' = [pc EXCEPT ![k][h] = "issued"]
      BY <2>1 DEF ClaimJob
    <3> QED
      BY <3>1, <1>t DEF ThreadType, FreshIds, RunningPcs
  <2>2. ASSUME NEW k \in Jobs, NEW h \in Ids, SpawnClaim(k, h) PROVE FALSE
    BY <2>2, <1>t DEF SpawnClaim, ThreadType, RunningPcs
  <2>3. SchedulerCycleFails => FALSE
    BY <1>t DEF SchedulerCycleFails, ThreadType, RunningPcs
  <2> QED
    BY <2>1, <2>2, <2>3 DEF LoopStep, Startup, BeginCycle, ManageRead, ManageCommit,
      RecoverScans, ReadControl, CountScans, EndClaims, EndCycle, Drained
<1>3. ~ Requests
  BY DEF Requests, ReadForPause, ReadForResume, DeleteJob, CallbackRead, CommitRequest,
    CallbackCommit, SetSlots, SetMaintenance, RequestOnly
<1>4. ~ \E k \in Jobs, h \in Ids : Heartbeat(k, h)
  BY DEF Heartbeat
<1>5. ~ \E k \in Jobs : BackoffElapses(k) \/ LeaseExpires(k)
  BY DEF BackoffElapses, LeaseExpires
<1>6. ~ RequestStop /\ ~ Crash /\ ~ Restart
  BY DEF RequestStop, Crash, Restart
<1> QED
  BY <1>1, <1>2, <1>3, <1>4, <1>5, <1>6 DEF Next

\* Without its run a thread's step leaves the rows alone, the lease of a
\* file it marks and the verdict it had reached aside.
LEMMA UnownedStep ==
  ASSUME NEW j \in Jobs, NEW i \in Ids, ThreadStep(j, i), ~Owns(j, i),
         pc[j][i] \notin {"reporting", "finishing"}
  PROVE  UNCHANGED <<jobState, verdict, unscanned, workerId>>
<1>h. ASSUME NEW b \in BOOLEAN, \/ HandleInterruption(j, i) \/ HandleFailure(j, i)
             \/ DeferClaim(j, i, b) \/ HandlePolicyFailure(j, i)
      PROVE  UNCHANGED rows
  BY <1>h DEF HandleInterruption, HandleFailure, DeferClaim, HandlePolicyFailure
<1>r. RaiseError(j, i) => UNCHANGED rows
  BY <1>h DEF RaiseError
<1>n. HandleInterruption(j, i) => UNCHANGED rows
  BY <1>h
<1>1. CASE Enter(j, i)
  BY <1>1 DEF Enter, rows
<1>2. CASE Prepare(j, i)
  BY <1>2, <1>r, <1>n DEF Prepare, rows
<1>3. CASE CheckRequests(j, i)
  BY <1>3, <1>n DEF CheckRequests, rows
<1>4. CASE MarkScanning(j, i)
  BY <1>4 DEF MarkScanning, rows
<1>5. CASE Recheck(j, i)
  BY <1>5, <1>r, <1>n DEF Recheck, rows
<1>6. CASE RecordResult(j, i)
  BY <1>6, <1>r, <1>n DEF RecordResult, rows
<1>7. CASE Finish(j, i)
  BY <1>7 DEF Finish
<1>8. CASE ReportInfected(j, i)
  BY <1>8 DEF ReportInfected
<1> QED
  BY <1>1, <1>2, <1>3, <1>4, <1>5, <1>6, <1>7, <1>8 DEF ThreadStep

\* Nor does the step that commits a verdict, unless it writes that verdict.
LEMMA VerdictStep ==
  ASSUME RowsInv, NEW j \in Jobs, NEW i \in Ids, ThreadStep(j, i), ~Owns(j, i),
         pc[j][i] \in {"reporting", "finishing"}
  PROVE  \/ UNCHANGED rows
         \/ /\ pc[j][i] = "reporting" /\ jobState[j] # "removed"
            /\ jobState'[j] = "scan_infected"
         \/ /\ pc[j][i] = "finishing" /\ jobState[j] # "removed"
            /\ jobState'[j] = "scan_clean"
<1>h. ASSUME NEW b \in BOOLEAN, \/ HandleInterruption(j, i) \/ HandleFailure(j, i)
             \/ DeferClaim(j, i, b) \/ HandlePolicyFailure(j, i)
      PROVE  UNCHANGED rows
  BY <1>h DEF HandleInterruption, HandleFailure, DeferClaim, HandlePolicyFailure
<1>r. RaiseError(j, i) => UNCHANGED rows
  BY <1>h DEF RaiseError
<1>1. CASE ReportInfected(j, i)
  BY <1>1, <1>h DEF ReportInfected, RecordInfected, RowsInv, RowsType
<1>2. CASE Finish(j, i)
  BY <1>2, <1>r DEF Finish, FinishCleanScan, RowsInv, RowsType
<1> QED
  BY <1>1, <1>2 DEF ThreadStep, Enter, Prepare, CheckRequests, MarkScanning, Recheck,
    RecordResult

\* A thread writes state, verdict, checkpoints and worker of a job only while
\* it holds the run, the verdict it had reached aside.
THEOREM WritesAreFenced == Spec => FencedWrites
<1>1. ASSUME Inv, Next, NEW j \in Jobs, NEW i \in Ids,
             pc[j][i] \in RunningPcs, pc'[j][i] # pc[j][i], loopPc' # "down", ~Owns(j, i)
      PROVE  \/ /\ jobState'[j] = jobState[j] /\ verdict'[j] = verdict[j]
                /\ unscanned'[j] = unscanned[j] /\ workerId'[j] = workerId[j]
             \/ /\ pc[j][i] = "reporting" /\ jobState[j] # "removed"
                /\ jobState'[j] = "scan_infected"
             \/ /\ pc[j][i] = "finishing" /\ jobState[j] # "removed"
                /\ jobState'[j] = "scan_clean"
  <2>1. ThreadStep(j, i)
    BY <1>1, OwnStep
  <2>2. RowsInv
    BY <1>1 DEF Inv
  <2>3. CASE pc[j][i] \in {"reporting", "finishing"}
    BY <1>1, <2>1, <2>2, <2>3, VerdictStep DEF rows
  <2>4. CASE pc[j][i] \notin {"reporting", "finishing"}
    BY <1>1, <2>1, <2>4, UnownedStep
  <2> QED
    BY <2>3, <2>4
<1>2. Inv /\ Next =>
       \A j \in Jobs, i \in Ids :
         /\ pc[j][i] \in RunningPcs /\ pc'[j][i] # pc[j][i] /\ loopPc' # "down"
         /\ ~Owns(j, i)
         => \/ /\ jobState'[j] = jobState[j] /\ verdict'[j] = verdict[j]
               /\ unscanned'[j] = unscanned[j] /\ workerId'[j] = workerId[j]
            \/ /\ pc[j][i] = "reporting" /\ jobState[j] # "removed"
               /\ jobState'[j] = "scan_infected"
            \/ /\ pc[j][i] = "finishing" /\ jobState[j] # "removed"
               /\ jobState'[j] = "scan_clean"
  BY <1>1
<1> QED
  BY <1>2, Invariance, PTL DEF Spec, FencedWrites

-----------------------------------------------------------------------------
(* The slots                                                               *)

\* What claim_jobs still has to give is counted with what scans already.
SlotInv ==
  loopPc = "claiming" =>
    /\ avail > 0 => Cardinality(NeverLapsed) + avail <= limit
    /\ availLarge > 0 => Cardinality(NeverLapsed \cap LargeJobs) + availLarge <= MaxLarge

\* A step that gives nobody a lease but who had none.
NoNewLease == \A k \in Jobs : lease'[k] = "live" => lease[k] \in {"live", "none"}

\* Every set of jobs can be counted.
LEMMA FiniteJobs == ASSUME NEW S \in SUBSET Jobs
                    PROVE  IsFiniteSet(S) /\ Cardinality(S) \in Nat
BY ConstantsAssumption, FS_Subset, FS_CardinalityType DEF ConstantsAssumption

\* Nothing but a claim puts a job into scanning.
LEMMA OnlyClaimsScan ==
  ASSUME Inv, [Next]_vars
  PROVE  NoNewScan \/ \E j \in Jobs : ClaimJob(j)
<1>t. RowsInv /\ FileCounts /\ stop \in BOOLEAN
  BY DEF Inv, PcInv, RestType, LoopType
<1>u. UNCHANGED jobState => NoNewScan
  BY DEF NoNewScan
<1>1. CASE LoopStep
  <2>1. CASE ManageCommit
    <3>1. managed \in Jobs
      BY <2>1 DEF ManageCommit, Inv, RestType, LoopType
    <3> QED
      BY <2>1, <3>1, <1>t, RowsProcessOne DEF ManageCommit
  <2>2. CASE Startup \/ RecoverScans
    BY <2>2, <1>t, <1>u, RowsRecover DEF Startup, RecoverScans, rows
  <2>3. CASE \E j \in Jobs : ClaimJob(j)
    BY <2>3
  <2>4. CASE UNCHANGED jobState
    BY <2>4, <1>u
  <2> QED
    BY <1>1, <2>1, <2>2, <2>3, <2>4 DEF LoopStep, BeginCycle, ManageRead, ReadControl,
      CountScans, EndClaims, SchedulerCycleFails, SpawnClaim, EndCycle, Drained, rows
<1>2. ASSUME NEW j \in Jobs, NEW i \in Ids, ThreadStep(j, i)
      PROVE  NoNewScan
  BY <1>2, <1>t, RowsThread
<1>3. CASE Requests
  <2>1. CASE CommitRequest
    <3>1. op.job \in Jobs
      BY <2>1 DEF CommitRequest, Inv, RestType, ApiType
    <3> QED
      BY <2>1, <3>1, <1>t, <1>u, RowsCommitPause, RowsCommitResume DEF CommitRequest, rows
  <2>2. CASE CallbackCommit
    <3>1. callback \in Jobs
      BY <2>2 DEF CallbackCommit, Inv, RestType, ApiType
    <3> QED
      BY <2>2, <3>1, <1>t, RowsProcessOne DEF CallbackCommit
  <2>3. ASSUME NEW j \in Jobs, DeleteJob(j)
        PROVE  NoNewScan
    BY <2>3, <1>t DEF DeleteJob, RowsInv, RowsType, NoNewScan
  <2>4. CASE UNCHANGED jobState
    BY <2>4, <1>u
  <2> QED
    BY <1>3, <2>1, <2>2, <2>3, <2>4 DEF Requests, ReadForPause, ReadForResume,
      CallbackRead, SetSlots, SetMaintenance, rows
<1>4. CASE UNCHANGED jobState
  BY <1>4, <1>u
<1> QED
  BY <1>1, <1>2, <1>3, <1>4 DEF Next, Heartbeat, BackoffElapses, LeaseExpires,
    RequestStop, Crash, Restart, vars, rows

\* A thread renews a lease that ran out as one that was revived.
LEMMA ThreadLeases ==
  ASSUME RowsInv, NEW j \in Jobs, NEW i \in Ids, ThreadStep(j, i)
  PROVE  NoNewLease
<1> USE DEF RowsInv, RowsType, NoNewLease
<1>o. /\ ReleaseLease(j) => NoNewLease
      /\ UNCHANGED rows => NoNewLease
      /\ UNCHANGED lease => NoNewLease
  BY DEF ReleaseLease, rows
<1>e. lease' = [lease EXCEPT ![j] = Renewed(@)] => NoNewLease
  BY DEF Renewed, Leases
<1>h. ASSUME NEW b \in BOOLEAN, \/ HandleInterruption(j, i) \/ HandleFailure(j, i)
             \/ DeferClaim(j, i, b) \/ HandlePolicyFailure(j, i)
      PROVE  NoNewLease
  BY <1>h, <1>o DEF HandleInterruption, HandleFailure, DeferClaim, HandlePolicyFailure
<1>r. RaiseError(j, i) => NoNewLease
  BY <1>h DEF RaiseError
<1>n. HandleInterruption(j, i) => NoNewLease
  BY <1>h
<1>m. PrepareManifest(j) => NoNewLease
  BY <1>e DEF PrepareManifest
<1> HIDE DEF NoNewLease, RowsInv, RowsType
<1>1. CASE Enter(j, i)
  BY <1>1, <1>o DEF Enter
<1>2. CASE Prepare(j, i)
  BY <1>2, <1>r, <1>n, <1>m DEF Prepare
<1>3. CASE CheckRequests(j, i)
  BY <1>3, <1>h, <1>n, <1>o DEF CheckRequests
<1>4. CASE MarkScanning(j, i)
  BY <1>4, <1>o, <1>e DEF MarkScanning
<1>5. CASE Recheck(j, i)
  BY <1>5, <1>r, <1>n, <1>m DEF Recheck
<1>6. CASE RecordResult(j, i)
  BY <1>6, <1>r, <1>n, <1>o DEF RecordResult, RecordClean
<1>7. CASE Finish(j, i)
  BY <1>7, <1>r, <1>o DEF Finish, FinishCleanScan
<1>8. CASE ReportInfected(j, i)
  BY <1>8, <1>h, <1>o DEF ReportInfected, RecordInfected
<1> QED
  BY <1>1, <1>2, <1>3, <1>4, <1>5, <1>6, <1>7, <1>8 DEF ThreadStep

\* Nothing but a claim and the count of claim_jobs makes a lease as good as new.
LEMMA LeaseSteps ==
  ASSUME Inv, [Next]_vars
  PROVE  \/ NoNewLease \/ CountScans \/ \E j \in Jobs : ClaimJob(j)
<1>t. RowsInv
  BY DEF Inv
<1>u. UNCHANGED lease => NoNewLease
  BY DEF NoNewLease
<1>d. ASSUME NEW j \in Jobs, ReleaseLease(j)
      PROVE  NoNewLease
  BY <1>d, <1>t DEF ReleaseLease, RowsInv, RowsType, NoNewLease
<1>p. ASSUME NEW j \in Jobs, ProcessOneCommit(j)
      PROVE  NoNewLease
  BY <1>p, <1>d, <1>u DEF ProcessOneCommit, QueueJob, rows
<1>1. CASE LoopStep
  <2>1. CASE ManageCommit
    <3>1. managed \in Jobs
      BY <2>1 DEF ManageCommit, Inv, RestType, LoopType
    <3> QED
      BY <2>1, <3>1, <1>p DEF ManageCommit
  <2>2. CASE Startup \/ RecoverScans
    <3>1. ASSUME NEW force \in BOOLEAN, RecoverInterrupted(force)
          PROVE  NoNewLease
      BY <3>1, <1>t DEF RecoverInterrupted, RowsInv, RowsType, NoNewLease
    <3> QED
      BY <2>2, <3>1, <1>u DEF Startup, RecoverScans, rows
  <2>3. CASE CountScans \/ \E j \in Jobs : ClaimJob(j)
    BY <2>3
  <2>4. CASE UNCHANGED lease
    BY <2>4, <1>u
  <2> QED
    BY <1>1, <2>1, <2>2, <2>3, <2>4 DEF LoopStep, BeginCycle, ManageRead, ReadControl,
      EndClaims, SchedulerCycleFails, SpawnClaim, EndCycle, Drained, rows
<1>2. ASSUME NEW j \in Jobs, NEW i \in Ids, ThreadStep(j, i)
      PROVE  NoNewLease
  BY <1>2, <1>t, ThreadLeases
<1>3. CASE Requests
  <2>1. CASE CallbackCommit
    <3>1. callback \in Jobs
      BY <2>1 DEF CallbackCommit, Inv, RestType, ApiType
    <3> QED
      BY <2>1, <3>1, <1>p DEF CallbackCommit
  <2>2. ASSUME NEW j \in Jobs, DeleteJob(j)
        PROVE  NoNewLease
    BY <2>2, <1>d DEF DeleteJob
  <2>3. CASE UNCHANGED lease
    BY <2>3, <1>u
  <2> QED
    BY <1>3, <2>1, <2>2, <2>3 DEF Requests, ReadForPause, ReadForResume, CommitRequest,
      CommitPause, CommitResume, CallbackRead, SetSlots, SetMaintenance, rows
<1>4. ASSUME NEW j \in Jobs, NEW l \in {"expired", "revived"},
             lease' = [lease EXCEPT ![j] = l]
      PROVE  NoNewLease
  BY <1>4, <1>t DEF RowsInv, RowsType, NoNewLease
<1>5. CASE UNCHANGED lease
  BY <1>5, <1>u
<1> QED
  BY <1>1, <1>2, <1>3, <1>4, <1>5 DEF Next, Heartbeat, BackoffElapses, LeaseExpires,
    RequestStop, Crash, Restart, vars, rows

\* The places left change only where claim_jobs counts them.
LEMMA ClaimingSteps ==
  ASSUME [Next]_vars, loopPc' = "claiming"
  PROVE  \/ CountScans \/ \E j \in Jobs : ClaimJob(j)
         \/ loopPc = "claiming" /\ UNCHANGED <<limit, avail, availLarge>>
<1>1. ASSUME NEW j \in Jobs, NEW i \in Ids, ThreadStep(j, i)
      PROVE  loopPc = "claiming" /\ UNCHANGED <<limit, avail, availLarge>>
  BY <1>1, ThreadMoves DEF ThreadOnly, loop
<1>2. CASE LoopStep
  BY <1>2 DEF LoopStep, Startup, BeginCycle, ManageRead, ManageCommit, RecoverScans,
    ReadControl, EndClaims, SchedulerCycleFails, SpawnClaim, EndCycle, Drained, loop
<1>3. CASE Requests
  BY <1>3 DEF Requests, ReadForPause, ReadForResume, DeleteJob, CallbackRead,
    CommitRequest, CallbackCommit, SetSlots, SetMaintenance, RequestOnly, loop
<1> QED
  BY <1>1, <1>2, <1>3 DEF Next, Heartbeat, BackoffElapses, LeaseExpires, RequestStop,
    Crash, Restart, vars, loop

\* A claim takes one job into scanning, or none.
LEMMA ClaimTakesOne ==
  ASSUME Inv, NEW j \in Jobs, ClaimJob(j)
  PROVE  /\ loopPc = "claiming" /\ loopPc' = "claiming" /\ avail > 0 /\ limit' = limit
         /\ \/ UNCHANGED <<rows, avail, availLarge>>
            \/ /\ j \in LargeJobs => availLarge > 0
               /\ NeverLapsed' = NeverLapsed \cup {j}
               /\ \A k \in Jobs \ {j} : jobState'[k] = jobState[k]
               /\ avail' = avail - 1
               /\ availLarge' = IF j \in LargeJobs THEN availLarge - 1 ELSE availLarge
<1>1. CASE UNCHANGED <<rows, avail, availLarge>>
  BY <1>1 DEF ClaimJob
<1>2. CASE ~ UNCHANGED <<rows, avail, availLarge>>
  <2>1. /\ jobState' = [jobState EXCEPT ![j] = "scanning"]
        /\ lease' = [lease EXCEPT ![j] = "live"]
        /\ j \in LargeJobs => availLarge > 0
        /\ avail' = avail - 1
        /\ availLarge' = IF j \in LargeJobs THEN availLarge - 1 ELSE availLarge
    BY <1>2 DEF ClaimJob
  <2>2. NeverLapsed' = NeverLapsed \cup {j}
    BY <2>1 DEF NeverLapsed, Inv, RowsInv, RowsType
  <2>3. \A k \in Jobs \ {j} : jobState'[k] = jobState[k]
    BY <2>1 DEF Inv, RowsInv, RowsType
  <2> QED
    BY <2>1, <2>2, <2>3 DEF ClaimJob
<1> QED
  BY <1>1, <1>2

\* One more member.
LEMMA AddOne ==
  ASSUME NEW S \in SUBSET Jobs, NEW j \in Jobs
  PROVE  Cardinality(S \cup {j}) <= Cardinality(S) + 1 /\ Cardinality(S \cup {j}) \in Nat
<1>1. IsFiniteSet(S) /\ Cardinality(S) \in Nat
  BY FiniteJobs
<1>2. Cardinality(S \cup {j}) \in {Cardinality(S), Cardinality(S) + 1}
  BY <1>1, FS_AddElement
<1> QED
  BY <1>1, <1>2

\* The slots in use and promised stay within the limits.
LEMMA SlotStep ==
  ASSUME Inv, Inv', SlotInv, [Next]_vars
  PROVE  SlotInv'
<1> DEFINE L == NeverLapsed \cap LargeJobs
<1>n. /\ NeverLapsed \in SUBSET Jobs /\ NeverLapsed' \in SUBSET Jobs
      /\ L \in SUBSET Jobs /\ L' \in SUBSET Jobs
  BY DEF NeverLapsed
<1>f. /\ Cardinality(NeverLapsed) \in Nat /\ Cardinality(NeverLapsed') \in Nat
      /\ Cardinality(L) \in Nat /\ Cardinality(L') \in Nat
      /\ IsFiniteSet(NeverLapsed) /\ IsFiniteSet(L)
  BY <1>n, FiniteJobs
<1>a. /\ avail \in Nat /\ availLarge \in Nat /\ avail' \in Nat /\ availLarge' \in Nat
      /\ limit \in Nat /\ limit' \in Nat
  BY LimitsAreNumbers DEF Inv, RestType, LoopType
<1>1. CASE \E j \in Jobs : ClaimJob(j)
  <2> PICK j \in Jobs : ClaimJob(j)
    BY <1>1
  <2>p. loopPc = "claiming" /\ loopPc' = "claiming" /\ avail > 0 /\ limit' = limit
    BY ClaimTakesOne
  <2>s. /\ Cardinality(NeverLapsed) + avail <= limit
        /\ availLarge > 0 => Cardinality(L) + availLarge <= MaxLarge
    BY <2>p DEF SlotInv
  <2>1. CASE UNCHANGED <<rows, avail, availLarge>>
    <3>1. NeverLapsed' = NeverLapsed
      BY <2>1 DEF rows, NeverLapsed
    <3> QED
      BY <2>1, <2>p, <2>s, <3>1 DEF SlotInv
  <2>2. CASE /\ j \in LargeJobs => availLarge > 0
             /\ NeverLapsed' = NeverLapsed \cup {j}
             /\ avail' = avail - 1
             /\ availLarge' = IF j \in LargeJobs THEN availLarge - 1 ELSE availLarge
    <3>1. Cardinality(NeverLapsed') <= Cardinality(NeverLapsed) + 1
      BY <2>2, <1>n, AddOne
    <3>2. Cardinality(NeverLapsed') + avail' <= limit'
      BY <2>2, <2>p, <2>s, <3>1, <1>f, <1>a
    <3>3. availLarge' > 0 => Cardinality(L') + availLarge' <= MaxLarge
      <4>1. CASE j \in LargeJobs
        <5>1. L' = L \cup {j} /\ availLarge > 0 /\ availLarge' = availLarge - 1
          BY <2>2, <4>1
        <5>2. Cardinality(L') <= Cardinality(L) + 1
          BY <5>1, <1>n, AddOne
        <5> QED
          BY <5>1, <5>2, <2>s, <1>f, <1>a, LimitsAreNumbers
      <4>2. CASE j \notin LargeJobs
        <5>1. L' = L /\ availLarge' = availLarge
          BY <2>2, <4>2
        <5> QED
          BY <5>1, <2>s
      <4> QED
        BY <4>1, <4>2
    <3> QED
      BY <3>2, <3>3 DEF SlotInv
  <2> QED
    BY <2>1, <2>2, ClaimTakesOne
<1>2. CASE loopPc' # "claiming"
  BY <1>2 DEF SlotInv
<1>3. CASE CountScans /\ loopPc' = "claiming"
  <2>1. /\ avail' = Free(limit', Cardinality(Busy))
        /\ availLarge' = Free(MaxLarge, Cardinality(Busy \cap LargeJobs))
        /\ UNCHANGED jobState /\ lease' = [j \in Jobs |-> Counted(lease[j])]
    BY <1>3 DEF CountScans
  <2>2. NeverLapsed' \subseteq Busy
    BY <2>1 DEF NeverLapsed, Busy, Active, Counted, Current
  <2>3. LoopType
    BY DEF Inv, RestType
  <2>4. L' \subseteq Busy \cap LargeJobs
    BY <2>2
  <2>5. /\ IsFiniteSet(Busy) /\ IsFiniteSet(Busy \cap LargeJobs)
        /\ Cardinality(Busy) \in Nat /\ Cardinality(Busy \cap LargeJobs) \in Nat
    BY <2>3, BusyIsFinite
  <2>6. /\ Cardinality(NeverLapsed') <= Cardinality(Busy)
        /\ Cardinality(L') <= Cardinality(Busy \cap LargeJobs)
    BY <2>2, <2>4, <2>5, FS_Subset
  <2>7. avail' > 0 => Cardinality(NeverLapsed') + avail' <= limit'
    BY <2>1, <2>5, <2>6, <1>f, <1>a DEF Free
  <2>8. availLarge' > 0 => Cardinality(L') + availLarge' <= MaxLarge
    BY <2>1, <2>5, <2>6, <1>f, <1>a, LimitsAreNumbers DEF Free
  <2> QED
    BY <2>7, <2>8 DEF SlotInv
<1>4. CASE NoNewScan /\ NoNewLease /\ loopPc = "claiming" /\ UNCHANGED <<limit, avail, availLarge>>
  <2>1. NeverLapsed' \subseteq NeverLapsed
    BY <1>4 DEF NeverLapsed, NoNewScan, NoNewLease, Inv, RowsInv, ScanningIsLeased
  <2>2. L' \subseteq L
    BY <2>1
  <2>3. Cardinality(NeverLapsed') <= Cardinality(NeverLapsed) /\ Cardinality(L') <= Cardinality(L)
    BY <2>1, <2>2, <1>f, FS_Subset
  <2> QED
    BY <1>4, <2>3, <1>f, <1>a, LimitsAreNumbers DEF SlotInv
<1> QED
  BY <1>1, <1>2, <1>3, <1>4, OnlyClaimsScan, LeaseSteps, ClaimingSteps

\* A claim that takes a job leaves the limits unbroken.
LEMMA ClaimIsWithin ==
  ASSUME Inv, SlotInv, [Next]_vars, NEW j \in Jobs,
         jobState[j] # "scanning", jobState'[j] = "scanning"
  PROVE  /\ Cardinality(NeverLapsed') <= limit
         /\ j \in LargeJobs => Cardinality(NeverLapsed' \cap LargeJobs) <= MaxLarge
<1>1. PICK k \in Jobs : ClaimJob(k)
  BY OnlyClaimsScan DEF NoNewScan
<1>2. ClaimJob(j)
  BY <1>1, ClaimTakesOne DEF rows
<1>3. /\ loopPc = "claiming" /\ avail > 0
      /\ j \in LargeJobs => availLarge > 0
      /\ NeverLapsed' = NeverLapsed \cup {j}
  BY <1>2, ClaimTakesOne DEF rows
<1>4. /\ NeverLapsed \in SUBSET Jobs /\ NeverLapsed \cap LargeJobs \in SUBSET Jobs
  BY DEF NeverLapsed
<1>5. /\ Cardinality(NeverLapsed) \in Nat /\ Cardinality(NeverLapsed \cap LargeJobs) \in Nat
  BY <1>4, FiniteJobs
<1>6. avail \in Nat /\ availLarge \in Nat /\ limit \in Nat
  BY LimitsAreNumbers DEF Inv, RestType, LoopType
<1>7. Cardinality(NeverLapsed') <= limit
  <2>1. /\ Cardinality(NeverLapsed \cup {j}) <= Cardinality(NeverLapsed) + 1
        /\ Cardinality(NeverLapsed \cup {j}) \in Nat
    BY <1>4, AddOne
  <2>2. Cardinality(NeverLapsed) + avail <= limit
    BY <1>3 DEF SlotInv
  <2> QED
    BY <1>3, <1>5, <1>6, <2>1, <2>2
<1>8. ASSUME j \in LargeJobs
      PROVE  Cardinality(NeverLapsed' \cap LargeJobs) <= MaxLarge
  <2> DEFINE L == NeverLapsed \cap LargeJobs
  <2>1. Cardinality(L \cup {j}) <= Cardinality(L) + 1 /\ Cardinality(L \cup {j}) \in Nat
    BY <1>4, AddOne
  <2>2. Cardinality(L) + availLarge <= MaxLarge /\ availLarge > 0
    BY <1>3, <1>8 DEF SlotInv
  <2>3. NeverLapsed' \cap LargeJobs = L \cup {j}
    BY <1>3, <1>8
  <2>4. Cardinality(L) \in Nat
    BY <1>5
  <2> HIDE DEF L
  <2>5. Cardinality(L \cup {j}) <= MaxLarge
    BY <1>6, <2>1, <2>2, <2>4, LimitsAreNumbers
  <2> QED
    BY <2>3, <2>5
<1> QED
  BY <1>7, <1>8

\* However leases expire, jobs yield and slots are set anew, no claim makes
\* more scans than the slots it was counted against, nor more large ones than
\* their limit, the scans aside whose lease was over when claim_jobs counted.
THEOREM SlotsAreRespected == Spec => SlotsRespected
<1>1. Init => SlotInv
  BY DEF Init, SlotInv
<1>2. Inv /\ Inv' /\ SlotInv /\ [Next]_vars => SlotInv'
  BY SlotStep
<1>3. Inv /\ SlotInv /\ Next =>
       \A j \in Jobs :
         jobState[j] # "scanning" /\ jobState'[j] = "scanning" =>
           /\ Cardinality(NeverLapsed') <= limit
           /\ j \in LargeJobs => Cardinality(NeverLapsed' \cap LargeJobs) <= MaxLarge
  BY ClaimIsWithin
<1> QED
  BY <1>1, <1>2, <1>3, Invariance, PTL DEF Spec, SlotsRespected
=============================================================================
