------------------------------ MODULE ScanQueue ------------------------------
(***************************************************************************)
(* The durable scan queue: app/scan_coordinator.py driven by the worker    *)
(* loop of app/worker.py, shared with the HTTP handlers that pause, resume,*)
(* remove and complete jobs.                                               *)
(*                                                                         *)
(* The database rows are the only state that survives a crash.  Every      *)
(* claim starts at most one thread (run_claim), and the thread and the     *)
(* rows are related only by the claim's worker id.  A step of the model is *)
(* a stretch of code with no call to qBittorrent, the scanner or the disk  *)
(* inside it; an HTTP handler reads in one step and commits in another,    *)
(* since the ORM's UPDATE carries no condition on what was read.           *)
(*                                                                         *)
(* Simplifications: files are counted, not named (ScanManifest has them);  *)
(* the order of the queue is left open; the states before the queue are    *)
(* one state "tracking" and those after the verdict are not entered.       *)
(***************************************************************************)
EXTENDS Naturals, FiniteSets

CONSTANTS
  Jobs,          \* jobs the service tracks
  LargeJobs,     \* those at or above large_scan_gib
  Ids,           \* worker ids one job can have in use; three are enough
  None,          \* the null of a column
  HardMaxSlots, DefaultSlots, MaxLarge,  \* max_scan_slots and its companions
  MaxFailures,   \* scan_max_failures
  MaxFiles,      \* files of a torrent
  MaxFaults,     \* bound: failures of the environment in one behaviour
  MaxOps         \* bound: operator requests and completion callbacks

ASSUME ConstantsAssumption ==
  /\ IsFiniteSet(Jobs) /\ LargeJobs \subseteq Jobs
  /\ None \notin Jobs \cup Ids
  /\ HardMaxSlots \in Nat \ {0}
  /\ DefaultSlots \in 1 .. HardMaxSlots
  /\ MaxLarge \in 1 .. HardMaxSlots
  /\ MaxFailures \in Nat \ {0}
  /\ MaxFiles \in Nat \ {0}
  /\ MaxFaults \in Nat /\ MaxOps \in Nat

VARIABLES
  jobState, verdict, pauseRequested, workerId, lease, backoff, failures,
  unscanned,                  \* the rows of jobs, scan_runs and scan_files
  slots, boost, maintenance,  \* the scanner_control row
  loopPc, todo, limit, avail, availLarge, managed,  \* worker_loop and claim_jobs
  stop,                       \* the two stop events, set together
  pc,                         \* pc[j][i]: the thread of claim i of job j
  op, callback,               \* handlers between their read and their commit
  faults, ops                 \* what is spent of MaxFaults and MaxOps

rows == <<jobState, verdict, pauseRequested, workerId, lease, backoff,
          failures, unscanned>>
control == <<slots, boost, maintenance>>
loop == <<loopPc, todo, limit, avail, availLarge, managed>>
api == <<op, callback>>
vars == <<rows, control, loop, stop, pc, api, faults, ops>>

QueueStates == {"scan_pending", "scanning", "scan_paused"}
DecidedStates == {"scan_clean", "scan_infected"}
JobStates == QueueStates \cup DecidedStates \cup {"tracking", "error", "removed"}
Verdicts == {"none", "clean", "infected", "error"}
Leases == {"none", "live", "expired", "revived"}
LoopPcs == {"recovering", "idle", "managing", "control", "counting", "claiming",
            "spawning", "down"}
RunningPcs == {"spawned", "prepare", "loop", "picked", "scanning", "reporting",
               "finishing"}
Pcs == RunningPcs \cup {"free", "issued"}
NoOp == [kind |-> "none", job |-> None, seen |-> "none"]

Running(j, i) == pc[j][i] \in RunningPcs
Owns(j, i) == workerId[j] = i
\* Mutant of HasRunner: only the task of the claim on the row is looked for.
OwnerRuns(j) == \E i \in Ids : Owns(j, i) /\ Running(j, i)
HasRunner(j) == \E i \in Ids : Running(j, i)

\* A lease that ran out and was renewed is as good as any; that it ran out is
\* remembered, for SlotsRespected only, until claim_jobs counts it.
Current(l) == l \in {"live", "revived"}
Renewed(l) == IF l \in {"expired", "revived"} THEN "revived" ELSE "live"
Counted(l) == IF l = "revived" THEN "live" ELSE l
Active == {j \in Jobs : jobState[j] = "scanning" /\ Current(lease[j])}
NeverLapsed == {j \in Jobs : jobState[j] = "scanning" /\ lease[j] = "live"}

\* Mutant of Claimable: a scan that failed once is not taken up again.
NeverFailed(j) ==
  jobState[j] = "scan_pending" /\ ~pauseRequested[j] /\ ~backoff[j] /\ failures[j] = 0
Claimable(j) ==
  jobState[j] = "scan_pending" /\ ~pauseRequested[j] /\ ~backoff[j]
FreshIds(j) == {i \in Ids : pc[j][i] = "free" /\ workerId[j] # i}

Fault == faults < MaxFaults /\ faults' = faults + 1
Op == ops < MaxOps /\ ops' = ops + 1
NoFault == UNCHANGED faults

Init ==
  /\ jobState \in [Jobs -> {"tracking", "scan_pending"}]
  /\ verdict = [j \in Jobs |-> "none"]
  /\ pauseRequested = [j \in Jobs |-> FALSE]
  /\ workerId = [j \in Jobs |-> None]
  /\ lease = [j \in Jobs |-> "none"]
  /\ backoff = [j \in Jobs |-> FALSE]
  /\ failures = [j \in Jobs |-> 0]
  /\ unscanned = [j \in Jobs |-> MaxFiles]
  /\ slots = DefaultSlots /\ boost = FALSE /\ maintenance = FALSE
  /\ loopPc = "recovering" /\ todo = {} /\ limit = 0 /\ avail = 0 /\ availLarge = 0
  /\ managed = None /\ stop = FALSE
  /\ pc = [j \in Jobs |-> [i \in Ids |-> "free"]]
  /\ op = NoOp /\ callback = None
  /\ faults = 0 /\ ops = 0

-----------------------------------------------------------------------------
(* What the coordinator writes to the rows of a job.                       *)

\* _release_lease
ReleaseLease(j) ==
  /\ workerId' = [workerId EXCEPT ![j] = None]
  /\ lease' = [lease EXCEPT ![j] = "none"]

\* queue_job: the run is reset whatever state the job is in by now.
QueueJob(j) ==
  /\ ReleaseLease(j)
  /\ jobState' = [jobState EXCEPT ![j] = "scan_pending"]
  /\ verdict' = [verdict EXCEPT ![j] = "none"]
  /\ pauseRequested' = [pauseRequested EXCEPT ![j] = FALSE]
  /\ backoff' = [backoff EXCEPT ![j] = FALSE]
  /\ failures' = [failures EXCEPT ![j] = 0]
  /\ UNCHANGED unscanned

StateAfterRequeue(j) == IF pauseRequested[j] THEN "scan_paused" ELSE "scan_pending"

\* recover_interrupted_scans
StaleScans(force) ==
  {j \in Jobs : jobState[j] = "scanning"
                /\ (force \/ workerId[j] = None \/ ~Current(lease[j]))}
RecoverInterrupted(force) ==
  LET S == StaleScans(force) IN
  /\ jobState' = [j \in Jobs |-> IF j \in S THEN StateAfterRequeue(j) ELSE jobState[j]]
  /\ workerId' = [j \in Jobs |-> IF j \in S THEN None ELSE workerId[j]]
  /\ lease' = [j \in Jobs |-> IF j \in S THEN "none" ELSE lease[j]]
  /\ UNCHANGED <<verdict, pauseRequested, backoff, failures, unscanned>>

-----------------------------------------------------------------------------
(* worker_loop: recovery, then management, scheduling and spawning in turn *)

\* _recover_scan_state; worker_loop logs a failure of it and goes on.
Startup ==
  /\ loopPc = "recovering" /\ loopPc' = "idle"
  /\ \/ RecoverInterrupted(TRUE) /\ NoFault
     \/ Fault /\ UNCHANGED rows
  /\ UNCHANGED <<control, todo, limit, avail, availLarge, managed, stop, pc, api, ops>>

\* Mutant of BeginCycle: the loop goes on while it should stop.
BeginCycleAnyway ==
  /\ loopPc = "idle" /\ loopPc' = "managing" /\ todo' = {}
  /\ UNCHANGED <<rows, control, limit, avail, availLarge, managed, stop, pc, api, faults, ops>>
\* The head of the loop; a management cycle is due, or it is not.
BeginCycle ==
  /\ loopPc = "idle" /\ ~stop
  /\ loopPc' = "managing"
  /\ todo' \in {{}, {j \in Jobs : jobState[j] \notin {"error", "removed"}}}
  /\ UNCHANGED <<rows, control, limit, avail, availLarge, managed, stop, pc, api, faults, ops>>

\* process_nonterminal_jobs passes over the jobs of the queue and after it.
\* Mutant: it passes over the finished ones only.
NotFinished(j) == jobState[j] \notin DecidedStates \cup {"error", "removed"}
Managed(j) == jobState[j] = "tracking"

\* _process_one has the job's state in hand while it asks qBittorrent.
ManageRead(j) ==
  /\ loopPc = "managing" /\ managed = None /\ j \in todo
  /\ todo' = todo \ {j}
  /\ managed' = IF Managed(j) THEN j ELSE None
  /\ UNCHANGED <<rows, control, loopPc, limit, avail, availLarge, stop, pc, api, faults, ops>>

\* The commit of _process_one: the job is queued, kept in tracking (with or
\* without a write of its state), or marked as failed by the caller.
ProcessOneCommit(j) ==
  IF jobState[j] = "removed" THEN UNCHANGED rows /\ NoFault
  ELSE \/ QueueJob(j) /\ NoFault
       \/ UNCHANGED rows /\ NoFault
       \/ /\ jobState' = [jobState EXCEPT ![j] = "tracking"]
          /\ UNCHANGED <<verdict, pauseRequested, workerId, lease, backoff,
                         failures, unscanned>> /\ NoFault
       \/ /\ jobState' = [jobState EXCEPT ![j] = "error"] /\ Fault
          /\ UNCHANGED <<verdict, pauseRequested, workerId, lease, backoff,
                         failures, unscanned>>

ManageCommit ==
  /\ loopPc = "managing" /\ managed # None
  /\ ProcessOneCommit(managed)
  /\ managed' = None
  /\ UNCHANGED <<control, loopPc, todo, limit, avail, availLarge, stop, pc, api, ops>>

QueueIsEmpty == \A j \in Jobs : jobState[j] # "scan_pending"
\* A boost that claim_jobs has seen ends with the queue.
ResetBoost(seen, queueEmpty) ==
  /\ slots' = IF queueEmpty /\ seen THEN DefaultSlots ELSE slots
  /\ boost' = (boost /\ ~(queueEmpty /\ seen))
  /\ UNCHANGED maintenance

\* recover_interrupted_scans of claim_jobs, under a clock of its own.
RecoverScans ==
  /\ loopPc = "managing" /\ managed = None /\ todo = {}
  /\ RecoverInterrupted(FALSE) /\ loopPc' = "control"
  /\ UNCHANGED <<control, todo, limit, avail, availLarge, managed, stop, pc, api,
                 faults, ops>>

\* claim_jobs reads the clock and the control row, then asks clamd.  A lease
\* that ended since the recovery is over by this clock; one that ends later
\* still counts as held, so todo has those that stand now.
ReadControl ==
  /\ loopPc = "control"
  /\ \/ maintenance /\ loopPc' = "idle" /\ UNCHANGED <<todo, limit>>
     \/ /\ ~maintenance /\ loopPc' = "counting"
        /\ limit' = slots /\ todo' = Active
  /\ UNCHANGED <<rows, control, avail, availLarge, managed, stop, pc, api, faults, ops>>

\* Mutant of Free: what runs already is not subtracted.
WholeLimit(n, busy) == n
Free(n, busy) == IF n > busy THEN n - busy ELSE 0

\* Scans whose lease is not over by the clock of claim_jobs.
Busy == Active \cup {j \in todo : jobState[j] = "scanning" /\ lease[j] = "expired"}

\* clamd answered: the scans under a lease are counted, the candidates listed.
CountScans ==
  /\ loopPc = "counting"
  /\ \/ /\ Fault /\ loopPc' = "idle" /\ todo' = {} /\ limit' = 0
        /\ UNCHANGED <<control, lease, avail, availLarge>>
     \/ /\ NoFault
        /\ lease' = [j \in Jobs |-> Counted(lease[j])]
        /\ ResetBoost(limit > DefaultSlots, QueueIsEmpty)
        /\ limit' = IF QueueIsEmpty /\ limit > DefaultSlots THEN DefaultSlots ELSE limit
        /\ avail' = Free(limit', Cardinality(Busy))
        /\ availLarge' = Free(MaxLarge, Cardinality(Busy \cap LargeJobs))
        /\ todo' = {j \in Jobs : Claimable(j)}
        /\ loopPc' = "claiming"
  /\ UNCHANGED <<jobState, verdict, pauseRequested, workerId, backoff, failures,
                 unscanned, managed, stop, pc, api, ops>>

\* One candidate: the conditional UPDATE and, when it matched, the claim.
ClaimJob(j) ==
  /\ loopPc = "claiming" /\ avail > 0 /\ j \in todo
  /\ todo' = todo \ {j}
  /\ \/ /\ jobState[j] = "scan_pending"
        /\ j \in LargeJobs => availLarge > 0
        /\ FreshIds(j) # {}
        /\ LET i == CHOOSE x \in FreshIds(j) : TRUE IN
           /\ workerId' = [workerId EXCEPT ![j] = i]
           /\ pc' = [pc EXCEPT ![j][i] = "issued"]
        /\ jobState' = [jobState EXCEPT ![j] = "scanning"]
        /\ lease' = [lease EXCEPT ![j] = "live"]
        /\ backoff' = [backoff EXCEPT ![j] = FALSE]
        /\ avail' = avail - 1
        /\ availLarge' = IF j \in LargeJobs THEN availLarge - 1 ELSE availLarge
        /\ UNCHANGED <<verdict, pauseRequested, failures, unscanned>>
     \/ /\ jobState[j] # "scan_pending" \/ (j \in LargeJobs /\ availLarge = 0)
        /\ UNCHANGED <<rows, pc, avail, availLarge>>
  /\ UNCHANGED <<control, loopPc, limit, managed, stop, api, faults, ops>>

LoopForgets == todo' = {} /\ limit' = 0 /\ avail' = 0 /\ availLarge' = 0

\* The control row is read again only when a claim was committed.
Granted == \E j \in Jobs, i \in Ids : pc[j][i] = "issued"
BoostSeen == IF Granted THEN boost ELSE limit > DefaultSlots

EndClaims ==
  /\ loopPc = "claiming" /\ (avail = 0 \/ todo = {})
  /\ loopPc' = "spawning" /\ LoopForgets
  /\ IF avail = 0 /\ ~Granted THEN UNCHANGED control   \* no slot was free
     ELSE ResetBoost(BoostSeen, QueueIsEmpty)
  /\ UNCHANGED <<rows, managed, stop, pc, api, faults, ops>>

\* The scheduler cycle raises after some of its claims were committed:
\* worker_loop continues without them.
SchedulerCycleFails ==
  /\ loopPc = "claiming" /\ Fault
  /\ loopPc' = "idle" /\ LoopForgets
  /\ pc' = [j \in Jobs |-> [i \in Ids |->
              IF pc[j][i] = "issued" THEN "free" ELSE pc[j][i]]]
  /\ UNCHANGED <<rows, control, managed, stop, api, ops>>

\* A claim whose job still has a running task gets none of its own.
SpawnClaim(j, i) ==
  /\ loopPc = "spawning" /\ pc[j][i] = "issued"
  /\ pc' = [pc EXCEPT ![j][i] = IF HasRunner(j) THEN "free" ELSE "spawned"]
  /\ UNCHANGED <<rows, control, loop, stop, api, faults, ops>>

EndCycle ==
  /\ loopPc = "spawning" /\ \A j \in Jobs, i \in Ids : pc[j][i] # "issued"
  /\ loopPc' = "idle"
  /\ UNCHANGED <<rows, control, todo, limit, avail, availLarge, managed, stop, pc, api, faults, ops>>

\* The loop ends only after every thread it started.
Drained ==
  /\ loopPc = "idle" /\ stop /\ \A j \in Jobs : ~HasRunner(j)
  /\ loopPc' = "down" /\ stop' = FALSE
  /\ UNCHANGED <<rows, control, todo, limit, avail, availLarge, managed, pc, api, faults, ops>>

-----------------------------------------------------------------------------
(* run_claim, the thread of claim i of job j                               *)

Goto(j, i, label) == pc' = [pc EXCEPT ![j][i] = label]
ThreadOnly == UNCHANGED <<control, loop, stop, api, ops>>

\* _handle_interruption; like every handler below, nothing is written for a
\* claim that no longer holds the run.
HandleInterruption(j, i) ==
  /\ Goto(j, i, "free") /\ NoFault
  /\ IF Owns(j, i)
     THEN /\ jobState' = [jobState EXCEPT ![j] = StateAfterRequeue(j)]
          /\ ReleaseLease(j)
          /\ UNCHANGED <<verdict, pauseRequested, backoff, failures, unscanned>>
     ELSE UNCHANGED rows

\* _defer_claim
DeferClaim(j, i, retryLater) ==
  /\ Goto(j, i, "free")
  /\ IF Owns(j, i)
     THEN /\ jobState' = [jobState EXCEPT ![j] = StateAfterRequeue(j)]
          /\ backoff' = [backoff EXCEPT ![j] = retryLater]
          /\ ReleaseLease(j)
          /\ UNCHANGED <<verdict, pauseRequested, failures, unscanned>>
     ELSE UNCHANGED rows

\* _handle_failure: it does not look at pause_requested.
HandleFailure(j, i) ==
  /\ Goto(j, i, "free")
  /\ IF Owns(j, i)
     THEN /\ failures' = [failures EXCEPT ![j] = @ + 1]
          /\ ReleaseLease(j)
          /\ IF failures[j] + 1 >= MaxFailures
             THEN /\ jobState' = [jobState EXCEPT ![j] = "error"]
                  /\ UNCHANGED backoff
             ELSE /\ jobState' = [jobState EXCEPT ![j] = "scan_pending"]
                  /\ backoff' = [backoff EXCEPT ![j] = TRUE]
          /\ UNCHANGED <<verdict, pauseRequested, unscanned>>
     ELSE UNCHANGED rows

\* _handle_policy_failure
HandlePolicyFailure(j, i) ==
  /\ Goto(j, i, "free")
  /\ IF Owns(j, i)
     THEN /\ jobState' = [jobState EXCEPT ![j] = "error"]
          /\ verdict' = [verdict EXCEPT ![j] = "error"]
          /\ backoff' = [backoff EXCEPT ![j] = FALSE]
          /\ ReleaseLease(j)
          /\ UNCHANGED <<pauseRequested, failures, unscanned>>
     ELSE UNCHANGED rows

\* The except clauses of run_claim.
RaiseError(j, i) ==
  /\ Fault
  /\ \/ HandleFailure(j, i)
     \/ DeferClaim(j, i, TRUE)
     \/ HandlePolicyFailure(j, i)

\* _heartbeat followed by the manifest's commit.  The manifest is as it was,
\* or the content or the engine changed and files have to be scanned again.
PrepareManifest(j) ==
  /\ lease' = [lease EXCEPT ![j] = Renewed(@)]
  /\ \/ NoFault /\ UNCHANGED <<verdict, unscanned>>
     \/ /\ Fault
        /\ verdict' \in {verdict, [verdict EXCEPT ![j] = "none"]}
        /\ unscanned' = [unscanned EXCEPT ![j] = MaxFiles]
  /\ UNCHANGED <<jobState, pauseRequested, workerId, backoff, failures>>

Enter(j, i) ==
  /\ pc[j][i] = "spawned"
  /\ Goto(j, i, IF jobState[j] = "scanning" /\ Owns(j, i) THEN "prepare" ELSE "free")
  /\ ThreadOnly /\ UNCHANGED rows /\ NoFault

\* qBittorrent is asked, the torrent paused and the manifest built.
Prepare(j, i) ==
  /\ pc[j][i] = "prepare"
  /\ \/ Owns(j, i) /\ ~stop /\ PrepareManifest(j) /\ Goto(j, i, "loop")
     \/ (stop \/ ~Owns(j, i)) /\ HandleInterruption(j, i)
     \/ RaiseError(j, i)
  /\ ThreadOnly

\* The head of the file loop, up to the health check.
CheckRequests(j, i) ==
  /\ pc[j][i] = "loop"
  /\ \/ (stop \/ ~Owns(j, i)) /\ HandleInterruption(j, i)
     \/ /\ ~stop /\ Owns(j, i) /\ pauseRequested[j]
        /\ jobState' = [jobState EXCEPT ![j] = "scan_paused"]
        /\ ReleaseLease(j) /\ Goto(j, i, "free") /\ NoFault
        /\ UNCHANGED <<verdict, pauseRequested, backoff, failures, unscanned>>
     \/ /\ ~stop /\ Owns(j, i) /\ ~pauseRequested[j] /\ maintenance
        /\ DeferClaim(j, i, FALSE) /\ NoFault
     \/ /\ ~stop /\ Owns(j, i) /\ ~pauseRequested[j] /\ ~maintenance
        /\ Goto(j, i, "picked") /\ UNCHANGED rows /\ NoFault
  /\ ThreadOnly

\* The query for the next pending file.
FileLeft(j) == unscanned[j] > 0

\* The engine of the health check and the next file are marked and the lease
\* is written, behind clamd's answer and a look at the disk, without another
\* look at who holds the run.
MarkScanning(j, i) ==
  /\ pc[j][i] = "picked" /\ FileLeft(j) /\ NoFault
  /\ IF jobState[j] = "removed"
     THEN Goto(j, i, "free") /\ UNCHANGED rows
     ELSE /\ Goto(j, i, "scanning")
          /\ lease' = [lease EXCEPT ![j] = Renewed(@)]
          /\ UNCHANGED <<jobState, verdict, pauseRequested, workerId, backoff,
                         failures, unscanned>>
  /\ ThreadOnly

\* The verdict needs every file done before the last walk and after it.
\* Mutant: what the walk put back is not looked at.
NoneLeftBefore(j) == unscanned[j] = 0
NoneLeft(j) == unscanned[j] = 0 /\ unscanned'[j] = 0

\* No file is left: the manifest is rebuilt before the verdict.  The same
\* walk follows a change of the engine, files left or not.
Recheck(j, i) ==
  /\ pc[j][i] = "picked"
  /\ \/ (stop \/ ~Owns(j, i)) /\ HandleInterruption(j, i)
     \/ /\ ~stop /\ Owns(j, i) /\ PrepareManifest(j)
        /\ \/ /\ NoneLeft(j)
              /\ Goto(j, i, IF pauseRequested[j] THEN "loop" ELSE "finishing")
           \/ unscanned'[j] > 0 /\ faults' # faults /\ Goto(j, i, "loop")
     \/ RaiseError(j, i)
  /\ ThreadOnly

\* The verdict of one infected file is the verdict of the job.
RecordInfected(j, i) ==
  /\ jobState' = [jobState EXCEPT ![j] = "scan_infected"]
  /\ verdict' = [verdict EXCEPT ![j] = "infected"]
  /\ failures' = [failures EXCEPT ![j] = 0]
  /\ ReleaseLease(j) /\ Goto(j, i, "free")
  /\ UNCHANGED <<pauseRequested, backoff, unscanned>>

\* _should_yield needs another claimable job; which one the priorities and
\* sizes decide.
MayYield(j) == \E k \in Jobs \ {j} : Claimable(k)

\* The checkpoint is committed; then a pause is honoured, or the slot given
\* up, or the next file taken.
RecordClean(j, i) ==
  /\ unscanned' = [unscanned EXCEPT ![j] = @ - 1]
  /\ failures' = [failures EXCEPT ![j] = 0]
  /\ \/ /\ pauseRequested[j]
        /\ jobState' = [jobState EXCEPT ![j] = "scan_paused"]
        /\ ReleaseLease(j) /\ Goto(j, i, "free")
     \/ /\ ~pauseRequested[j] /\ MayYield(j)
        /\ jobState' = [jobState EXCEPT ![j] = "scan_pending"]
        /\ ReleaseLease(j) /\ Goto(j, i, "free")
     \/ /\ ~pauseRequested[j] /\ Goto(j, i, "loop")
        /\ UNCHANGED <<jobState, workerId, lease>>
  /\ UNCHANGED <<verdict, pauseRequested, backoff>>

\* Mutant of RecordResult: the result is written without a look at the run.
RecordUnfenced(j, i) ==
  /\ pc[j][i] = "scanning" /\ ThreadOnly /\ NoFault
  /\ RecordClean(j, i) \/ (Goto(j, i, "reporting") /\ UNCHANGED rows)
\* scan_path returns; an infected file is reported before it is committed.
RecordResult(j, i) ==
  /\ pc[j][i] = "scanning"
  /\ \/ (stop \/ ~Owns(j, i)) /\ HandleInterruption(j, i)
     \/ Owns(j, i) /\ NoFault /\ RecordClean(j, i)
     \/ Owns(j, i) /\ NoFault /\ Goto(j, i, "reporting") /\ UNCHANGED rows
     \/ RaiseError(j, i)
  /\ ThreadOnly

\* emit_event has written the event to disk: the verdict is committed without
\* another look at the run; a job that was removed has no rows to write to.
ReportInfected(j, i) ==
  /\ pc[j][i] = "reporting"
  /\ \/ jobState[j] # "removed" /\ RecordInfected(j, i) /\ NoFault
     \/ jobState[j] = "removed" /\ Goto(j, i, "free") /\ UNCHANGED rows /\ NoFault
     \/ Fault /\ HandleFailure(j, i)
  /\ ThreadOnly

\* _finish_clean_scan, after qBittorrent confirmed the paused torrent in
\* its staging root: the run is not looked at again.
FinishCleanScan(j, i) ==
  /\ jobState' = [jobState EXCEPT ![j] = "scan_clean"]
  /\ verdict' = [verdict EXCEPT ![j] = "clean"]
  /\ ReleaseLease(j)
  /\ UNCHANGED <<pauseRequested, backoff, failures, unscanned>>

Finish(j, i) ==
  /\ pc[j][i] = "finishing"
  /\ \/ /\ Goto(j, i, "free") /\ NoFault
        /\ IF jobState[j] = "removed" THEN UNCHANGED rows ELSE FinishCleanScan(j, i)
     \/ RaiseError(j, i)
  /\ ThreadOnly

\* The heartbeat of a thread that works renews a lease that ran out, as long
\* as nobody took the run over.
Heartbeat(j, i) ==
  /\ pc[j][i] \in {"prepare", "scanning"} /\ ~stop
  /\ Owns(j, i) /\ lease[j] = "expired"
  /\ lease' = [lease EXCEPT ![j] = "revived"]
  /\ UNCHANGED <<jobState, verdict, pauseRequested, workerId, backoff, failures,
                 unscanned, control, loop, stop, pc, api, faults, ops>>

ThreadStep(j, i) ==
  \/ Enter(j, i) \/ Prepare(j, i) \/ CheckRequests(j, i) \/ MarkScanning(j, i)
  \/ Recheck(j, i) \/ RecordResult(j, i) \/ ReportInfected(j, i) \/ Finish(j, i)

-----------------------------------------------------------------------------
(* Requests                                                                *)

Serving == loopPc # "down" /\ ~stop
RequestOnly == UNCHANGED <<loop, stop, pc, faults>>

\* _pause_job and _resume_job up to their commit
ReadForPause(j) ==
  /\ Serving /\ op = NoOp /\ Op /\ jobState[j] \in {"scan_pending", "scanning"}
  /\ op' = [kind |-> "pause", job |-> j, seen |-> jobState[j]]
  /\ UNCHANGED <<rows, control, callback>> /\ RequestOnly

ReadForResume(j) ==
  /\ Serving /\ op = NoOp /\ Op /\ jobState[j] = "scan_paused"
  /\ op' = [kind |-> "resume", job |-> j, seen |-> jobState[j]]
  /\ UNCHANGED <<rows, control, callback>> /\ RequestOnly

CommitPause(j) ==
  /\ pauseRequested' = [pauseRequested EXCEPT ![j] = TRUE]
  /\ jobState' = IF op.seen = "scan_pending"
                 THEN [jobState EXCEPT ![j] = "scan_paused"] ELSE jobState
  /\ UNCHANGED <<verdict, workerId, lease, backoff, failures, unscanned>>

CommitResume(j) ==
  /\ pauseRequested' = [pauseRequested EXCEPT ![j] = FALSE]
  /\ backoff' = [backoff EXCEPT ![j] = FALSE]
  /\ jobState' = [jobState EXCEPT ![j] = "scan_pending"]
  /\ UNCHANGED <<verdict, workerId, lease, failures, unscanned>>

CommitRequest ==
  /\ op # NoOp /\ op' = NoOp
  /\ \/ jobState[op.job] = "removed" /\ UNCHANGED rows
     \/ jobState[op.job] # "removed" /\ op.kind = "pause" /\ CommitPause(op.job)
     \/ jobState[op.job] # "removed" /\ op.kind = "resume" /\ CommitResume(op.job)
  /\ UNCHANGED <<control, callback, ops>> /\ RequestOnly

\* delete_job with delete_scan_data: one transaction, whatever the state.
DeleteJob(j) ==
  /\ Serving /\ Op /\ jobState[j] # "removed"
  /\ jobState' = [jobState EXCEPT ![j] = "removed"]
  /\ verdict' = [verdict EXCEPT ![j] = "none"]
  /\ pauseRequested' = [pauseRequested EXCEPT ![j] = FALSE]
  /\ ReleaseLease(j)
  /\ UNCHANGED <<backoff, failures, unscanned, control, api>> /\ RequestOnly

SetSlots(n) ==
  /\ Serving /\ Op
  /\ slots' = n /\ boost' = (n > DefaultSlots)
  /\ UNCHANGED <<rows, maintenance, api>> /\ RequestOnly

SetMaintenance(enabled) ==
  /\ Serving /\ Op /\ maintenance # enabled
  /\ maintenance' = enabled
  /\ UNCHANGED <<rows, slots, boost, api>> /\ RequestOnly

\* A completion callback: ingest_completion_event, then _process_one of
\* process_job_immediately with qBittorrent asked in between.
CallbackRead(j) ==
  /\ Serving /\ callback = None /\ jobState[j] = "tracking" /\ Op
  /\ callback' = j
  /\ UNCHANGED <<rows, control, op>> /\ RequestOnly

CallbackCommit ==
  /\ callback # None /\ callback' = None
  /\ ProcessOneCommit(callback)
  /\ UNCHANGED <<control, loop, stop, pc, op, ops>>

Requests ==
  \/ \E j \in Jobs : \/ ReadForPause(j) \/ ReadForResume(j) \/ DeleteJob(j)
                     \/ CallbackRead(j)
  \/ CommitRequest \/ CallbackCommit
  \/ \E n \in 1 .. HardMaxSlots : SetSlots(n)
  \/ \E b \in BOOLEAN : SetMaintenance(b)

-----------------------------------------------------------------------------
(* Time, shutdown and crashes                                              *)

\* Scheduled retry: next_attempt_at has passed.
BackoffElapses(j) ==
  /\ backoff[j] /\ backoff' = [backoff EXCEPT ![j] = FALSE]
  /\ UNCHANGED <<jobState, verdict, pauseRequested, workerId, lease, failures,
                 unscanned, control, loop, stop, pc, api, faults, ops>>

\* The heartbeats of a claim come from its thread, so a lease nobody works
\* for always runs out; that of a thread only when a call of it hangs.
Held(j) == \E i \in Ids : Owns(j, i) /\ pc[j][i] # "free"
LeaseExpires(j) ==
  /\ Current(lease[j]) /\ lease' = [lease EXCEPT ![j] = "expired"]
  /\ IF Held(j) THEN Fault ELSE NoFault
  /\ UNCHANGED <<jobState, verdict, pauseRequested, workerId, backoff, failures,
                 unscanned, control, loop, stop, pc, api, ops>>

RequestStop ==
  /\ Serving /\ Op /\ stop' = TRUE
  /\ UNCHANGED <<rows, control, loop, pc, api, faults>>

Crash ==
  /\ loopPc # "down" /\ Fault
  /\ loopPc' = "down" /\ LoopForgets
  /\ managed' = None /\ stop' = FALSE
  /\ pc' = [j \in Jobs |-> [i \in Ids |-> "free"]]
  /\ op' = NoOp /\ callback' = None
  /\ UNCHANGED <<rows, control, ops>>

Restart ==
  /\ loopPc = "down" /\ op = NoOp /\ callback = None
  /\ loopPc' = "recovering"
  /\ UNCHANGED <<rows, control, todo, limit, avail, availLarge, managed, stop, pc, api,
                 faults, ops>>

-----------------------------------------------------------------------------

LoopStep ==
  \/ Startup \/ BeginCycle \/ ManageCommit \/ RecoverScans \/ ReadControl
  \/ CountScans \/ EndClaims \/ EndCycle \/ Drained \/ SchedulerCycleFails
  \/ \E j \in Jobs : ManageRead(j) \/ ClaimJob(j)
  \/ \E j \in Jobs, i \in Ids : SpawnClaim(j, i)

Next ==
  \/ LoopStep
  \/ \E j \in Jobs, i \in Ids : ThreadStep(j, i) \/ Heartbeat(j, i)
  \/ Requests
  \/ \E j \in Jobs : BackoffElapses(j) \/ LeaseExpires(j)
  \/ RequestStop \/ Crash \/ Restart

(***************************************************************************)
(* The worker loop and the one thread of a job (OneRunnerPerJob) run,      *)
(* every call they make returns (qBittorrent, clamd and the helpers have   *)
(* timeouts), a handler that began commits, time passes, and the container *)
(* is restarted.  Operators and callbacks come when they like.             *)
(***************************************************************************)
Fairness ==
  /\ WF_vars(LoopStep \/ Restart)
  /\ \A j \in Jobs : WF_vars(\E i \in Ids : ThreadStep(j, i))
  /\ WF_vars(CommitRequest \/ CallbackCommit)
  /\ \A j \in Jobs : WF_vars(BackoffElapses(j) \/ (~Held(j) /\ LeaseExpires(j)))

Spec == Init /\ [][Next]_vars
FairSpec == Spec /\ Fairness

-----------------------------------------------------------------------------
(* Properties                                                              *)

\* The rows, the loop, the threads and the handlers hold values of their types.
RowsType ==
  /\ jobState \in [Jobs -> JobStates]
  /\ verdict \in [Jobs -> Verdicts]
  /\ pauseRequested \in [Jobs -> BOOLEAN]
  /\ workerId \in [Jobs -> Ids \cup {None}]
  /\ lease \in [Jobs -> Leases]
  /\ backoff \in [Jobs -> BOOLEAN]
  /\ failures \in [Jobs -> Nat]
  /\ unscanned \in [Jobs -> 0 .. MaxFiles]

ControlType ==
  /\ slots \in 1 .. HardMaxSlots
  /\ boost \in BOOLEAN /\ (boost <=> slots > DefaultSlots)
  /\ maintenance \in BOOLEAN

LoopType ==
  /\ loopPc \in LoopPcs
  /\ todo \in SUBSET Jobs
  /\ limit \in 0 .. HardMaxSlots
  /\ avail \in 0 .. HardMaxSlots /\ availLarge \in 0 .. MaxLarge
  /\ managed \in Jobs \cup {None} /\ stop \in BOOLEAN

ThreadType == pc \in [Jobs -> [Ids -> Pcs]]

ApiType ==
  /\ \/ op = NoOp
     \/ op \in [kind : {"pause", "resume"}, job : Jobs, seen : QueueStates]
  /\ callback \in Jobs \cup {None}

BudgetType == faults \in 0 .. MaxFaults /\ ops \in 0 .. MaxOps

TypeOK ==
  RowsType /\ ControlType /\ LoopType /\ ThreadType /\ ApiType /\ BudgetType

\* worker_loop never has two threads scan one torrent, even when a lease ran
\* out under a thread that is still busy and the job was claimed again.
OneRunnerPerJob ==
  \A j \in Jobs : \A h, i \in Ids : Running(j, h) /\ Running(j, i) => h = i

\* A job in state scanning always names a worker and has a lease, so the
\* recovery of claim_jobs finds every scan that nobody works on.
ScanningIsLeased ==
  \A j \in Jobs : jobState[j] = "scanning" => workerId[j] # None /\ lease[j] # "none"

\* A claim never makes more scans than the slots claim_jobs has read, nor more
\* large ones than their limit, through yields, crashes, refused claims, slot
\* changes and boosts.  Left out are scans whose lease ran out and was not
\* renewed before this count: one that ends after recover_interrupted_scans
\* looked and before claim_jobs counts is neither taken back nor counted, its
\* slot is given away, and the heartbeat of its thread revives it.
SlotsRespected ==
  [][\A j \in Jobs :
       jobState[j] # "scanning" /\ jobState'[j] = "scanning" =>
         /\ Cardinality(NeverLapsed') <= limit
         /\ j \in LargeJobs => Cardinality(NeverLapsed' \cap LargeJobs) <= MaxLarge]_vars

\* A job stands as scan_clean or scan_infected only with that verdict, no
\* worker, and for scan_clean with no file left unscanned.
VerdictBacked ==
  \A j \in Jobs :
    /\ jobState[j] = "scan_clean" =>
         verdict[j] = "clean" /\ workerId[j] = None /\ unscanned[j] = 0
    /\ jobState[j] = "scan_infected" => verdict[j] = "infected" /\ workerId[j] = None

\* A thread that lost the run neither requeues, pauses, fails nor releases the
\* job, nor counts its files: all it may still write is the engine it asked, the
\* mark and the lease of its next file, and the verdict it had reached, behind
\* the call that outlasted the lease: the event of an infected file, or
\* qBittorrent's last answer.
FencedWrites ==
  [][\A j \in Jobs, i \in Ids :
       /\ pc[j][i] \in RunningPcs /\ pc'[j][i] # pc[j][i] /\ loopPc' # "down"
       /\ ~Owns(j, i)
       => \/ /\ jobState'[j] = jobState[j] /\ verdict'[j] = verdict[j]
             /\ unscanned'[j] = unscanned[j] /\ workerId'[j] = workerId[j]
          \/ /\ pc[j][i] = "reporting" /\ jobState[j] # "removed"
             /\ jobState'[j] = "scan_infected"
          \/ /\ pc[j][i] = "finishing" /\ jobState[j] # "removed"
             /\ jobState'[j] = "scan_clean"]_vars

\* The management cycle, which shares the loop with the scheduler, never
\* commits over a running scan what it decided before the scan was claimed.
ManagementMissesScans ==
  managed # None => jobState[managed] # "scanning"

\* After a drained shutdown nothing of the service works any more.
DownIsQuiet ==
  loopPc = "down" => \A j \in Jobs, i \in Ids : pc[j][i] = "free"

\* A queued job is scanned to a decision once faults stop, unless somebody
\* takes it out of the queue, or pauses it or starts maintenance; and then it
\* does not stay in scanning either: no crash, lost lease or refused claim
\* leaves a job in scanning for ever.
QueuedJobsAreDecided ==
  \A j \in Jobs :
    []<>(\/ jobState[j] \notin {"scan_pending", "scanning"}
         \/ jobState[j] = "scan_pending" /\ (pauseRequested[j] \/ maintenance))

\* A shutdown completes: no thread keeps the loop from draining for ever.
ShutdownCompletes == []<>(~stop \/ loopPc = "down")

\* README.md:522: choose Pause After File and wait for Scan paused.  A pause
\* that reached a running scan stops it, whatever becomes of the scan.
PauseTakesEffect ==
  \A j \in Jobs : jobState[j] = "scanning" /\ pauseRequested[j] ~>
    (jobState[j] \notin {"scan_pending", "scanning"} \/ ~pauseRequested[j])

\* service.py:878: a delayed callback must not overwrite a scan/promotion.
CallbackKeepsScans ==
  [][callback # None /\ callback' = None /\ loopPc' # "down"
     => \A j \in Jobs : jobState[j] \in {"scanning"} \cup DecidedStates
                        => jobState'[j] = jobState[j]]_vars

\* README.md:524-535: the destination of a paused scan can be edited once the
\* worker has stopped, and a paused scan remains paused until it is resumed.
Editable(j) ==
  /\ jobState[j] = "scan_paused" /\ pauseRequested[j]
  /\ workerId[j] = None /\ lease[j] = "none" /\ verdict[j] = "none"
PausedScanStays == [][\A j \in Jobs : Editable(j) => jobState'[j] # "scan_clean"]_vars
=============================================================================
