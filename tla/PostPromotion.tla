---------------------------- MODULE PostPromotion -----------------------------
(***************************************************************************)
(* The copy or script that runs once a torrent was promoted, and the       *)
(* controller that pauses, drains and restarts what runs it:               *)
(* app/post_promotion.py, app/admin.py and the handlers of app/main.py.    *)
(*                                                                         *)
(* What the process does is unknown to Intake once it was started, so an   *)
(* attempt must be recorded before it starts and never be repeated unless  *)
(* an administrator asks for it.  The runner awaits threads, processes and *)
(* timeouts between its steps; handlers, the worker loop and crashes come  *)
(* in between.  A handler without an await is one step.                    *)
(***************************************************************************)
EXTENDS Naturals

CONSTANTS
  Jobs,
  Modes,      \* settings in use: subset of {"off", "script", "copy"}
  None,
  MaxFaults,  \* bound: failed calls and writes, crashes, unready content
  MaxOps      \* bound: acts of operators and administrators

ASSUME PostPromotionAssumption ==
  /\ Modes \subseteq {"off", "script", "copy"} /\ Modes # {} /\ None \notin Jobs
  /\ MaxFaults \in Nat /\ MaxOps \in Nat

VARIABLES
  hook,       \* hook_status, hook_kind and hook_attempts of each job
  procs,      \* the processes that run
  starts,     \* history: processes started for each job
  retries,    \* history: retries asked for each job
  runner,     \* PostPromotionRunner: its place, claim and outcome
  worker,     \* worker_loop: its place
  stop,       \* stop_event of the worker
  up,         \* the server: down, up or stopping
  paused,     \* Controller.paused
  mutating,   \* active_mutations: a request to remove a job is under way
  backup,     \* a backup is being made, and holds operation_lock
  marker,     \* controller-paused.json exists
  restartRequired,  \* restart-required exists
  mode, savedMode,  \* the settings in use and those in settings.json
  faults, ops

rows == <<hook, starts, retries>>
runs == <<runner, procs, worker, stop>>
server == <<up, paused, mutating, backup, mode>>
stored == <<marker, restartRequired, savedMode>>
bounds == <<faults, ops>>
vars == <<rows, runs, server, stored, bounds>>

Statuses == {"unpromoted", "none", "pending", "running", "succeeded", "failed",
             "interrupted", "cancelled", "removed"}
Outcomes == {"succeeded", "failed", "interrupted"}
Attempts == 0 .. 1 + MaxOps
RunnerPcs == {"off", "recover", "idle", "validate", "commit", "start", "exec", "wait",
              "terminate", "finish"}
Hooks == [status : Statuses, kind : Modes, attempts : Attempts]
Runners == [pc : RunnerPcs, job : Jobs \cup {None}, attempt : Attempts, outcome : Outcomes]
Processes == [job : Jobs, attempt : Attempts]

Fault == faults < MaxFaults /\ faults' = faults + 1 /\ UNCHANGED ops
Op == ops < MaxOps /\ ops' = ops + 1 /\ UNCHANGED faults

NoClaim == [pc |-> "off", job |-> None, attempt |-> 0, outcome |-> "failed"]
At(label) == [runner EXCEPT !.pc = label]
With(status) == {j \in Jobs : hook[j].status = status}

\* The worker is started, unless the controller is paused.
Init ==
  /\ \E m \in Modes :
       /\ mode = m /\ savedMode = m
       /\ hook = [j \in Jobs |-> [status |-> "unpromoted", kind |-> m, attempts |-> 0]]
  /\ procs = {} /\ starts = [j \in Jobs |-> 0] /\ retries = [j \in Jobs |-> 0]
  /\ runner = NoClaim /\ stop = FALSE
  /\ up = "up" /\ mutating = FALSE /\ backup = FALSE /\ restartRequired = FALSE
  /\ marker \in BOOLEAN /\ paused = marker
  /\ worker = IF paused THEN "none" ELSE "startup"
  /\ faults = 0 /\ ops = 0

-----------------------------------------------------------------------------
(* The worker loop                                                         *)

\* queue_promotion_hook, in the transaction that marks a job done.  A copy
\* that no rule covers is not queued.
Promote(j) ==
  /\ worker \in {"startup", "loop"} /\ hook[j].status = "unpromoted"
  /\ \E s \in {"none", "pending"} :
       /\ s = "pending" => mode # "off"
       /\ hook' = [hook EXCEPT ![j].status = s, ![j].kind = mode]
  /\ UNCHANGED <<starts, retries, runs, server, stored, bounds>>

\* The loop starts the runner after its own recovery, and stops with it.
WorkerStep ==
  /\ \/ worker = "startup" /\ worker' = "loop" /\ runner' = At("recover")
     \/ worker = "loop" /\ stop /\ worker' = "drain" /\ UNCHANGED runner
     \/ worker = "drain" /\ runner.pc = "off" /\ worker' = "none" /\ UNCHANGED runner
  /\ UNCHANGED <<rows, procs, stop, server, stored, bounds>>

-----------------------------------------------------------------------------
(* The runner                                                              *)

\* Mutant of Interrupted: an interrupted attempt is queued again.
Requeued ==
  [j \in Jobs |-> IF hook[j].status = "running"
                  THEN [hook[j] EXCEPT !.status = "pending"] ELSE hook[j]]
\* recover_interrupted
Interrupted ==
  [j \in Jobs |-> IF hook[j].status = "running"
                  THEN [hook[j] EXCEPT !.status = "interrupted"] ELSE hook[j]]

\* Without recovery the runner does not start anything.
Recover ==
  /\ runner.pc = "recover"
  /\ \/ hook' = Interrupted /\ runner' = At("idle") /\ UNCHANGED bounds
     \/ runner' = NoClaim /\ Fault /\ UNCHANGED hook
  /\ UNCHANGED <<starts, retries, procs, worker, stop, server, stored>>

\* Mutant of Claimable: what was retried is not taken up.
ClaimableOnce == {j \in With("pending") : hook[j].kind = mode /\ hook[j].attempts = 0}
\* The queued actions of the kind that is enabled.
Claimable == {j \in With("pending") : hook[j].kind = mode}

\* Mutant of MayEnd: the runner works off its queue before it ends.
EndsEmpty == stop /\ With("pending") = {}
MayEnd == stop

\* The runner takes up a job, or ends when it is told to stop.
NextClaim ==
  /\ runner.pc = "idle"
  /\ \/ MayEnd /\ runner' = NoClaim
     \/ /\ ~stop /\ mode # "off"
        /\ \E j \in Claimable :
             runner' = [pc |-> "validate", job |-> j, attempt |-> hook[j].attempts + 1,
                        outcome |-> "failed"]
  /\ UNCHANGED <<rows, procs, worker, stop, server, stored, bounds>>

\* _validate walks the content: it is right, not ready for now, or wrong.
Validate ==
  /\ runner.pc = "validate"
  /\ \/ runner' = At(IF stop THEN "idle" ELSE "commit") /\ UNCHANGED <<hook, bounds>>
     \/ runner' = At("idle") /\ Fault /\ UNCHANGED hook
     \/ /\ runner' = At("idle") /\ Fault
        /\ hook' = IF hook[runner.job].status = "pending"
                   THEN [hook EXCEPT ![runner.job].status = "failed"] ELSE hook
  /\ UNCHANGED <<starts, retries, procs, worker, stop, server, stored>>

\* Mutant of CommitClaim: the attempt is recorded with its outcome only.
StartUnclaimed ==
  /\ runner.pc = "commit" /\ runner' = At("start")
  /\ UNCHANGED <<rows, procs, worker, stop, server, stored, bounds>>
\* The claim is durable before the process starts.
CommitClaim ==
  /\ runner.pc = "commit"
  /\ \/ /\ hook[runner.job].status = "pending"
        /\ hook' = [hook EXCEPT ![runner.job].status = "running",
                                ![runner.job].attempts = runner.attempt]
        /\ runner' = At("start") /\ UNCHANGED bounds
     \/ hook[runner.job].status # "pending" /\ runner' = At("idle") /\ UNCHANGED <<hook, bounds>>
     \/ runner' = At("idle") /\ Fault /\ UNCHANGED hook
  /\ UNCHANGED <<starts, retries, procs, worker, stop, server, stored>>

EndsWith(o, label) == [runner EXCEPT !.outcome = o, !.pc = label]

\* run_claim looks at the stop event once and then awaits the new process.
Start ==
  /\ runner.pc = "start"
  /\ runner' = IF stop THEN EndsWith("interrupted", "finish") ELSE At("exec")
  /\ UNCHANGED <<rows, procs, worker, stop, server, stored, bounds>>

Exec ==
  /\ runner.pc = "exec"
  /\ \/ /\ procs' = procs \cup {[job |-> runner.job, attempt |-> runner.attempt]}
        /\ starts' = [starts EXCEPT ![runner.job] = @ + 1]
        /\ runner' = At("wait") /\ UNCHANGED bounds
     \/ runner' = EndsWith("failed", "finish") /\ Fault /\ UNCHANGED <<procs, starts>>
  /\ UNCHANGED <<hook, retries, worker, stop, server, stored>>

\* The process exits, the runner is stopped, or the time is up.
Wait ==
  /\ runner.pc = "wait"
  /\ \E o \in {"succeeded", "failed"} \cup (IF stop THEN {"interrupted"} ELSE {}) :
       runner' = EndsWith(o, "terminate")
  /\ UNCHANGED <<rows, procs, worker, stop, server, stored, bounds>>

\* _terminate kills the process group.  What escaped it and holds the output
\* open turns a success into a failure.
Terminate ==
  /\ runner.pc = "terminate"
  /\ procs' = procs \ {[job |-> runner.job, attempt |-> runner.attempt]}
  /\ \/ runner' = At("finish")
     \/ hook[runner.job].kind = "script" /\ runner.outcome = "succeeded"
        /\ runner' = EndsWith("failed", "finish")
  /\ UNCHANGED <<rows, worker, stop, server, stored, bounds>>

\* _finish writes the outcome of this very attempt; when the write fails the
\* row stays running until the next recovery.
Finish ==
  /\ runner.pc = "finish" /\ runner' = At("idle")
  /\ \/ /\ hook' = IF hook[runner.job].status = "running"
                      /\ hook[runner.job].attempts = runner.attempt
                   THEN [hook EXCEPT ![runner.job].status = runner.outcome] ELSE hook
        /\ UNCHANGED bounds
     \/ Fault /\ UNCHANGED hook
  /\ UNCHANGED <<starts, retries, procs, worker, stop, server, stored>>

RunnerStep ==
  \/ Recover \/ NextClaim \/ Validate \/ CommitClaim \/ Start \/ Exec \/ Wait
  \/ Terminate \/ Finish

-----------------------------------------------------------------------------
(* Requests                                                                *)

\* Mutants of Drained: requests are not waited for; the loop is not.
DrainedOfWorker == paused /\ worker = "none"
DrainedOfRequests == paused /\ ~mutating
\* Controller.status
Drained == paused /\ worker = "none" /\ ~mutating

\* Mutant of Lock: a restart that is required is overlooked.
LockAnyway == up = "up" /\ ~backup /\ Drained /\ Op
\* An administrator's operation holds operation_lock and requires a drained
\* controller without settings that wait for a restart.
Lock == up = "up" /\ ~backup /\ Drained /\ ~restartRequired /\ Op

\* administration_guard admits a mutating request.
BeginMutation ==
  /\ up = "up" /\ ~paused /\ ~mutating /\ Op /\ mutating' = TRUE
  /\ UNCHANGED <<rows, runs, up, paused, backup, mode, stored>>

\* delete_job spares what is queued or running.
Removable == {"unpromoted", "none", "succeeded", "failed", "interrupted", "cancelled"}

\* The admitted request removes a job, or fails.
EndMutation ==
  /\ up = "up" /\ mutating /\ mutating' = FALSE
  /\ \/ UNCHANGED hook
     \/ \E j \in Jobs : /\ hook[j].status \in Removable
                        /\ hook' = [hook EXCEPT ![j].status = "removed"]
  /\ UNCHANGED <<starts, retries, runs, up, paused, backup, mode, stored, bounds>>

\* Controller.pause
Pause ==
  /\ up = "up" /\ ~backup /\ ~paused /\ Op
  /\ marker' = TRUE /\ paused' = TRUE /\ stop' = TRUE
  /\ UNCHANGED <<rows, runner, procs, worker, up, mutating, backup, mode, restartRequired,
                 savedMode>>

\* Controller.resume starts another worker.
Resume ==
  /\ Lock /\ marker' = FALSE /\ paused' = FALSE
  /\ stop' = FALSE /\ worker' = "startup"
  /\ UNCHANGED <<rows, runner, procs, up, mutating, backup, mode, restartRequired, savedMode>>

\* The mark is written before the settings, which may then not be written.
SaveSettings ==
  /\ Lock /\ restartRequired' = TRUE /\ savedMode' \in Modes
  /\ UNCHANGED <<rows, runs, server, marker>>

\* Mutant of Retryable: what was cancelled is retried.
RetryableOrCancelled == {"failed", "interrupted", "cancelled"}
Retryable == {"failed", "interrupted"}
\* retry_promotion_hook keeps the kind of the first attempt.
RetryHook(j) ==
  /\ Lock /\ hook[j].status \in Retryable /\ hook[j].kind = mode
  /\ hook' = [hook EXCEPT ![j].status = "pending"]
  /\ retries' = [retries EXCEPT ![j] = @ + 1]
  /\ UNCHANGED <<starts, runs, server, stored>>

CancelCopy(j) ==
  /\ Lock /\ hook[j].kind = "copy" /\ hook[j].status \in {"pending", "failed", "interrupted"}
  /\ hook' = [hook EXCEPT ![j].status = "cancelled"]
  /\ UNCHANGED <<starts, retries, runs, server, stored>>

\* download_backup awaits a thread that reads the database.
BeginBackup ==
  /\ Lock /\ backup' = TRUE
  /\ UNCHANGED <<rows, runs, up, paused, mutating, mode, stored>>

EndBackup ==
  /\ backup /\ backup' = FALSE
  /\ UNCHANGED <<rows, runs, up, paused, mutating, mode, stored, bounds>>

-----------------------------------------------------------------------------
(* The server                                                              *)

\* lifespan ends when the requests have; the worker is told to stop.
Shutdown ==
  /\ up = "up" /\ ~mutating /\ ~backup /\ Op /\ up' = "stopping" /\ stop' = TRUE
  /\ UNCHANGED <<rows, runner, procs, worker, paused, mutating, backup, mode, stored>>

ShutdownEnds ==
  /\ up = "stopping" /\ worker = "none" /\ up' = "down"
  /\ UNCHANGED <<rows, runs, paused, mutating, backup, mode, stored, bounds>>

\* The container dies, and every process with it.
Crash ==
  /\ up # "down" /\ Fault /\ up' = "down"
  /\ procs' = {} /\ runner' = NoClaim /\ worker' = "none" /\ stop' = TRUE
  /\ mutating' = FALSE /\ backup' = FALSE
  /\ UNCHANGED <<rows, paused, mode, stored>>

\* The launcher and the beginning of lifespan.
Boot ==
  /\ up = "down" /\ up' = "up"
  /\ restartRequired' = FALSE /\ mode' = savedMode
  /\ hook' = Interrupted
  /\ paused' = marker /\ stop' = FALSE /\ worker' = IF marker THEN "none" ELSE "startup"
  /\ UNCHANGED <<starts, retries, runner, procs, mutating, backup, marker, savedMode, bounds>>

Next ==
  \/ \E j \in Jobs : Promote(j) \/ RetryHook(j) \/ CancelCopy(j)
  \/ WorkerStep \/ RunnerStep
  \/ BeginMutation \/ EndMutation \/ Pause \/ Resume \/ SaveSettings
  \/ BeginBackup \/ EndBackup \/ Shutdown \/ ShutdownEnds \/ Crash \/ Boot

\* The event loop runs, a request ends, and the container is restarted.
Fairness ==
  /\ WF_vars(WorkerStep) /\ WF_vars(RunnerStep)
  /\ WF_vars(EndMutation) /\ WF_vars(EndBackup)
  /\ WF_vars(ShutdownEnds) /\ WF_vars(Boot)

Spec == Init /\ [][Next]_vars
FairSpec == Spec /\ Fairness

-----------------------------------------------------------------------------
(* Properties                                                              *)

\* Rows, runner, server and files hold values of their types.
TypeOK ==
  /\ hook \in [Jobs -> Hooks] /\ procs \subseteq Processes
  /\ starts \in [Jobs -> Attempts] /\ retries \in [Jobs -> 0 .. MaxOps]
  /\ runner \in Runners /\ worker \in {"none", "startup", "loop", "drain"}
  /\ stop \in BOOLEAN /\ up \in {"down", "up", "stopping"}
  /\ {paused, mutating, backup, marker, restartRequired} \subseteq BOOLEAN
  /\ {mode, savedMode} \subseteq Modes
  /\ faults \in 0 .. MaxFaults /\ ops \in 0 .. MaxOps

\* CONFIGURATION.md:272: no attempt is repeated by itself, after whatever crash,
\* pause or lost outcome: each start but the first was asked for.
NothingIsReplayed == \A j \in Jobs : starts[j] <= retries[j] + 1

\* A process runs only under its durable claim, alone, and while its job can
\* be neither removed nor cancelled.
ProcessesAreClaimed ==
  /\ \A p \in procs : hook[p.job].status = "running" /\ hook[p.job].attempts = p.attempt
  /\ \A p, q \in procs : p = q

\* Every process was asked for, and its claim says so while it runs.
ProcessesAreAskedFor == NothingIsReplayed /\ ProcessesAreClaimed

\* README.md:1085: a drained controller has no process and no runner that
\* could still start or record one.
DrainedIsQuiet == up = "up" /\ Drained => procs = {} /\ runner.pc = "off"

\* While a backup reads the database nothing changes a row.
BackupIsStill == [][backup => hook' = hook \/ ~backup']_vars

\* README.md:724: a cancelled copy stays cancelled until its job is removed.
CancelledIsFinal ==
  [][\A j \in Jobs : hook[j].status = "cancelled" =>
       hook'[j].status \in {"cancelled", "removed"}]_vars

\* A worker never runs under other settings than those a restart would read.
PolicyIsSaved == up # "down" /\ worker # "none" => mode = savedMode

\* A pause drains, however the processes behave.
PauseDrains == up = "up" /\ paused ~> Drained \/ up # "up"

\* A queued action is taken up, or cancelled or removed, unless Intake stays
\* paused, another kind is enabled, or the runner could not recover.
QueuedActionsRun ==
  \A j \in Jobs :
    hook[j].status = "pending" ~>
      \/ hook[j].status # "pending" \/ hook[j].kind # mode
      \/ paused \/ (worker = "loop" /\ runner.pc = "off")
=============================================================================
