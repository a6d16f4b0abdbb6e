------------------------- MODULE PostPromotionProofs --------------------------
(***************************************************************************)
(* Proofs about PostPromotion for any set of jobs, any settings and any    *)
(* number of faults and of acts of operators.                              *)
(***************************************************************************)
EXTENDS PostPromotion, TLAPS

\* Places of the runner that work at a job, that hold its claim, and that
\* have not started its process.
Working == {"validate", "commit", "start", "exec", "wait", "terminate", "finish"}
Claiming == {"start", "exec", "wait", "terminate", "finish"}
Starting == {"start", "exec"}
Started == {"wait", "terminate"}

\* The runner's claim is the one its job records, and the only process is its.
Claimed ==
  /\ runner.pc \in Working => runner.job \in Jobs
  /\ runner.pc \in Claiming =>
       hook[runner.job].status = "running" /\ hook[runner.job].attempts = runner.attempt
  /\ procs \subseteq {[job |-> runner.job, attempt |-> runner.attempt]}
  /\ procs # {} => runner.pc \in Started

\* A job that may start a process has one in hand.
InHand ==
  /\ \A j \in Jobs : hook[j].status \in {"unpromoted", "pending"} => starts[j] <= retries[j]
  /\ runner.pc \in Starting => starts[runner.job] <= retries[runner.job]
  /\ NothingIsReplayed

\* Every attempt but the first was asked for.
Numbered ==
  /\ \A j \in Jobs : retries[j] <= ops
  /\ \A j \in Jobs : hook[j].attempts <= retries[j] + 1
  /\ \A j \in Jobs : hook[j].status \in {"unpromoted", "pending"} =>
       hook[j].attempts <= retries[j]
  /\ runner.pc \in {"validate", "commit"} => runner.attempt <= retries[runner.job] + 1

\* The runner lives within the worker, and the worker within the server.
Nested ==
  /\ worker \in {"none", "startup"} => runner.pc = "off"
  /\ up = "down" => worker = "none"
  /\ up # "up" => ~mutating /\ ~backup
  /\ backup => up = "up" /\ paused /\ worker = "none" /\ ~mutating

\* Settings that differ from the saved ones wait for a restart.
Policy ==
  up # "down" /\ (~restartRequired \/ worker # "none") => mode = savedMode

\* The inductive invariant.
Inv == TypeOK /\ Claimed /\ InHand /\ Numbered /\ Nested /\ Policy
-----------------------------------------------------------------------------
(* Rows and counters                                                       *)

\* The bounds are numbers.
LEMMA BoundsAreNumbers == MaxFaults \in Nat /\ MaxOps \in Nat
BY PostPromotionAssumption DEF PostPromotionAssumption

\* A step spends at most one fault and one act.
LEMMA BudgetType ==
  ASSUME TypeOK, UNCHANGED bounds \/ Fault \/ Op
  PROVE  faults' \in 0 .. MaxFaults /\ ops' \in 0 .. MaxOps /\ ops <= ops'
BY BoundsAreNumbers DEF TypeOK, bounds, Fault, Op

\* A row that changes its status alone is a row.
LEMMA StatusType ==
  ASSUME TypeOK, NEW j \in Jobs, NEW s \in Statuses
  PROVE  [hook EXCEPT ![j].status = s] \in [Jobs -> Hooks]
BY DEF TypeOK, Hooks

\* So are the rows after a recovery.
LEMMA InterruptedType ==
  ASSUME TypeOK
  PROVE  /\ Interrupted \in [Jobs -> Hooks]
         /\ \A j \in Jobs : Interrupted[j].attempts = hook[j].attempts
         /\ \A j \in Jobs : Interrupted[j].status =
              IF hook[j].status = "running" THEN "interrupted" ELSE hook[j].status
BY DEF TypeOK, Interrupted, Hooks, Statuses

\* The runner goes to another place, and perhaps takes down an outcome.
LEMMA RunnerType ==
  ASSUME TypeOK, NEW label \in RunnerPcs, NEW o \in Outcomes
  PROVE  /\ At(label) \in Runners /\ EndsWith(o, label) \in Runners /\ NoClaim \in Runners
         /\ At(label).pc = label /\ EndsWith(o, label).pc = label /\ NoClaim.pc = "off"
         /\ At(label).job = runner.job /\ At(label).attempt = runner.attempt
         /\ EndsWith(o, label).job = runner.job
         /\ EndsWith(o, label).attempt = runner.attempt
<1>1. NoClaim \in Runners /\ NoClaim.pc = "off"
  BY BoundsAreNumbers DEF NoClaim, Runners, RunnerPcs, Outcomes, Attempts
<1>2. At(label) \in Runners /\ EndsWith(o, label) \in Runners
  BY DEF TypeOK, At, EndsWith, Runners
<1>3. /\ At(label).pc = label /\ At(label).job = runner.job
      /\ At(label).attempt = runner.attempt
  BY DEF TypeOK, At, Runners
<1>4. /\ EndsWith(o, label).pc = label /\ EndsWith(o, label).job = runner.job
      /\ EndsWith(o, label).attempt = runner.attempt
  BY DEF TypeOK, EndsWith, Runners
<1> QED
  BY <1>1, <1>2, <1>3, <1>4

\* The server has just started, or was left paused.
LEMMA InitInv == Init => Inv
<1> SUFFICES ASSUME Init PROVE Inv
  OBVIOUS
<1> USE BoundsAreNumbers DEF Init
<1>1. TypeOK
  <2>1. hook \in [Jobs -> Hooks]
    BY DEF Hooks, Statuses, Attempts
  <2>2. starts \in [Jobs -> Attempts] /\ retries \in [Jobs -> 0 .. MaxOps]
    BY DEF Attempts
  <2>3. runner \in Runners
    BY DEF NoClaim, Runners, RunnerPcs, Outcomes, Attempts
  <2>4. {paused, mutating, backup, marker, restartRequired} \subseteq BOOLEAN
    OBVIOUS
  <2>5. {mode, savedMode} \subseteq Modes
    OBVIOUS
  <2>6. worker \in {"none", "startup"}
    OBVIOUS
  <2>7. faults \in 0 .. MaxFaults /\ ops \in 0 .. MaxOps /\ procs \subseteq Processes
    OBVIOUS
  <2> QED
    BY <2>1, <2>2, <2>3, <2>4, <2>5, <2>6, <2>7 DEF TypeOK
<1>2. Claimed
  BY DEF Claimed, NoClaim, Working, Claiming
<1>3. InHand /\ Numbered
  BY DEF InHand, Numbered, NothingIsReplayed, NoClaim, Starting
<1>4. Nested /\ Policy
  BY DEF Nested, Policy, NoClaim
<1> QED
  BY <1>1, <1>2, <1>3, <1>4 DEF Inv

-----------------------------------------------------------------------------
(* The worker and its runner                                               *)

\* A promotion queues an action, or does not.
LEMMA PromoteInv ==
  ASSUME Inv, NEW j \in Jobs, Promote(j)
  PROVE  Inv'
<1> USE DEF Inv, Promote, runs, server, stored, bounds
<1>1. PICK s \in {"none", "pending"} :
        hook' = [hook EXCEPT ![j].status = s, ![j].kind = mode]
  OBVIOUS
<1>2. /\ hook' \in [Jobs -> Hooks]
      /\ \A k \in Jobs : hook'[k].attempts = hook[k].attempts
      /\ \A k \in Jobs : k # j => hook'[k] = hook[k]
      /\ hook'[j].status \in {"none", "pending"}
  BY <1>1 DEF TypeOK, Hooks, Statuses
<1>3. TypeOK'
  BY <1>2 DEF TypeOK
<1>4. Claimed'
  BY <1>2 DEF Claimed, Claiming, Working
<1>5. InHand' /\ Numbered'
  BY <1>2 DEF InHand, Numbered, NothingIsReplayed
<1> QED
  BY <1>3, <1>4, <1>5 DEF Nested, Policy

\* The worker starts its runner and ends after it.
LEMMA WorkerStepInv ==
  ASSUME Inv, WorkerStep
  PROVE  Inv'
<1> USE DEF Inv, WorkerStep, rows, server, stored, bounds
<1>r. runner' = runner
      \/ (runner.pc = "off" /\ runner' \in Runners /\ runner'.pc = "recover"
          /\ worker' = "loop")
  <2>1. At("recover") \in Runners /\ At("recover").pc = "recover"
    BY RunnerType DEF RunnerPcs, Outcomes
  <2> QED
    BY <2>1 DEF Nested
<1>1. TypeOK'
  BY <1>r DEF TypeOK
<1>2. Claimed'
  BY <1>r DEF Claimed, Working, Claiming, Started
<1>3. InHand' /\ Numbered'
  BY <1>r DEF InHand, Numbered, NothingIsReplayed, Starting
<1>4. Nested' /\ Policy'
  BY <1>r DEF Nested, Policy
<1> QED
  BY <1>1, <1>2, <1>3, <1>4

\* What every step of the runner leaves alone keeps its invariants.
LEMMA RunnerKeeps ==
  ASSUME Inv, runner.pc # "off", UNCHANGED <<retries, worker, stop, server, stored>>,
         UNCHANGED bounds \/ Fault,
         hook' \in [Jobs -> Hooks], procs' \subseteq Processes,
         starts' \in [Jobs -> Attempts], runner' \in Runners
  PROVE  /\ TypeOK' /\ Nested' /\ Policy'
         /\ \A j \in Jobs : retries'[j] <= ops'
<1> USE DEF Inv, server, stored
<1>1. TypeOK'
  BY BudgetType DEF TypeOK
<1>2. Nested' /\ Policy'
  BY DEF Nested, Policy
<1>3. \A j \in Jobs : retries'[j] <= ops'
  BY DEF Numbered, bounds, Fault
<1> QED
  BY <1>1, <1>2, <1>3

\* A step of the runner before or after the life of a claim.
LEMMA IdleStep ==
  ASSUME Inv, runner.pc \in {"recover", "idle", "validate", "commit", "finish"},
         UNCHANGED <<starts, procs, retries, worker, stop, server, stored>>,
         UNCHANGED bounds \/ Fault,
         hook' \in [Jobs -> Hooks], runner' \in Runners,
         runner'.pc \in {"off", "idle"},
         \A j \in Jobs :
           /\ hook'[j].attempts = hook[j].attempts
           /\ hook'[j].status \in {"unpromoted", "pending"} =>
                hook[j].status \in {"unpromoted", "pending"}
  PROVE  Inv'
<1> USE DEF Inv
<1>1. procs = {} /\ procs' = {}
  BY DEF Claimed, Started
<1>2. TypeOK' /\ Nested' /\ Policy' /\ \A j \in Jobs : retries'[j] <= ops'
  BY RunnerKeeps DEF TypeOK
<1>3. Claimed'
  BY <1>1 DEF Claimed, Working, Claiming
<1>4. InHand'
  BY DEF InHand, NothingIsReplayed, Starting
<1>5. Numbered'
  BY <1>2 DEF Numbered
<1> QED
  BY <1>2, <1>3, <1>4, <1>5

\* Recovery interrupts what was running.
LEMMA RecoverInv ==
  ASSUME Inv, Recover
  PROVE  Inv'
<1>1. runner' \in Runners /\ runner'.pc \in {"off", "idle"}
  BY RunnerType DEF Inv, Recover, RunnerPcs, Outcomes
<1>2. CASE hook' = Interrupted /\ UNCHANGED bounds
  BY <1>1, <1>2, InterruptedType, IdleStep DEF Inv, Recover
<1>3. CASE UNCHANGED hook /\ Fault
  BY <1>1, <1>3, IdleStep DEF Inv, TypeOK, Recover
<1> QED
  BY <1>2, <1>3 DEF Recover

\* The runner ends, or looks at a queued job.
LEMMA NextClaimInv ==
  ASSUME Inv, NextClaim
  PROVE  Inv'
<1> USE DEF NextClaim, rows, bounds
<1>1. CASE runner' = NoClaim
  BY <1>1, RunnerType, IdleStep DEF Inv, TypeOK, RunnerPcs, Outcomes
<1>2. CASE \E j \in Claimable :
             runner' = [pc |-> "validate", job |-> j, attempt |-> hook[j].attempts + 1,
                        outcome |-> "failed"]
  <2> USE DEF Inv
  <2>1. PICK j \in Jobs :
          /\ hook[j].status = "pending"
          /\ runner' = [pc |-> "validate", job |-> j, attempt |-> hook[j].attempts + 1,
                        outcome |-> "failed"]
    BY <1>2 DEF Claimable, With
  <2>2. /\ hook[j].attempts \in Nat /\ retries[j] \in 0 .. MaxOps
        /\ hook[j].attempts <= retries[j]
    BY <2>1 DEF TypeOK, Hooks, Attempts, Numbered
  <2>3. runner' \in Runners
    BY <2>1, <2>2, BoundsAreNumbers DEF Runners, RunnerPcs, Attempts, Outcomes
  <2>4. TypeOK' /\ Nested' /\ Policy' /\ \A k \in Jobs : retries'[k] <= ops'
    BY <2>3, RunnerKeeps DEF TypeOK
  <2>5. procs = {}
    BY DEF Claimed, Started
  <2>6. Claimed'
    BY <2>1, <2>5 DEF Claimed, Claiming
  <2>7. InHand'
    BY <2>1 DEF InHand, NothingIsReplayed, Starting
  <2>8. Numbered'
    BY <2>1, <2>2, <2>4 DEF Numbered
  <2> QED
    BY <2>4, <2>6, <2>7, <2>8
<1> QED
  BY <1>1, <1>2

\* The content is right, not ready, or wrong.
LEMMA ValidateInv ==
  ASSUME Inv, Validate
  PROVE  Inv'
<1> USE DEF Validate
<1>0. runner.job \in Jobs
  BY DEF Inv, Claimed, Working
<1>1. At("idle") \in Runners /\ At("idle").pc = "idle"
      /\ At("commit") \in Runners /\ At("commit").pc = "commit"
      /\ At("commit").job = runner.job /\ At("commit").attempt = runner.attempt
  BY RunnerType DEF Inv, RunnerPcs, Outcomes
<1>2. CASE runner' = At("idle") /\ UNCHANGED hook
  BY <1>1, <1>2, IdleStep DEF Inv, TypeOK
<1>3. CASE runner' = At("idle") /\ hook' = [hook EXCEPT ![runner.job].status = "failed"]
  <2>1. hook' \in [Jobs -> Hooks]
    BY <1>0, <1>3, StatusType DEF Inv, Statuses
  <2>2. \A j \in Jobs : hook'[j].attempts = hook[j].attempts
                        /\ (hook'[j].status = hook[j].status \/ hook'[j].status = "failed")
    BY <1>0, <1>3 DEF Inv, TypeOK, Hooks
  <2> QED
    BY <1>1, <1>3, <2>1, <2>2, IdleStep
<1>4. CASE runner' = At("commit") /\ UNCHANGED <<hook, bounds>>
  <2> USE <1>1, <1>4 DEF Inv
  <2>1. TypeOK' /\ Nested' /\ Policy' /\ \A k \in Jobs : retries'[k] <= ops'
    BY RunnerKeeps DEF TypeOK
  <2>2. Claimed'
    BY <1>0 DEF Claimed, Claiming, Started
  <2>3. InHand' /\ Numbered'
    BY <2>1 DEF InHand, NothingIsReplayed, Starting, Numbered
  <2> QED
    BY <2>1, <2>2, <2>3
<1> QED
  BY <1>2, <1>3, <1>4

\* A step of the runner that keeps its claim.
LEMMA ClaimKept ==
  ASSUME Inv, runner.pc \in Claiming, runner'.pc \in Claiming,
         UNCHANGED <<hook, retries, worker, stop, server, stored>>,
         UNCHANGED bounds \/ Fault,
         procs' \subseteq Processes, starts' \in [Jobs -> Attempts], runner' \in Runners,
         runner'.job = runner.job, runner'.attempt = runner.attempt
  PROVE  /\ TypeOK' /\ Nested' /\ Policy' /\ Numbered'
         /\ runner'.job \in Jobs
         /\ hook'[runner'.job].status = "running"
         /\ hook'[runner'.job].attempts = runner'.attempt
<1> USE DEF Inv
<1>1. /\ TypeOK' /\ Nested' /\ Policy'
      /\ \A j \in Jobs : retries'[j] <= ops'
  BY RunnerKeeps DEF TypeOK, Claiming
<1>2. Numbered'
  BY <1>1 DEF Numbered, Claiming
<1>3. runner.job \in Jobs /\ hook[runner.job].status = "running"
      /\ hook[runner.job].attempts = runner.attempt
  BY DEF Claimed, Claiming, Working
<1> QED
  BY <1>1, <1>2, <1>3

\* The claim is recorded.
LEMMA CommitClaimInv ==
  ASSUME Inv, CommitClaim
  PROVE  Inv'
<1> USE DEF CommitClaim
<1>0. runner.job \in Jobs /\ procs = {}
  BY DEF Inv, Claimed, Working, Started
<1>1. At("idle") \in Runners /\ At("idle").pc = "idle"
      /\ At("start") \in Runners /\ At("start").pc = "start"
      /\ At("start").job = runner.job /\ At("start").attempt = runner.attempt
  BY RunnerType DEF Inv, RunnerPcs, Outcomes
<1>2. CASE runner' = At("idle") /\ UNCHANGED hook /\ (UNCHANGED bounds \/ Fault)
  BY <1>1, <1>2, IdleStep DEF Inv, TypeOK
<1>3. CASE /\ hook[runner.job].status = "pending"
           /\ hook' = [hook EXCEPT ![runner.job].status = "running",
                                   ![runner.job].attempts = runner.attempt]
           /\ runner' = At("start") /\ UNCHANGED bounds
  <2> USE <1>0, <1>1, <1>3 DEF Inv
  <2>1. /\ hook' \in [Jobs -> Hooks]
        /\ hook'[runner.job].status = "running"
        /\ hook'[runner.job].attempts = runner.attempt
        /\ \A j \in Jobs : j # runner.job => hook'[j] = hook[j]
    BY DEF TypeOK, Hooks, Statuses, Runners
  <2>2. TypeOK' /\ Nested' /\ Policy' /\ \A k \in Jobs : retries'[k] <= ops'
    BY <2>1, RunnerKeeps DEF TypeOK
  <2>3. Claimed'
    BY <2>1 DEF Claimed, Started
  <2>4. InHand'
    BY <2>1 DEF InHand, NothingIsReplayed
  <2>5. Numbered'
    BY <2>1, <2>2 DEF Numbered
  <2> QED
    BY <2>2, <2>3, <2>4, <2>5
<1> QED
  BY <1>2, <1>3

\* The runner looks at the stop event.
LEMMA StartInv ==
  ASSUME Inv, Start
  PROVE  Inv'
<1> USE DEF Start, rows
<1>1. /\ runner' \in Runners /\ runner'.pc \in {"exec", "finish"}
      /\ runner'.job = runner.job /\ runner'.attempt = runner.attempt
  BY RunnerType DEF Inv, RunnerPcs, Outcomes
<1>2. /\ TypeOK' /\ Nested' /\ Policy' /\ Numbered' /\ runner'.job \in Jobs
      /\ hook'[runner'.job].status = "running"
      /\ hook'[runner'.job].attempts = runner'.attempt
  BY <1>1, ClaimKept DEF Inv, TypeOK, Claiming
<1>3. Claimed' /\ InHand'
  BY <1>1, <1>2 DEF Inv, Claimed, InHand, NothingIsReplayed, Starting, Started
<1> QED
  BY <1>2, <1>3 DEF Inv

\* The process starts, or cannot be started.
LEMMA ExecInv ==
  ASSUME Inv, Exec
  PROVE  Inv'
<1> USE DEF Exec
<1>0. /\ runner.job \in Jobs /\ procs = {}
      /\ starts[runner.job] <= retries[runner.job]
      /\ starts[runner.job] \in Nat /\ retries[runner.job] \in 0 .. MaxOps
  BY BoundsAreNumbers
     DEF Inv, Claimed, Working, Started, InHand, Starting, TypeOK, Attempts
<1>1. /\ runner' \in Runners /\ runner'.pc \in {"wait", "finish"}
      /\ runner'.job = runner.job /\ runner'.attempt = runner.attempt
  BY RunnerType DEF Inv, RunnerPcs, Outcomes
<1>2. CASE /\ procs' = procs \cup {[job |-> runner.job, attempt |-> runner.attempt]}
           /\ starts' = [starts EXCEPT ![runner.job] = @ + 1]
           /\ runner' = At("wait") /\ UNCHANGED bounds
  <2>1. /\ starts' \in [Jobs -> Attempts]
        /\ starts'[runner.job] = starts[runner.job] + 1
        /\ \A j \in Jobs : j # runner.job => starts'[j] = starts[j]
    BY <1>0, <1>2, BoundsAreNumbers DEF Inv, TypeOK, Attempts
  <2>2. procs' \subseteq Processes /\ runner'.pc = "wait"
    BY <1>0, <1>2, RunnerType DEF Inv, TypeOK, Runners, Processes, RunnerPcs, Outcomes
  <2>3. /\ TypeOK' /\ Nested' /\ Policy' /\ Numbered' /\ runner'.job \in Jobs
        /\ hook'[runner'.job].status = "running"
        /\ hook'[runner'.job].attempts = runner'.attempt
    BY <1>1, <1>2, <2>1, <2>2, ClaimKept DEF Inv, Claiming
  <2>4. Claimed'
    BY <1>0, <1>1, <1>2, <2>2, <2>3 DEF Claimed, Started
  <2>5. InHand'
    <3>1. hook[runner.job].status = "running"
      BY DEF Inv, Claimed, Claiming
    <3> QED
      BY <1>0, <2>1, <2>2, <3>1 DEF Inv, InHand, NothingIsReplayed, Starting
  <2> QED
    BY <2>3, <2>4, <2>5 DEF Inv
<1>3. CASE runner' = EndsWith("failed", "finish") /\ Fault /\ UNCHANGED <<procs, starts>>
  <2>1. /\ TypeOK' /\ Nested' /\ Policy' /\ Numbered' /\ runner'.job \in Jobs
        /\ hook'[runner'.job].status = "running"
        /\ hook'[runner'.job].attempts = runner'.attempt
    BY <1>1, <1>3, ClaimKept DEF Inv, TypeOK, Claiming
  <2>2. runner'.pc = "finish"
    BY <1>3, RunnerType DEF Inv, RunnerPcs, Outcomes
  <2> QED
    BY <1>0, <1>3, <2>1, <2>2
       DEF Inv, Claimed, InHand, NothingIsReplayed, Starting, Started
<1> QED
  BY <1>2, <1>3

\* The process ends, is stopped, or takes too long.
LEMMA WaitInv ==
  ASSUME Inv, Wait
  PROVE  Inv'
<1> USE DEF Wait, rows
<1>1. /\ runner' \in Runners /\ runner'.pc = "terminate"
      /\ runner'.job = runner.job /\ runner'.attempt = runner.attempt
  BY RunnerType DEF Inv, RunnerPcs, Outcomes
<1>2. /\ TypeOK' /\ Nested' /\ Policy' /\ Numbered' /\ runner'.job \in Jobs
      /\ hook'[runner'.job].status = "running"
      /\ hook'[runner'.job].attempts = runner'.attempt
  BY <1>1, ClaimKept DEF Inv, TypeOK, Claiming
<1>3. Claimed' /\ InHand'
  BY <1>1, <1>2 DEF Inv, Claimed, InHand, NothingIsReplayed, Starting, Started
<1> QED
  BY <1>2, <1>3 DEF Inv

\* Its process group is killed.
LEMMA TerminateInv ==
  ASSUME Inv, Terminate
  PROVE  Inv'
<1> USE DEF Terminate, rows
<1>1. /\ runner' \in Runners /\ runner'.pc = "finish"
      /\ runner'.job = runner.job /\ runner'.attempt = runner.attempt
  BY RunnerType DEF Inv, RunnerPcs, Outcomes
<1>2. procs' = {}
  BY DEF Inv, Claimed
<1>3. /\ TypeOK' /\ Nested' /\ Policy' /\ Numbered' /\ runner'.job \in Jobs
      /\ hook'[runner'.job].status = "running"
      /\ hook'[runner'.job].attempts = runner'.attempt
  BY <1>1, <1>2, ClaimKept DEF Inv, TypeOK, Claiming
<1>4. Claimed' /\ InHand'
  BY <1>1, <1>2, <1>3 DEF Inv, Claimed, InHand, NothingIsReplayed, Starting, Started
<1> QED
  BY <1>3, <1>4 DEF Inv

\* The outcome is recorded, or lost.
LEMMA FinishInv ==
  ASSUME Inv, Finish
  PROVE  Inv'
<1> USE DEF Finish
<1>0. runner.job \in Jobs /\ runner.outcome \in Outcomes
  BY DEF Inv, Claimed, Working, TypeOK, Runners
<1>1. runner' \in Runners /\ runner'.pc = "idle"
  BY RunnerType DEF Inv, RunnerPcs, Outcomes
<1>2. CASE UNCHANGED hook
  BY <1>1, <1>2, IdleStep DEF Inv, TypeOK
<1>3. CASE hook' = [hook EXCEPT ![runner.job].status = runner.outcome] /\ UNCHANGED bounds
  <2>1. hook' \in [Jobs -> Hooks]
    BY <1>0, <1>3, StatusType DEF Inv, Statuses, Outcomes
  <2>2. \A j \in Jobs : hook'[j].attempts = hook[j].attempts
                        /\ (hook'[j].status = hook[j].status \/ hook'[j].status \in Outcomes)
    BY <1>0, <1>3 DEF Inv, TypeOK, Hooks
  <2> QED
    BY <1>1, <1>3, <2>1, <2>2, IdleStep DEF Outcomes
<1> QED
  BY <1>2, <1>3

-----------------------------------------------------------------------------
(* Requests and the server                                                 *)

\* A step outside the worker that changes a row that is not running.
LEMMA RowStep ==
  ASSUME Inv, UNCHANGED <<runs, starts, up, worker, stored, mode>>,
         UNCHANGED bounds \/ Op,
         NEW j \in Jobs, NEW s \in Statuses,
         hook[j].status \notin {"pending", "running"} \/ runner.pc = "off",
         hook[j].status # "running", s # "unpromoted",
         hook' = [hook EXCEPT ![j].status = s],
         \/ UNCHANGED retries /\ s # "pending"
         \/ Op /\ retries' = [retries EXCEPT ![j] = @ + 1],
         {paused', mutating', backup'} \subseteq BOOLEAN, Nested'
  PROVE  Inv'
<1> USE DEF Inv, runs, stored
<1>1. /\ hook' \in [Jobs -> Hooks] /\ hook'[j].status = s
      /\ \A k \in Jobs : hook'[k].attempts = hook[k].attempts
      /\ \A k \in Jobs : k # j => hook'[k] = hook[k]
  BY StatusType DEF TypeOK, Hooks
<1>2. /\ retries' \in [Jobs -> Nat] /\ \A k \in Jobs : retries[k] <= retries'[k]
      /\ s = "pending" => retries'[j] = retries[j] + 1
      /\ \A k \in Jobs : retries'[k] <= ops'
  BY BoundsAreNumbers DEF TypeOK, Numbered, Op, bounds
<1>3. retries' \in [Jobs -> 0 .. MaxOps]
  BY <1>2, BudgetType, BoundsAreNumbers
<1>4. TypeOK'
  BY <1>1, <1>3, BudgetType DEF TypeOK
<1>5. \A k \in Jobs : starts[k] \in Nat /\ retries[k] \in Nat /\ retries'[k] \in Nat
                     /\ hook[k].attempts \in Nat
  <2> SUFFICES ASSUME NEW k \in Jobs
               PROVE  starts[k] \in Nat /\ retries[k] \in Nat /\ retries'[k] \in Nat
                      /\ hook[k].attempts \in Nat
    OBVIOUS
  <2>1. starts[k] \in 0 .. 1 + MaxOps /\ hook[k] \in Hooks /\ retries[k] \in 0 .. MaxOps
    BY DEF TypeOK, Attempts
  <2>2. hook[k].attempts \in 0 .. 1 + MaxOps
    BY <2>1 DEF Hooks, Attempts
  <2> QED
    BY <1>2, <2>1, <2>2, BoundsAreNumbers
<1>6. Claimed'
  BY <1>1 DEF Claimed, Claiming, Working
<1>7. InHand'
  BY <1>1, <1>2, <1>5, <1>6 DEF InHand, NothingIsReplayed, Starting, Claimed, Working
<1>8. Numbered'
  BY <1>1, <1>2, <1>5 DEF Numbered, TypeOK, Runners, Attempts, Claimed, Working
<1>9. Policy'
  BY DEF Policy
<1> QED
  BY <1>4, <1>6, <1>7, <1>8, <1>9

\* A step outside the worker that changes no row and no settings.
LEMMA ServerStep ==
  ASSUME Inv, UNCHANGED <<rows, runner, procs, mode, savedMode, restartRequired>>,
         UNCHANGED bounds \/ Fault \/ Op,
         up' \in {"down", "up", "stopping"},
         worker' \in {"none", "startup", "loop", "drain"},
         {stop', paused', mutating', backup', marker'} \subseteq BOOLEAN,
         Nested', Policy'
  PROVE  Inv'
<1> USE DEF Inv, rows
<1>1. TypeOK'
  BY BudgetType DEF TypeOK
<1>2. Claimed' /\ InHand'
  BY DEF Claimed, InHand, NothingIsReplayed
<1>3. Numbered'
  <2>1. ops <= ops' /\ ops \in Nat /\ ops' \in Nat
    BY BudgetType, BoundsAreNumbers DEF TypeOK
  <2>2. \A j \in Jobs : retries[j] \in Nat
    BY BoundsAreNumbers DEF TypeOK
  <2> QED
    BY <2>1, <2>2 DEF Numbered
<1> QED
  BY <1>1, <1>2, <1>3

\* Where an administrator's operation finds the server.
LEMMA LockedState ==
  ASSUME Inv, Lock
  PROVE  /\ up = "up" /\ ~backup /\ paused /\ worker = "none" /\ ~mutating
         /\ ~restartRequired /\ runner.pc = "off" /\ mode = savedMode
BY DEF Inv, Lock, Drained, Nested, Policy

\* A request is admitted.
LEMMA BeginMutationInv ==
  ASSUME Inv, BeginMutation
  PROVE  Inv'
<1> USE DEF BeginMutation, runs, stored
<1>1. Nested' /\ Policy'
  BY DEF Inv, Nested, Policy
<1> QED
  BY <1>1, ServerStep DEF Inv, TypeOK

\* It removes a job, or does nothing.
LEMMA EndMutationInv ==
  ASSUME Inv, EndMutation
  PROVE  Inv'
<1> USE DEF EndMutation
<1>1. Nested' /\ Policy'
  BY DEF Inv, Nested, Policy, runs, stored
<1>2. CASE UNCHANGED hook
  BY <1>1, <1>2, ServerStep DEF Inv, TypeOK, rows, runs, stored
<1>3. CASE \E j \in Jobs : /\ hook[j].status \in Removable
                           /\ hook' = [hook EXCEPT ![j].status = "removed"]
  <2>1. PICK j \in Jobs : /\ hook[j].status \in Removable
                         /\ hook' = [hook EXCEPT ![j].status = "removed"]
    BY <1>3
  <2>2. hook[j].status \notin {"pending", "running"} /\ "removed" \in Statuses
    BY <2>1 DEF Removable, Statuses
  <2>3. {paused', mutating', backup'} \subseteq BOOLEAN
    BY DEF Inv, TypeOK
  <2> QED
    BY <1>1, <2>1, <2>2, <2>3, RowStep DEF runs
<1> QED
  BY <1>2, <1>3

\* The controller is paused.
LEMMA PauseInv ==
  ASSUME Inv, Pause
  PROVE  Inv'
<1> USE DEF Pause
<1>1. Nested' /\ Policy'
  BY DEF Inv, Nested, Policy
<1> QED
  BY <1>1, ServerStep DEF Inv, TypeOK

\* The controller is resumed with the settings that were saved.
LEMMA ResumeInv ==
  ASSUME Inv, Resume
  PROVE  Inv'
<1> USE LockedState DEF Resume
<1>1. Nested' /\ Policy'
  BY DEF Inv, Nested, Policy
<1> QED
  BY <1>1, ServerStep DEF Inv, TypeOK, Lock

\* Settings are saved, for the next start.
LEMMA SaveSettingsInv ==
  ASSUME Inv, SaveSettings
  PROVE  Inv'
<1> USE LockedState DEF SaveSettings, rows, runs, server
<1>1. TypeOK'
  BY BudgetType DEF Inv, TypeOK, Lock
<1>2. Claimed' /\ InHand' /\ Nested' /\ Policy'
  BY DEF Inv, Claimed, InHand, NothingIsReplayed, Nested, Policy
<1>3. Numbered'
  <2>1. ops <= ops' /\ ops \in Nat /\ ops' \in Nat
    BY BudgetType, BoundsAreNumbers DEF Inv, TypeOK, Lock
  <2>2. \A j \in Jobs : retries[j] \in Nat
    BY BoundsAreNumbers DEF Inv, TypeOK
  <2> QED
    BY <2>1, <2>2 DEF Inv, Numbered
<1> QED
  BY <1>1, <1>2, <1>3 DEF Inv

\* An administrator's operation on a row that is not running.
LEMMA RowsByAdministrator ==
  ASSUME Inv, Lock, UNCHANGED <<starts, runs, server, stored>>
  PROVE  /\ UNCHANGED <<runs, starts, up, worker, stored, mode>> /\ Op
         /\ {paused', mutating', backup'} \subseteq BOOLEAN /\ Nested'
         /\ runner.pc = "off"
BY LockedState DEF Inv, TypeOK, Nested, Lock, runs, server, stored

\* An action is retried.
LEMMA RetryHookInv ==
  ASSUME Inv, NEW j \in Jobs, RetryHook(j)
  PROVE  Inv'
<1>1. hook[j].status # "running" /\ "pending" \in Statuses
  BY DEF RetryHook, Retryable, Statuses
<1> QED
  BY <1>1, RowsByAdministrator, RowStep DEF RetryHook

\* A copy is cancelled.
LEMMA CancelCopyInv ==
  ASSUME Inv, NEW j \in Jobs, CancelCopy(j)
  PROVE  Inv'
<1>1. hook[j].status # "running" /\ "cancelled" \in Statuses
  BY DEF CancelCopy, Statuses
<1> QED
  BY <1>1, RowsByAdministrator, RowStep DEF CancelCopy

\* A backup begins and ends.
LEMMA BackupInv ==
  ASSUME Inv, BeginBackup \/ EndBackup
  PROVE  Inv'
<1>1. CASE BeginBackup
  <2>1. Nested' /\ Policy'
    BY <1>1, LockedState DEF BeginBackup, Inv, Nested, Policy, runs, stored
  <2> QED
    BY <1>1, <2>1, ServerStep DEF BeginBackup, Inv, TypeOK, Lock, runs, stored
<1>2. CASE EndBackup
  <2>1. Nested' /\ Policy'
    BY <1>2 DEF EndBackup, Inv, Nested, Policy, runs, stored
  <2> QED
    BY <1>2, <2>1, ServerStep DEF EndBackup, Inv, TypeOK, runs, stored
<1> QED
  BY <1>1, <1>2

\* The server shuts down.
LEMMA ShutdownInv ==
  ASSUME Inv, Shutdown \/ ShutdownEnds
  PROVE  Inv'
<1>1. CASE Shutdown
  <2>1. Nested' /\ Policy'
    BY <1>1 DEF Shutdown, Inv, Nested, Policy, stored
  <2> QED
    BY <1>1, <2>1, ServerStep DEF Shutdown, Inv, TypeOK, stored
<1>2. CASE ShutdownEnds
  <2>1. Nested' /\ Policy'
    BY <1>2 DEF ShutdownEnds, Inv, Nested, Policy, runs, stored
  <2> QED
    BY <1>2, <2>1, ServerStep DEF ShutdownEnds, Inv, TypeOK, runs, stored
<1> QED
  BY <1>1, <1>2

\* The container dies.
LEMMA CrashInv ==
  ASSUME Inv, Crash
  PROVE  Inv'
<1> USE DEF Crash, rows, stored
<1>0. NoClaim \in Runners /\ NoClaim.pc = "off"
  BY RunnerType DEF Inv, RunnerPcs, Outcomes
<1>1. TypeOK'
  BY <1>0, BudgetType DEF Inv, TypeOK
<1>2. Claimed' /\ InHand' /\ Nested' /\ Policy'
  BY <1>0 DEF Inv, Claimed, InHand, NothingIsReplayed, Nested, Policy, Working, Claiming,
     Starting
<1>3. Numbered'
  BY <1>0 DEF Inv, Numbered, Fault
<1> QED
  BY <1>1, <1>2, <1>3 DEF Inv

\* The container starts.
LEMMA BootInv ==
  ASSUME Inv, Boot
  PROVE  Inv'
<1> USE DEF Boot, Inv, bounds
<1>0. runner.pc = "off" /\ worker = "none"
  BY DEF Nested
<1>1. TypeOK'
  BY InterruptedType DEF TypeOK
<1>2. Claimed' /\ Nested' /\ Policy'
  BY <1>0 DEF Claimed, Nested, Policy, Working, Claiming
<1>3. InHand' /\ Numbered'
  BY <1>0, InterruptedType DEF InHand, Numbered, NothingIsReplayed, Starting
<1> QED
  BY <1>1, <1>2, <1>3

\* Every step preserves the invariant.
LEMMA StepInv == Inv /\ [Next]_vars => Inv'
<1>1. ASSUME Inv, UNCHANGED vars
      PROVE  Inv'
  BY <1>1 DEF vars, rows, runs, server, stored, bounds, Inv, TypeOK, Claimed, InHand,
     NothingIsReplayed, Numbered, Nested, Policy
<1>2. ASSUME Inv, RunnerStep
      PROVE  Inv'
  BY <1>2, RecoverInv, NextClaimInv, ValidateInv, CommitClaimInv, StartInv, ExecInv,
     WaitInv, TerminateInv, FinishInv DEF RunnerStep
<1>3. ASSUME Inv, Next
      PROVE  Inv'
  BY <1>2, <1>3, PromoteInv, RetryHookInv, CancelCopyInv, WorkerStepInv, BeginMutationInv,
     EndMutationInv, PauseInv, ResumeInv, SaveSettingsInv, BackupInv, ShutdownInv,
     CrashInv, BootInv DEF Next
<1> QED
  BY <1>1, <1>3

-----------------------------------------------------------------------------
(* Theorems                                                                *)

\* The invariant holds in every reachable state.
THEOREM Invariance == Spec => []Inv
BY InitInv, StepInv, PTL DEF Spec

\* Rows, runner, server and files hold values of their types.
THEOREM TypeCorrect == Spec => []TypeOK
<1>1. Inv => TypeOK
  BY DEF Inv
<1> QED
  BY <1>1, Invariance, PTL

\* Whatever dies or is lost, a copy or script starts once, and once more for
\* each retry that was asked for.
THEOREM NoReplay == Spec => []NothingIsReplayed
<1>1. Inv => NothingIsReplayed
  BY DEF Inv, InHand
<1> QED
  BY <1>1, Invariance, PTL

\* A process runs alone and under its durable claim.
THEOREM ClaimsPrecedeProcesses == Spec => []ProcessesAreClaimed
<1>1. Inv => ProcessesAreClaimed
  BY DEF Inv, Claimed, ProcessesAreClaimed, Started, Claiming
<1> QED
  BY <1>1, Invariance, PTL

\* Every process was asked for and runs under the claim that says so.
THEOREM EveryProcessIsAskedFor == Spec => []ProcessesAreAskedFor
BY NoReplay, ClaimsPrecedeProcesses, PTL DEF ProcessesAreAskedFor

\* A drained controller runs nothing.
THEOREM DrainedMeansQuiet == Spec => []DrainedIsQuiet
<1>1. Inv => DrainedIsQuiet
  BY DEF Inv, Claimed, Nested, Drained, DrainedIsQuiet, Started
<1> QED
  BY <1>1, Invariance, PTL

\* A worker runs under the settings that are saved.
THEOREM WorkerFollowsPolicy == Spec => []PolicyIsSaved
<1>1. Inv => PolicyIsSaved
  BY DEF Inv, Policy, PolicyIsSaved
<1> QED
  BY <1>1, Invariance, PTL

\* Nothing changes a row under a backup.
THEOREM BackupsAreConsistent == Spec => BackupIsStill
<1>1. Inv /\ [Next]_vars => [backup => hook' = hook \/ ~backup']_vars
  <2> SUFFICES ASSUME Inv, Next, backup, backup'
               PROVE  hook' = hook
    OBVIOUS
  <2>1. up = "up" /\ paused /\ worker = "none" /\ ~mutating /\ runner.pc = "off"
    BY DEF Inv, Nested
  <2> QED
    BY <2>1 DEF Next, Promote, RetryHook, CancelCopy, Lock, WorkerStep, RunnerStep, Recover,
       NextClaim, Validate, CommitClaim, Start, Exec, Wait, Terminate, Finish,
       BeginMutation, EndMutation, Pause, Resume, SaveSettings, BeginBackup, EndBackup,
       Shutdown, ShutdownEnds, Crash, Boot, rows
<1> QED
  BY <1>1, Invariance, PTL DEF Spec, BackupIsStill

\* No step takes a cancelled copy up again.
LEMMA StepKeepsCancelled ==
  ASSUME Inv, Next, NEW j \in Jobs, hook[j].status = "cancelled"
  PROVE  hook'[j].status \in {"cancelled", "removed"}
<1> USE DEF Inv, TypeOK, Hooks
<1>1. CASE UNCHANGED hook
  BY <1>1
<1>2. CASE \E k \in Jobs : Promote(k) \/ RetryHook(k) \/ CancelCopy(k)
  BY <1>2 DEF Promote, RetryHook, CancelCopy, Retryable
<1>3. CASE hook' = Interrupted
  BY <1>3, InterruptedType
<1>4. CASE Validate \/ CommitClaim \/ Finish
  <2>1. runner.job \in Jobs
    BY <1>4 DEF Claimed, Working, Validate, CommitClaim, Finish
  <2> QED
    BY <1>4, <2>1 DEF Validate, CommitClaim, Finish
<1>5. CASE EndMutation
  BY <1>5 DEF EndMutation
<1> QED
  BY <1>1, <1>2, <1>3, <1>4, <1>5
     DEF Next, WorkerStep, RunnerStep, Recover, NextClaim, Start, Exec, Wait, Terminate,
     BeginMutation, Pause, Resume, SaveSettings, BeginBackup, EndBackup, Shutdown,
     ShutdownEnds, Crash, Boot, rows

\* A cancelled copy stays cancelled until its job is removed.
THEOREM CancelledStaysCancelled == Spec => CancelledIsFinal
<1> DEFINE Kept == \A j \in Jobs : hook[j].status = "cancelled" =>
                     hook'[j].status \in {"cancelled", "removed"}
<1>1. Inv /\ [Next]_vars => [Kept]_vars
  BY StepKeepsCancelled
<1> QED
  BY <1>1, Invariance, PTL DEF Spec, CancelledIsFinal
=============================================================================
