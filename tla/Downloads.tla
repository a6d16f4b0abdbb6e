------------------------------ MODULE Downloads ------------------------------
(***************************************************************************)
(* What Intake does with a job before its scan (app/service.py): it adds   *)
(* the torrent to qBittorrent, learns its hash, keeps local staging within *)
(* the free space, falls back to NAS storage, and queues the finished      *)
(* download for the scan.                                                  *)
(*                                                                         *)
(* The worker's management cycle passes over all jobs again and again; a   *)
(* handler submits, retries, moves or processes one job next to it.  Each  *)
(* of them looks at the row, at qBittorrent and at the disk, calls         *)
(* qBittorrent, and commits the attributes it changed.                     *)
(*                                                                         *)
(* Jobs are numbered in the order they were created.  A torrent that was   *)
(* added is not listed at once, and its size is known only with its        *)
(* metadata.  Sizes are counted in one unit.                               *)
(***************************************************************************)
EXTENDS Naturals, Sequences, FiniteSets, FiniteSetsExt

CONSTANTS
  Jobs,          \* their numbers
  Torrents,      \* info hashes
  Size,          \* of each torrent
  Capacity,      \* of the disk of the local staging root
  Buffer,        \* local_free_space_buffer_bytes
  Setups,        \* what may be submitted under which policy
  MaxFaults, MaxActs, \* bounds: failures of the surroundings; acts of an administrator
  None

ASSUME DownloadsAssumption ==
  /\ Jobs \subseteq Nat /\ IsFiniteSet(Jobs)
  /\ Size \in [Torrents -> Nat \ {0}]
  /\ Capacity \in Nat /\ Buffer \in Nat
  /\ None \notin Jobs /\ None \notin {"nas", "submit", "retry", "adopt", "evaluate", "move"}
  /\ Setups \subseteq [names : [Jobs -> Torrents], prefers : [Jobs -> {"local", "nas"}],
                       overflow : {"queue", "nas"}, max : Nat]

VARIABLES
  setup,      \* the torrents the jobs name, their staging preference, local_overflow_policy and local_max_bytes
  job,        \* the rows: state, qbt_hash, staging_actual, download_complete_at
  torrent,    \* qBittorrent's list
  nas,        \* the NAS storage and its marker are there
  session,    \* the worker's thread and a handler: what they read and are about to do
  removal,    \* history: whether somebody removed the torrent, while a session was at a job of it or not
  faults, acts

vars == <<setup, job, torrent, nas, session, removal, faults, acts>>
world == <<setup, nas, removal, faults, acts>>

Sessions == {"manager", "handler"}
T(j) == setup.names[j]

(***************************************************************************)
(* What a look at qBittorrent, the disk and the table shows.               *)
(***************************************************************************)
ScanStates == {"scan_queued"}              \* this and everything after it
Terminal == {"done", "error"}
Present(j) == job[j].state \notin {"none", "removed"}
Nonterminal(j) == Present(j) /\ job[j].state \notin Terminal

Listed(t) == torrent[t].phase \in {"metadata", "known"}
Tagged(j) == Listed(T(j)) /\ torrent[T(j)].tag = j
AmountLeft(t) == IF torrent[t].phase = "known" THEN torrent[t].left ELSE 0

\* Mutant: a torrent without its metadata has nothing left to download.
NothingLeft(t) == Listed(t) /\ AmountLeft(t) = 0

Complete(t) == torrent[t].phase = "known" /\ torrent[t].left = 0

\* What is left of a job's torrent; all of it if qBittorrent does not list it.
Remaining(j) == IF Listed(T(j)) THEN AmountLeft(T(j)) ELSE Size[T(j)]

OnDisk(t) ==
  IF torrent[t].phase = "known" /\ torrent[t].place = "local" THEN Size[t] - torrent[t].left ELSE 0
FreeBytes == Capacity - MapThenSumSet(OnDisk, Torrents)
SafeFreeBytes == IF FreeBytes > Buffer THEN FreeBytes - Buffer ELSE 0

LocalJobs ==
  {j \in Jobs : Nonterminal(j) /\ job[j].bound
                /\ setup.prefers[j] = "local" /\ job[j].actual = "local"}

\* Mutant: every torrent waits for every other.
AllOthers(j) == LocalJobs \ {j}

\* A paused job bound for the NAS needs no local space any more.
Before(j) ==
  {i \in LocalJobs : i < j /\ ~(job[i].state = "waiting_for_nas" /\ torrent[T(i)].on = "off")}

Untracked ==
  {t \in Torrents : Listed(t) /\ torrent[t].place = "local" /\ \A j \in LocalJobs : T(j) # t}

ReservedBefore(j) == MapThenSumSet(AmountLeft, Untracked) + MapThenSumSet(Remaining, Before(j))
CurrentRemaining(j) == IF j \in LocalJobs THEN Remaining(j) ELSE 0
Fits(j) == ReservedBefore(j) + CurrentRemaining(j) <= SafeFreeBytes
TooLarge(t) == torrent[t].phase = "known" /\ Size[t] > setup.max

\* Mutant: any number of jobs may follow one torrent.
NeverTracked(j) == FALSE

TrackedElsewhere(j) == \E i \in Jobs \ {j} : T(i) = T(j) /\ job[i].bound /\ Nonterminal(i)

(***************************************************************************)
(* Decisions.  Each names the calls to make; "keep" makes none.            *)
(***************************************************************************)
Waiting == {"waiting_for_local_space", "waiting_for_nas"}

\* Mutant: what runs is left running.
LeaveRunning(j, state) == IF state = "waiting_for_local_space" /\ Fits(j) THEN "resume" ELSE "keep"

\* _apply_local_staging_policy.
Policy(j, state) ==
  IF setup.prefers[j] # "local" \/ job[j].actual # "local" THEN "keep"
  ELSE IF state = "waiting_for_nas" \/ TooLarge(T(j)) THEN "move"
  ELSE IF CurrentRemaining(j) = 0 THEN "keep"
  ELSE IF Fits(j) THEN (IF state = "waiting_for_local_space" THEN "resume" ELSE "keep")
  ELSE IF setup.overflow = "nas" THEN "move"
  ELSE IF state = "waiting_for_local_space" /\ torrent[T(j)].on = "off" THEN "keep"
  ELSE "queue"

\* Mutant: a job comes back from the NAS only by itself.
StayAway(j) ==
  IF ~Listed(T(j)) /\ job[j].state = "done" THEN "keep"
  ELSE IF ~Listed(T(j)) \/ TrackedElsewhere(j) THEN "fail"
  ELSE IF job[j].actual = "nas" /\ ~nas THEN "hold"
  ELSE IF torrent[T(j)].on = "broken" THEN "fail"
  ELSE Policy(j, job[j].state)

\* _process_one for a job with a hash.
PassPlan(j) ==
  IF ~Listed(T(j)) /\ job[j].state = "done" THEN "keep"
  ELSE IF ~Listed(T(j)) \/ TrackedElsewhere(j) THEN "fail"
  ELSE IF job[j].actual = "nas" /\ ~nas THEN "hold"
  ELSE IF job[j].actual = "nas" /\ job[j].state = "waiting_for_nas" THEN "back"
  ELSE IF torrent[T(j)].on = "broken" THEN "fail"
  ELSE Policy(j, job[j].state)

\* retry_job for a torrent that is there.  Its row says "error" until the commit.
RetryPlan(j) ==
  IF TrackedElsewhere(j) \/ torrent[T(j)].on = "broken" THEN "fail" ELSE Policy(j, "retrying")

(***************************************************************************)
(* Sessions.                                                               *)
(***************************************************************************)
Idle == [phase |-> "idle", op |-> None, todo |-> {}, job |-> None, row |-> None,
         plan |-> None, seen |-> FALSE, write |-> << >>]

Blank == [state |-> "none", bound |-> FALSE, actual |-> None, complete |-> FALSE]
Absent == [phase |-> "absent", on |-> "off", left |-> 0, place |-> None, tag |-> None]

Init ==
  /\ setup \in Setups
  /\ job = [j \in Jobs |-> Blank]
  /\ torrent = [t \in Torrents |-> Absent]
  /\ nas = TRUE
  /\ session = [s \in Sessions |-> Idle]
  /\ removal = [t \in Torrents |-> "never"]
  /\ faults = 0 /\ acts = 0

Set(s, r) == session' = [session EXCEPT ![s] = r]
Fault == faults < MaxFaults /\ faults' = faults + 1
Act == acts < MaxActs /\ acts' = acts + 1

\* The next job of the list, or nothing more.
Rest(here, j) ==
  IF here.todo \subseteq {j} THEN Idle
  ELSE [Idle EXCEPT !.phase = "next", !.op = here.op, !.todo = here.todo \ {j}]

Opened(op, j, phase) ==
  [Idle EXCEPT !.phase = phase, !.op = op, !.todo = {j}, !.job = j, !.row = job[j]]

\* An UPDATE names the attributes that differ from what was read.
Changed(row, write) == [a \in {b \in DOMAIN write : write[b] # row[b]} |-> write[a]]

\* A row, or a write, with a write on top of it.
Over(write, row) ==
  [a \in DOMAIN write \cup DOMAIN row |-> IF a \in DOMAIN write THEN write[a] ELSE row[a]]

\* What is left of the session until its commit.
Committing(s, op, j, row, write) ==
  [Idle EXCEPT !.phase = "commit", !.op = op, !.todo = session[s].todo, !.job = j,
               !.write = Changed(row, write)]

Failed(op) == IF op = "retry" THEN [state |-> "error", complete |-> FALSE] ELSE [state |-> "error"]

\* The attributes the calls of a plan change.
Calls(plan) ==
  CASE plan = "queue"  -> [state |-> "waiting_for_local_space", actual |-> "local"]
    [] plan \in {"resume", "back"} -> [state |-> "downloading"]
    [] plan = "hold"   -> [state |-> "waiting_for_nas"]
    [] plan = "move"   -> IF nas THEN [state |-> "downloading", actual |-> "nas"]
                                 ELSE [state |-> "waiting_for_nas"]
    [] plan = "keep"   -> << >>

\* Mutant: a completed download is queued only if nobody saw it complete before.
QueueNew(row, seen, state) == IF seen /\ ~row.complete THEN "scan_queued" ELSE state

\* The state after _process_one looked at the completion.
QueueComplete(row, seen, state) ==
  IF (seen /\ ~row.complete) \/ (row.complete /\ state \in {"download_complete",
                                   "completion_event_received", "downloading"})
    THEN "scan_queued" ELSE state

Outcome(op, plan, row, seen) ==
  LET calls == Calls(plan)
      state == IF "state" \in DOMAIN calls THEN calls.state
               ELSE IF op \in {"retry", "adopt"} THEN "retrying" ELSE row.state
  IN CASE op = "pass" /\ (plan \in {"hold", "back"} \/ state = "waiting_for_nas") -> calls
       [] op = "pass" /\ ~(plan \in {"hold", "back"} \/ state = "waiting_for_nas") ->
            Over([state |-> QueueComplete(row, seen, state), complete |-> row.complete \/ seen], calls)
       [] op \in {"retry", "adopt"} /\ state \in Waiting ->
            Over([bound |-> TRUE, complete |-> FALSE], calls)
       [] op \in {"retry", "adopt"} /\ state \notin Waiting ->
            Over([state |-> IF seen THEN "download_complete" ELSE "downloading",
                  bound |-> TRUE, complete |-> seen], calls)
       [] OTHER -> calls

\* A job was looked at: go on with the calls, the commit, the error, or the next job.
Decide(s, op, j, plan) ==
  LET seen  == Complete(T(j))
      write == IF plan = "fail" THEN Failed(op) ELSE Outcome(op, plan, job[j], seen)
  IN Set(s, IF plan = "fail" /\ op = "adopt" THEN Idle
            ELSE IF plan \notin {"fail", "keep"}
              THEN [session[s] EXCEPT !.phase = "call", !.op = op, !.job = j, !.row = job[j],
                                      !.plan = plan, !.seen = seen]
            ELSE IF Changed(job[j], write) = << >> THEN Rest(session[s], j)
            ELSE Committing(s, op, j, job[j], write))

\* process_nonterminal_jobs.
BeginPass ==
  /\ session["manager"] = Idle /\ \E j \in Jobs : Nonterminal(j)
  /\ Set("manager", [Idle EXCEPT !.phase = "next", !.op = "pass",
                                 !.todo = {j \in Jobs : Nonterminal(j)}])
  /\ UNCHANGED <<world, job, torrent>>

\* _run_qbt_hash_retry_cycle.
BeginHashCycle ==
  LET unnamed == {j \in Jobs : job[j].state = "waiting_for_qbt_hash"}
  IN /\ session["manager"] = Idle /\ unnamed # {}
     /\ Set("manager", [Idle EXCEPT !.phase = "next", !.op = "hash", !.todo = unnamed])
     /\ UNCHANGED <<world, job, torrent>>

\* A row that is gone ends the cycle; the list is not read again for the others.
TakeNext(s) ==
  /\ session[s].phase = "next"
  /\ LET j == Min(session[s].todo)
         here == [session[s] EXCEPT !.job = j, !.row = job[j]]
     IN IF ~Present(j) THEN Set(s, Idle)
        ELSE IF session[s].op = "hash" THEN Set(s, [here EXCEPT !.phase = "resolve"])
        ELSE IF job[j].state \in ScanStates \/ (job[j].state = "waiting_for_nas" /\ ~job[j].bound /\ ~nas)
          THEN Set(s, Rest(session[s], j))
        ELSE IF ~job[j].bound
          THEN Set(s, [here EXCEPT !.phase = IF job[j].state = "waiting_for_nas" THEN "add" ELSE "resolve"])
        ELSE Decide(s, "pass", j, PassPlan(j))
  /\ UNCHANGED <<world, job, torrent>>

\* retry_job, _evaluate_staging_now or the adoption of a torrent that was there.
Look(s) ==
  /\ session[s].phase = "look"
  /\ LET j == session[s].job
         op == session[s].op
     IN IF ~Present(j) \/ (op = "evaluate" /\ ~Listed(T(j))) THEN Set(s, Idle)
        ELSE Decide(s, op, j,
               CASE op = "evaluate" -> Policy(j, job[j].state)
                 [] op = "retry" -> RetryPlan(j)
                 [] op = "adopt" -> IF torrent[T(j)].on = "broken" THEN "fail" ELSE Policy(j, "retrying"))
  /\ UNCHANGED <<world, job, torrent>>

(***************************************************************************)
(* Calls to qBittorrent that change something.                             *)
(***************************************************************************)
Paused(x) == IF x.on = "on" THEN [x EXCEPT !.on = "off"] ELSE x
Resumed(x) == [x EXCEPT !.on = "on"]
Relocated(x) == [x EXCEPT !.place = "nas"]

\* Mutant: the torrent is resumed where it is.
StagesInPlace(x, plan) ==
  IF x.phase = "absent" THEN <<x>>
  ELSE CASE plan \in {"queue", "hold"}  -> <<x, Paused(x)>>
         [] plan \in {"resume", "back"} -> <<x, Resumed(x)>>
         [] plan = "move" -> <<x, Paused(x), Resumed(x)>>

\* What the torrent is after each of the calls of a plan; storage is checked after the pause.
Stages(x, plan) ==
  IF x.phase = "absent" THEN <<x>>
  ELSE CASE plan \in {"queue", "hold"}  -> <<x, Paused(x)>>
         [] plan \in {"resume", "back"} -> <<x, Resumed(x)>>
         [] plan = "move" /\ ~nas -> <<x, Paused(x)>>
         [] plan = "move" /\ nas  -> <<x, Paused(x), Relocated(Paused(x)), Resumed(Relocated(x))>>

Call(s) ==
  LET here == session[s]
      j == here.job
      t == T(j)
      stages == Stages(torrent[t], here.plan)
  IN /\ here.phase = "call"
     /\ \/ /\ torrent' = [torrent EXCEPT ![t] = stages[Len(stages)]]
           /\ Set(s, Committing(s, here.op, j, here.row, Outcome(here.op, here.plan, here.row, here.seen)))
           /\ UNCHANGED faults
        \/ /\ Fault
           /\ \E k \in DOMAIN stages : torrent' = [torrent EXCEPT ![t] = stages[k]]
           /\ Set(s, IF here.op = "adopt" THEN Idle ELSE Committing(s, here.op, j, here.row, Failed(here.op)))
     /\ UNCHANGED <<setup, nas, removal, acts, job>>

\* A row that was removed meanwhile stays removed, and ends what is done with it.
Commit(s) ==
  LET here == session[s]
      j == here.job
  IN /\ here.phase = "commit"
     /\ IF ~Present(j) THEN Set(s, Idle) /\ UNCHANGED job
        ELSE /\ job' = [job EXCEPT ![j] = Over(here.write, @)]
             /\ CASE here.op \in {"retry", "adopt"} /\ "state" \in DOMAIN here.write
                       /\ here.write.state = "download_complete" ->
                       Set(s, [Idle EXCEPT !.phase = "requeue", !.job = j])
                  [] here.op = "move" ->
                       LET waiting == {i \in Jobs : job'[i].state = "waiting_for_local_space"}
                       IN Set(s, IF waiting = {} THEN Idle
                                 ELSE [Idle EXCEPT !.phase = "next", !.op = "pass", !.todo = waiting])
                  [] OTHER -> Set(s, Rest(here, j))
     /\ UNCHANGED <<world, torrent>>

\* _queue_completed_retry reads the row again.
Requeue(s) ==
  /\ session[s].phase = "requeue"
  /\ job' = IF job[session[s].job].state = "download_complete"
              THEN [job EXCEPT ![session[s].job].state = "scan_queued"] ELSE job
  /\ Set(s, Idle)
  /\ UNCHANGED <<world, torrent>>

(***************************************************************************)
(* Adding a torrent and learning its hash.                                 *)
(***************************************************************************)
\* A retry forgets the hash first.
Forgotten(op) == IF op = "retry" THEN [bound |-> FALSE, complete |-> FALSE] ELSE << >>

Add(s) ==
  LET here == session[s]
      j == here.job
      t == T(j)
      new == [phase |-> "added", on |-> "on", left |-> Size[t], place |-> here.row.actual, tag |-> j]
      Written(write) == Set(s, Committing(s, here.op, j, here.row, Over(write, Forgotten(here.op))))
  IN /\ here.phase = "add"
     /\ \/ \* StorageUnavailable
           /\ here.row.actual = "nas" /\ ~nas
           /\ Written(IF here.op = "pass" THEN Failed("pass") ELSE [state |-> "waiting_for_nas"])
           /\ UNCHANGED <<torrent, job, faults>>
        \/ \* TorrentAlreadyExistsError
           /\ here.row.actual = "nas" => nas
           /\ Listed(t)
           /\ CASE here.op = "submit" -> /\ job' = [job EXCEPT ![j] = [Blank EXCEPT !.state = "removed"]]
                                         /\ Set(s, Idle)
                [] here.op = "retry" /\ (\A i \in Jobs \ {j} : ~(T(i) = T(j) /\ Present(i) /\ job[i].bound)) ->
                     Set(s, [here EXCEPT !.op = "adopt", !.phase = "look"]) /\ UNCHANGED job
                [] OTHER -> Written([state |-> "error"]) /\ UNCHANGED job
           /\ UNCHANGED <<torrent, faults>>
        \/ \* a torrent that was added before and is not listed yet
           /\ here.row.actual = "nas" => nas
           /\ torrent[t].phase = "added"
           /\ Written([state |-> "error"])
           /\ UNCHANGED <<torrent, job, faults>>
        \/ /\ here.row.actual = "nas" => nas
           /\ torrent[t].phase = "absent"
           /\ torrent' = [torrent EXCEPT ![t] = new]
           /\ Set(s, [here EXCEPT !.phase = "resolve"])
           /\ UNCHANGED <<job, faults>>
        \/ \* the call fails, with or without effect
           /\ torrent[t].phase = "absent" /\ Fault
           /\ torrent' \in {torrent, [torrent EXCEPT ![t] = new]}
           /\ Written([state |-> "error"])
           /\ UNCHANGED job
     /\ UNCHANGED <<setup, nas, removal, acts>>

\* _resolve_hash_for_job: the torrent is known by the tag of the job.
Resolve(s) ==
  LET here == session[s]
      j == here.job
      found == Tagged(j)
      write == Over(IF found THEN [state |-> "downloading", bound |-> TRUE]
                             ELSE [state |-> "waiting_for_qbt_hash"], Forgotten(here.op))
  IN /\ here.phase = "resolve"
     /\ \/ /\ IF Present(j) THEN job' = [job EXCEPT ![j] = Over(Changed(here.row, write), @)] ELSE UNCHANGED job
           /\ Set(s, IF ~Present(j) THEN Idle
                     ELSE IF here.op \in {"pass", "hash"} THEN Rest(here, j)
                     ELSE IF found THEN [here EXCEPT !.op = "evaluate", !.phase = "look"] ELSE Idle)
           /\ UNCHANGED faults
        \/ /\ Fault
           /\ Set(s, IF here.op = "hash" THEN Rest(here, j)
                     ELSE Committing(s, here.op, j, here.row, Over([state |-> "error"], Forgotten(here.op))))
           /\ UNCHANGED job
     /\ UNCHANGED <<setup, nas, removal, acts, torrent>>

(***************************************************************************)
(* Requests.                                                               *)
(***************************************************************************)
Free(s) == s = "handler" /\ session[s] = Idle

\* submit_job: not for a torrent that qBittorrent lists.
Submit(s, j) ==
  /\ Free(s) /\ job[j].state = "none" /\ \A i \in Jobs : i < j => job[i].state # "none"
  /\ ~Listed(T(j))
  /\ job' = [job EXCEPT ![j] = [Blank EXCEPT !.state = "adding_to_qbt", !.actual = setup.prefers[j]]]
  /\ Set(s, [Opened("submit", j, "add") EXCEPT !.row = job'[j]])
  /\ UNCHANGED <<world, torrent>>

Retry(s, j) ==
  /\ Free(s) /\ Act /\ job[j].state = "error"
  /\ Set(s, Opened("retry", j, IF Listed(T(j)) THEN "look" ELSE "add"))
  /\ UNCHANGED <<setup, nas, removal, faults, job, torrent>>

MoveToNas(s, j) ==
  /\ Free(s) /\ Act /\ job[j].state \in Waiting
  /\ setup.prefers[j] = "local" /\ job[j].actual = "local" /\ job[j].bound
  /\ Set(s, [Opened("move", j, "call") EXCEPT !.plan = "move"])
  /\ UNCHANGED <<setup, nas, removal, faults, job, torrent>>

\* The torrent is left alone.
Delete(j) ==
  /\ Act /\ Present(j)
  /\ job' = [job EXCEPT ![j] = [Blank EXCEPT !.state = "removed"]]
  /\ UNCHANGED <<setup, nas, removal, faults, torrent, session>>

\* qBittorrent's callback: ingest_completion_event and process_job_immediately.  A job that
\* follows no torrent yet is left alone if another one follows this torrent.
Event(s, j) ==
  /\ Free(s) /\ Act /\ Tagged(j) /\ Complete(T(j))
  /\ Nonterminal(j) /\ job[j].state \notin ScanStates
  /\ job[j].bound \/ ~TrackedElsewhere(j)
  /\ job' = [job EXCEPT ![j].state = "completion_event_received", ![j].bound = TRUE]
  /\ Set(s, [Idle EXCEPT !.phase = "next", !.op = "pass", !.todo = {j}])
  /\ UNCHANGED <<setup, nas, removal, faults, torrent>>

(***************************************************************************)
(* qBittorrent, the storage, and what follows.                             *)
(***************************************************************************)
Becomes(t, x) == torrent' = [torrent EXCEPT ![t] = x]

List(t) ==
  /\ torrent[t].phase = "added"
  /\ Becomes(t, [torrent[t] EXCEPT !.phase = "metadata"])
  /\ UNCHANGED <<world, job, session>>

ReadMetadata(t) ==
  /\ torrent[t].phase = "metadata" /\ torrent[t].on = "on"
  /\ Becomes(t, [torrent[t] EXCEPT !.phase = "known"])
  /\ UNCHANGED <<world, job, session>>

\* On a full disk the torrent stops with an error.
Download(t) ==
  /\ torrent[t].phase = "known" /\ torrent[t].on = "on" /\ torrent[t].left > 0
  /\ Becomes(t, IF torrent[t].place = "local" /\ FreeBytes = 0
                  THEN [torrent[t] EXCEPT !.on = "broken"]
                  ELSE [torrent[t] EXCEPT !.left = @ - 1])
  /\ UNCHANGED <<world, job, session>>

\* The scan ends and the content leaves staging.
Finish(j) ==
  /\ job[j].state \in ScanStates
  /\ job' = [job EXCEPT ![j].state = "done"]
  /\ IF Listed(T(j)) THEN Becomes(T(j), [torrent[T(j)] EXCEPT !.place = "library"]) ELSE UNCHANGED torrent
  /\ UNCHANGED <<world, session>>

InUse(t) == \E s \in Sessions : session[s].job # None /\ T(session[s].job) = t

\* Somebody removes a torrent, its files are missing, or it is repaired.
Trouble ==
  /\ Fault
  /\ \E t \in Torrents : /\ Listed(t)
                         /\ \/ /\ Becomes(t, Absent)
                               /\ removal' = [removal EXCEPT ![t] = IF InUse(t) \/ @ = "busy" THEN "busy" ELSE "idle"]
                            \/ Becomes(t, [torrent[t] EXCEPT !.on = "broken"]) /\ UNCHANGED removal
  /\ UNCHANGED <<setup, nas, acts, job, session>>

Repair(t) ==
  /\ Act /\ torrent[t].on = "broken"
  /\ Becomes(t, Resumed(torrent[t]))
  /\ UNCHANGED <<setup, nas, removal, faults, job, session>>

NasGoes == nas /\ Fault /\ nas' = FALSE /\ UNCHANGED <<setup, removal, acts, job, torrent, session>>
NasReturns == ~nas /\ nas' = TRUE /\ UNCHANGED <<setup, removal, faults, acts, job, torrent, session>>

\* The process dies and is started again.
Crash ==
  /\ Fault /\ \E s \in Sessions : session[s] # Idle
  /\ session' = [s \in Sessions |-> Idle]
  /\ UNCHANGED <<setup, nas, removal, acts, job, torrent>>

SessionStep(s) == TakeNext(s) \/ Look(s) \/ Call(s) \/ Commit(s) \/ Requeue(s) \/ Add(s) \/ Resolve(s)

Next ==
  \/ BeginPass \/ BeginHashCycle \/ Trouble \/ NasGoes \/ NasReturns \/ Crash
  \/ \E s \in Sessions : SessionStep(s)
  \/ \E j \in Jobs : Delete(j) \/ Finish(j)
  \/ \E s \in Sessions, j \in Jobs : Submit(s, j) \/ Retry(s, j) \/ MoveToNas(s, j) \/ Event(s, j)
  \/ \E t \in Torrents : List(t) \/ ReadMetadata(t) \/ Download(t) \/ Repair(t)

Spec == Init /\ [][Next]_vars

\* The worker's loop begins a pass when it is due; every call returns, and with it
\* each session ends.
FairSpec ==
  /\ Spec
  /\ SF_vars(BeginPass)
  /\ \A s \in Sessions : []<>(session[s].phase = "idle")

(***************************************************************************)
(* Properties.                                                             *)
(***************************************************************************)
States == {"none", "removed", "adding_to_qbt", "waiting_for_qbt_hash", "downloading",
           "completion_event_received", "download_complete", "waiting_for_local_space",
           "waiting_for_nas", "scan_queued", "done", "error"}

\* Types of the variables.
TypeOK ==
  /\ setup \in Setups
  /\ removal \in [Torrents -> {"never", "idle", "busy"}]
  /\ job \in [Jobs -> [state : States, bound : BOOLEAN, actual : {None, "local", "nas"}, complete : BOOLEAN]]
  /\ \A t \in Torrents : torrent[t] \in
       [phase : {"absent", "added", "metadata", "known"}, on : {"on", "off", "broken"},
        left : 0 .. Size[t], place : {None, "local", "nas", "library"}, tag : {None} \cup Jobs]
  /\ \A s \in Sessions :
       /\ session[s].todo \subseteq Jobs /\ session[s].job \in Jobs \cup {None}
       /\ session[s].phase = "next" => session[s].todo # {}
       /\ session[s].phase \in {"idle", "next", "look", "call", "commit", "requeue", "add", "resolve"}
       /\ session[s].op \in {None, "pass", "hash", "submit", "retry", "adopt", "evaluate", "move"}
       /\ DOMAIN session[s].write \subseteq DOMAIN Blank

InTracking(j) == Nonterminal(j) /\ job[j].state \notin ScanStates

\* A job that says it is on the NAS has its torrent there, whatever call or commit of
\* a move failed and whatever a retry does next to it (_move_local_job_to_nas,
\* retry_job), unless somebody removed the torrent under a session's hands: a retry
\* that read the row before a move may then add it again where it was.
NasMeansNas ==
  \A j \in Jobs :
    /\ job[j].actual = "nas" /\ job[j].bound
    /\ Tagged(j) /\ removal[T(j)] # "busy"
    => torrent[T(j)].place # "local"

\* Only a complete download is queued for its scan, whatever passes, retries, callbacks
\* and crashes overtake one another (_process_one, retry_job, _queue_completed_retry),
\* as long as nobody removes the torrent: once it is recorded, a completion is believed
\* after the torrent was removed and added again, by another job or a retry.
QueuedIsComplete ==
  [][\A j \in Jobs :
       job'[j].state = "scan_queued" /\ job[j].state # "scan_queued" /\ removal[T(j)] = "never"
       => torrent[T(j)].phase # "absent" /\ torrent[T(j)].left = 0]_vars

\* No job waits for local space for ever while there is room for it, for every older
\* job and for the torrents of others: not all wait for one another
\* (process_nonterminal_jobs, _apply_local_staging_policy).
Demand(j) ==
  MapThenSumSet(AmountLeft, Untracked) + MapThenSumSet(Remaining, {i \in LocalJobs : i <= j})
RoomIsUsed ==
  \A j \in Jobs : []<>~( /\ job[j].state = "waiting_for_local_space" /\ Listed(T(j))
                         /\ CurrentRemaining(j) > 0 /\ Demand(j) <= SafeFreeBytes)

\* No job waits for the NAS for ever while it is there (_process_one).
NasIsUsed == \A j \in Jobs : []<>~(job[j].state = "waiting_for_nas" /\ nas)

\* No job waits for ever for space that is there, here or on the NAS.
WaitingEnds == RoomIsUsed /\ NasIsUsed

\* A local download that the free space no longer covers does not run for ever
\* next to the worker (_local_capacity_snapshot, _queue_local_job_for_space).
OverloadEnds ==
  \A j \in Jobs : []<>~( /\ InTracking(j) /\ j \in LocalJobs /\ torrent[T(j)].on = "on"
                         /\ CurrentRemaining(j) > 0 /\ ~Fits(j))

\* Two jobs do not follow one torrent for ever (_ensure_job_can_track_torrent).
DuplicatesEnd ==
  \A i \in Jobs : \A j \in Jobs \ {i} :
    []<>~( /\ T(i) = T(j)
           /\ InTracking(i) /\ job[i].bound /\ InTracking(j) /\ job[j].bound)

\* A job that follows a torrent does not overlook for ever that it is complete: it is
\* queued for its scan or stops with an error (_process_one).  A job that waits for
\* space, the NAS or its hash may: whoever wrote that state last did not see the end.
Following == {"completion_event_received", "download_complete", "downloading"}
CompletionIsSeen ==
  \A j \in Jobs : []<>~(job[j].state \in Following /\ job[j].bound /\ Complete(T(j)))
=============================================================================
