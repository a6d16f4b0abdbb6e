# Torrent Intake: a verification project

Torrent Intake takes magnet links and .torrent files, lets qBittorrent
download them into a staging directory, scans the finished content with
ClamAV, and moves what is clean to its final destination and what is not into
quarantine or to deletion. The modules in this directory model the parts of
`src/app` that decide this and state what keeps it correct. TLC checks
small instances; TLAPS proves the most important properties for every value
of the constants.

## The system

One process runs a FastAPI application and one asyncio task, `worker_loop`
(`worker.py`). The loop starts a thread per scan. HTTP handlers run in the
thread pool next to it, each with its own database session. State lives in an
SQLite database; everything else is lost in a crash. The ORM writes `UPDATE
... WHERE id = ?` with the attributes that changed and no condition on what
was read, so a handler or thread that waited for qBittorrent, the scanner or
the disk between its read and its commit may overwrite what happened since.

| Component | State | Operations | Modelled in |
|---|---|---|---|
| Scan queue (`scan_coordinator.py`, `worker.py`) | `jobs.state`, `scan_runs` (worker id, lease, backoff, failures, pause, verdict), `scanner_control` (slots, boost, maintenance), tasks of the loop | recover, claim, run, heartbeat, pause, resume, remove, boost, maintenance, stop | `ScanQueue` |
| Scan manifest (`scan_coordinator._prepare_manifest`, `run_claim`) | `scan_files` (fingerprint, status), root path, engine of the run | list, compare, reset, mark, record, finish | `ScanManifest` |
| Job tracking (`service.py`) | `jobs` from submission to `download_complete` | submit, resolve hash, completion event, management cycle, retry, delete | `Downloads`; its races with scans in `ScanQueue` |
| Post-scan actions (`service.py`) | `jobs.state`, `quarantine_path`, location and pause state in qBittorrent | promote, hold, quarantine, delete | `PostScan` |
| Post-promotion hook (`post_promotion.py`) | `jobs.hook_*`, a child process | queue, claim, run, finish, interrupt, retry, cancel | `PostPromotion` |
| Copy action (`copy_action.py`) | destination, private work, receipts, locks | copy, verify, link, record | `CopyAction` |
| Controller (`admin.py`, `main.py`) | pause marker, stop events, active mutations, restart marker | pause, resume, drain, lock, shutdown | `PostPromotion`; its effect on scans in `ScanQueue` |
| Restore (`restore.py`, `launcher.py`) | pending directory, database, settings, rollback copies | stage, apply, resume after a crash | `Restore`, `Installation` |
| Local staging (`service.py`, `storage.py`) | staging root of each job, free space | admit, wait, resume, move | `Downloads` |
| Scanner client (`scanner.py`, `media_tools.py`) | request slots, window pool of a file, media probe | scan, split, cancel, stop | `WindowScan`, `FileScan` |
| Archive helper (`archive_tools.py`) | helper process, workspaces, shared lock | extract, present, acknowledge, clean up | `ArchiveScan`, `FileScan` |
| qBittorrent client (`qbt.py`) | none of its own | list, add, pause, resume, move, delete | its calls in `Downloads` and `PostScan` |
| Guard, settings, pages, uploads, metainfo, events, ClamAV container | see `PROJECT.json` | | as guards, or not modelled |

What is hard, and at which line, is the list `hazards` of `PROJECT.json`. In
short: claims that outlive their lease, threads that outlive their claim,
handlers that decide on what they read before a wait, engines and contents
that change during a scan, requests that compete for slots and cancel one
another, helpers and calls that fail half-way, downloads that wait for one
another's space, and crashes between any two steps.

The modules follow a job through the system. `Downloads` takes it from its
submission to the scan queue, `ScanQueue` decides which thread scans it,
`ScanManifest` which files that thread scans, `FileScan` (with `WindowScan` and
`ArchiveScan`) how one file is scanned, `PostScan` where the content goes,
`PostPromotion` and `CopyAction` what runs on it afterwards; `Restore` is the
state of all of it over a restart. Each begins where the one before it ends:
`scan_queued` is the last state of `Downloads` and the first of `ScanQueue`, the
results of `FileScan` are what `RecordResult` of `ScanManifest` records, and
`scan_clean` and `scan_infected` are where `PostScan` starts.

## Downloads

The rows of the jobs, qBittorrent's list, the free space of the local staging
root, and whether the NAS is there. Two sessions work on them: the manager (the
worker's passes and its hash cycle) and a handler (a request or a callback). A
session reads the row, qBittorrent and the disk in one step, since it decides
on all of them at once; then it makes its calls, and then it commits:

| Code | Actions |
|---|---|
| `process_nonterminal_jobs`, `process_waiting_for_local_space` | `BeginPass`, `TakeNext` for each job of the list read at the start |
| `_run_qbt_hash_retry_cycle` | `BeginHashCycle`, `TakeNext`, `Resolve` |
| `_process_one` | `TakeNext` with `PassPlan`, `Call`, `Commit` |
| `submit_job`, `_add_job_to_qbt`, `_resolve_hash_for_job`, `_evaluate_staging_now` | `Submit`, `Add`, `Resolve`, `Look`, `Call`, `Commit` |
| `retry_job` | `Retry`, `Look` with `RetryPlan` or `Add`, `Call`, `Commit`, `Requeue`; `adopt` is its branch for a torrent that is there already |
| `move_waiting_job_to_nas` | `MoveToNas`, `Call`, `Commit`, then a pass over the waiting jobs |
| `ingest_completion_event`, `process_job_immediately` | `Event`, then `TakeNext` |
| `_local_capacity_snapshot` | `LocalJobs`, `Before`, `Untracked`, `ReservedBefore`, `CurrentRemaining` |
| `_apply_local_staging_policy` | `Policy` |
| `_move_local_job_to_nas`, `_queue_local_job_for_space`, `_resume_local_job_from_queue` | `Stages` (what the torrent is after each call), `Calls` (what the row becomes) |

A retry queues a job once its row, read again, says `download_complete`
(`Requeue`); a callback is ignored if its job follows no torrent yet and another
job follows this one (`Event`).

A failing call stops a plan after any of its stages. `Changed` is the ORM: a
commit writes the attributes that differ from what was read, over whatever
happened since (`Over`). A finished job whose torrent is gone is left as it is
(1258-1264); any other job fails then.

Abstractions. One unit of size; a download moves one unit at a time and stops
with an error on a full disk. A torrent is listed some time after it was added,
and its size is known with its metadata. The grace period of a completion event
is over when the event arrives, as `ingest_completion_event` arranges. A torrent
that vanished is counted with its size, where the code falls back to
`local_max_bytes` if it never learned one. `removal` is history: whether somebody
removed a torrent, and whether a session was at a job of it then. Rebinding to another hash, custom
tags, categories and several NAS locations are left out.

| Run | Instance | Shows |
|---|---|---|
| `downloads` | 2 jobs; two torrents with space for one at a time, one torrent larger than the space in two jobs, one torrent over the maximum in two jobs; 1 fault, 1 act | a row tells the truth about the NAS, and only complete downloads are queued; rooms, the NAS and completions are used when they are there; overloads and duplicates end |

Two jobs are the fewest that wait for one another or follow one torrent. The
three setups are the three ways out of a download that does not fit: waiting,
overflowing, and never being staged locally. One fault is a call that fails
between two others, a crash, a torrent that is removed or breaks, or a NAS that
goes; one act is a retry, a manual move, a removal, a callback or a repair. The
system may stop when both jobs are done, so deadlock is not looked for.
Fairness: the worker begins its passes again and again (`SF`, since a hash cycle
may take its turn), and every session ends, since each call has a timeout.
Nothing is assumed of downloads, of the NAS, of administrators or of the
hash cycle: every liveness property is of the form that the system does
not stay for ever where Intake itself could leave.

Both safety properties make an exception for torrents that somebody removes, and
both need it. `NasMeansNas`: a retry that finds no torrent adds it again at the
place its row had when it was read (service.py 317-325); if a move to the NAS
was under way when the torrent was removed, and commits afterwards, the row says
NAS and the torrent lies in local staging. `QueuedIsComplete`: a
pass believes the `download_complete_at` of the row and does not ask the torrent
again (1311-1314); only a retry empties it. When a torrent was complete, is
removed, and is added again, by another job that names it or by a retry that
has not committed yet, a pass that reaches the first job in between queues it on
the old completion. `run_claim` looks for the content and its fingerprints but
not for completeness, so an unfinished download would be scanned. For the second
a removal while Intake is idle is enough; the first needs it in the middle of a
session.

What else Intake may not notice: a pass that decided that a job waits for space
commits that over a completion which a callback recorded meanwhile. The next
pass finds nothing left to download, so nothing to resume, and
`waiting_for_local_space` is not among the states from which a completed
download is queued (service.py 1311, 1581): the job stays there until somebody
moves it to the NAS by hand. `CompletionIsSeen` is therefore about the states that
follow a download. In the same way a hash that was resolved by one session can be
covered by the `waiting_for_qbt_hash` of another, and a torrent that vanishes
before its hash is known leaves its job there. A retry of a job whose torrent
Intake itself had paused reports `downloading` without resuming it if it fits
(1591-1594). And only older jobs and untracked torrents are reserved for, not
all local downloads as README.md:880 has it.

## WindowScan, ArchiveScan and FileScan

`FileScan` is `scan_path`: the main thread of a file and where it stands
(`stage`). It is composed of two modules that know nothing of each other.

`WindowScan` has the requests to ClamD. All threads of all files take a slot of
one semaphore (`Acquire`, `GiveUp`), are answered or interrupted and give it back
(`Answer`, `Interrupted`). A large file has a pool: `Submit` makes the windows of
`large_media_window_ranges`, workers take them in their order (`Take`), `Judge`
does what `_scan_large_media_range` does with an answer, splitting a window
into halves that the same thread sends one after the other, and the main
thread collects the futures in any order (`Collect`) and concludes (`Outcome`).
Content is a size and a place of malware, and ClamD finds malware that lies whole
in what it was sent. The overlap promises that for pieces of up to
`Overlap + 1` bytes and nothing for longer ones, as README.md:91 says.

`ArchiveScan` has the helper process, its walk over the entries (`Extract`,
`ReadAck`, `EndOfWalk`), the two pipes, the workspace and the shared lock, and
`cleanup_archive_workspaces` of another controller (`StartClearing`,
`EndClearing`). A nested archive is its entry followed by its members one level
deeper. What libarchive finds unreadable, encrypted, mismatched or too large is a
`bad` entry; that it ends early is `EndOfWalk` before the last entry, which
the entries declared in a RAR's headers expose. A ZIP is read by its
directory, and its end is trusted.

`FileScan` adds the rest: routing by size and kind, the fallback after a limit,
the probe, the attachments, and a member of an archive, for which the main thread
goes through `scan_path` again (`outer` keeps the archive meanwhile). The file may
be changed once at any time; a stop or a lost lease is `stopping`. The deadline
is a `broken` answer or a failing step that is always possible. A member is the
smallest file that is infected or not (`Member`): it goes through `scan_path`
again but is sent whole, so that windows and attachments are tried in files of
their own only, not inside an archive. Left out:
health check and policy fingerprint (in `ScanManifest` as the engine), the text of
a chapter track (scanned like an attachment), and messages.

| Run | Instance | Shows |
|---|---|---|
| `file_scan` | one file of every kind: sizes 1, 5 and 6 with windows of 3, overlap 1, minimum 2; 2 workers, 1 slot; archives with nesting, limits and bad entries; a change, a stop, a death | clean means covered, slots are kept, cancellation is explained, nothing is missed or left, scans and helpers end |

Size 6 gives three windows for two workers, each of which splits into two halves
that do not split again; every place of malware of two bytes is tried. Three
entries, two levels and three expanded members are the limits, and archives
that reach each of them are among the inputs. More files than one only share the
slots; `SlotsAreKept` proves that for any number. Fairness: threads and the
helper run, each request ends by its answer or its deadline, a controller that
clears comes to its end. None for changes, stops, deaths, or the start of a
clearing.

## ScanQueue

The rows of `jobs`, `scan_runs` and `scanner_control`, the loop, the threads
and the handlers. `pc[j][i]` is the thread that was started for the claim with
worker id `i` of job `j`; a claim and a thread are related only by that id, as
in the code. One step is a stretch of code without a call to qBittorrent, the
scanner or the disk. Where two such stretches follow each other and another
actor can come between, they are two actions:

| Code | Actions |
|---|---|
| `worker_loop` | `Startup`, `BeginCycle`, `SpawnClaim`, `EndCycle`, `SchedulerCycleFails`, `Drained` |
| `claim_jobs` | `RecoverScans`, `ReadControl`, `CountScans`, `ClaimJob` per job, `EndClaims` |
| `process_nonterminal_jobs`, `_process_one` | `ManageRead`, `ManageCommit` |
| `run_claim` | `Enter`, `Prepare`, `CheckRequests`, `MarkScanning`, `Recheck`, `RecordResult`, `ReportInfected`, `Finish`, `Heartbeat`, `RaiseError` |
| `_pause_job`, `_resume_job`, `_bulk_apply` | `ReadForPause`, `ReadForResume`, `CommitRequest` |
| `ingest_completion_event`, `process_job_immediately` | `CallbackRead`, `CallbackCommit` |
| time | `BackoffElapses`, `LeaseExpires` (a fault while the thread lives, a fact when it does not) |
| process | `RequestStop`, `Crash`, `Restart` |

Abstractions. Files are counted. The queue order is open: `ClaimJob` takes any
claimable job, which covers every priority. Three worker ids per job suffice,
since an id is reused only when neither a row nor a thread has it. One pause or
resume handler and one callback are in flight at a time.

Claims and leases. `recover_interrupted_scans` takes back what is over by its own
clock (line 112) and commits; `claim_jobs` then reads another clock and the
control row (156-158), asks clamd, and counts the scans that are held by that
second clock (162-172). Leases end, are renewed, and slots change between these
steps, so they are three actions; `todo` keeps, between the second and the third,
which leases stood when the second clock was read. A lease that ran out stays
`expired` until the heartbeat of a thread that still holds the run renews it,
and is `revived` from then until the next count. Hence `SlotsRespected` is about
the scans whose lease did not lapse since they were claimed or last counted
(`NeverLapsed`). Without that restriction it is false of the code: a lease that ends
between the two clocks is neither taken back nor counted, its slot is given away,
the old thread's heartbeat revives it, and one scan more than the slots runs until
one of them ends.

Results and the run. `run_claim` asks whether it still holds the run and then
writes without asking again, so what lies between decides what a thread that
lost its run can still write. Nothing lies between for a clean file and for every
exception handler. Three places have a call in between, and `FencedWrites` admits
what they write: the engine of the run after the health check, and the mark and
the lease of the next file after the look at the disk (325-327, 371-385:
`MarkScanning`); the infected verdict after `emit_event` wrote and synced its
file (437-449: `ReportInfected`); and the clean verdict after qBittorrent's last
answer (`Finish`). Each of the verdicts was reached under the run. What it
excludes is everything else: that such a thread queues, pauses, fails or releases
the job, or counts its files.

Runs:

| Run | Instance | Shows |
|---|---|---|
| `queue_safety` | 2 jobs, none large, 2 slots (1 by default), 1 fault, 2 requests | one runner per job, fenced writes, backed verdicts; the management cycle misses running scans |
| `queue_live` | 2 large jobs, 2 slots (1 by default), 1 large scan, 1 fault, 1 request or stop | slots and the limit of large scans; jobs are decided and none is left in scanning; a shutdown completes |
| `queue_pause`, `queue_callback`, `queue_paused_edit` | 2 jobs, 1 large, 1 fault (none for the callback), 1 request | the three divergences at the end of this document |

Two jobs are the fewest that compete for a slot, yield to each other and are
managed while the other is scanned; two requests are a pause and the resume that
undoes it, a callback between them, or a boost and its end. One fault loses a
claim or the process, after which the job is claimed again next to what is left
of the first thread; the theorems hold for any number of both. One file per
torrent passes through every branch of the loop; `ScanManifest` has the rest. In
`queue_safety` the jobs are interchangeable, so TLC takes them up to symmetry; its
properties do not depend on sizes. In `queue_live` both are large, with one slot by default and two
while it is boosted: a boost makes a slot free that the limit for large scans
still withholds, is taken back when the queue is empty, and may come or go
between the steps of a claim. `SlotsAreRespected` proves both limits for any
number of jobs and slots.

Fairness, in `FairSpec`: the loop runs and the container is restarted (`LoopStep`
or `Restart`: it catches what a cycle raises), the thread of a job takes its next
step (each of its calls has a timeout, in `qbt_request_timeout` and the scanner's
deadlines, and `OneRunnerPerJob` says that there is only one), handlers in flight
return, and for each job a backoff elapses and the lease of a claim nobody works
for runs out. Where two actions share a condition, neither stops being possible but
by its own step, a request or a fault. No fairness for requests, callbacks, faults or the
yield. `QueuedJobsAreDecided` makes an exception for a job that is paused or a
scanner in maintenance, which waits in `scan_pending` then, and not in `scanning`.

## ScanManifest

One job, its rows in `scan_files` and its run, with the disk, the content path
and the engine changing at any time. A fingerprint (size, times, device, inode)
is one number that a file never has twice; the engine number stands for engine
and policy version. `Detected` says which version of which file which engine
finds fault with, without any order: an engine may miss what an older one
found. `ScanQueue` shows how a thread loses its run; here `TakeBack`,
`QueueJob` and `Crash` take it (`owns`). The walks through the disk and their
commit are separate (`Walk`, `CommitManifest`), as are the health check
(`NextRound`), the marking of a file (`PickFile`), its result (`RecordResult`,
under any engine between the health check and now), the commit of a finding after
its event (`ReportInfected`) and the verdict (`Finish`). The last two do not look
at the run again. `QueueJob` is a retry of a failed job, or a late callback over
the scan or its verdict. It leaves rows and count as they are, so that a job that was
found infected waits in the queue with its finding still counted until the next
manifest: `ProgressIsExact` therefore says that the count is the number of files
with a result, checkpoints and findings, and that it never says more or less.

`NoMalwarePasses` is the gate of the whole system. It speaks of the disk as the
last walk met it: the code looks at the content path once more, but not at the
content, so what changes after that walk is outside what it promises.
The run `manifest` has two files, two contents, two engines, three changes and
one fault: enough to replace a file that was scanned, upgrade the engine and
move the content in one behaviour, and to let the scan fail on top. Fairness
(for `ScanDecides`) is that of the loop, the thread and the recovery.

## PostScan

One job whose scan has just ended, its torrent, and the places its content lies
in. `scan_clean` and `scan_infected` are where `ScanQueue` leaves a job; here
`process_scan_actions` takes it to an end state. The scheduler passes over it
again and again, and a pass is five actions: `Begin` selects and marks it,
`Fetch` is the last answer of qBittorrent the pass decides on, `Act` (one of
`PromoteStep`, `HoldStep`, `DeleteStep`, `QuarantineStep`) tests the guards and
makes at most one call that changes something, `Send` follows the commit of a
quarantine directory, and `Record` follows the resume of a promoted torrent.
`seen` is the answer and `torrent` the truth. `Call` may raise with or without
having taken effect, which is a timeout before or after qBittorrent acted.
`MoveEnds` and `FilesGo` are the moves and deletions qBittorrent works off on
its own, `Operator` is what somebody does in its page, in Intake's job list or
in the settings.

Abstractions. A place is staging, the destination, the quarantine directory
recorded for the job, or elsewhere. The guards of `torrent_guard.py` that a
missing tag, category or mount fails are a call that raises before it takes
effect. Categories and events are left out. `meddled` is a history variable:
somebody interfered between the fetch and now, and then `seen` was out of date.
`touched` is another: somebody acted on the torrent in qBittorrent. A change of the
infection action touches nothing, so `InfectedIsConfined` covers a job that is half
quarantined when it is to be held or deleted instead.

| Run | Instance | Shows |
|---|---|---|
| `post_scan` | all infection actions, 3 faults, 3 acts of an operator | end states say what is so; infected content is confined; every decided job reaches its end |

Three faults are a call that took effect unseen, a crash, and a move given up,
in one behaviour. The end states are qualified by `meddled`, since Intake
cannot see what happens between an answer and its own commit; the deletion is
not, since nobody puts a deleted torrent back. `ActionsEnd` leaves out what
Intake deliberately leaves to a person (`NeedsOperator`), and only when
somebody interfered. Fairness is that of the scheduler and of qBittorrent.

## PostPromotion

The copy or script that runs for a promoted job, the runner that claims and
starts it, the worker loop it belongs to, and the controller that pauses,
drains, locks, shuts down and boots all of them. What matters is that a process
is started at most once for each time somebody asked for it: what it does
cannot be undone. The order in the code is: commit `running` with a new attempt
number (`CommitClaim`), look at the stop event (`Start`), create the process
(`Exec`), wait, kill the group (`Terminate`), write the outcome if the row is
still that attempt (`Finish`). Each of these awaits something, so a pause, a
handler or a crash may come before each of them. `Boot` and the start of the
runner mark whatever is still `running` as interrupted and never start it
again.

Handlers without an await are one step. Those of an administrator (`Lock`) hold
the operation lock and need a drained controller without a pending restart; the
backup awaits a thread, so it is two steps. One ordinary mutating request is in
flight at a time and stands for the removal of a job, the one that touches the
columns of a hook. `Drained` is the answer the page polls.

Abstractions. The walk of `_validate` is its three results. The due time of a
claim that was not ready is open. Processes of a script that leave its group are
not counted, since the code cannot see them either; what they do to the runner,
holding the output open and making a success a failure, is in `Terminate`.
Output and event rows are left out. `starts` and `retries` are history.

| Run | Instance | Shows |
|---|---|---|
| `hook` | 2 jobs, copy, script or nothing, 2 faults, 4 acts | no replay, claims before processes, quiet drains, still backups, final cancellations, saved policy; a pause drains; queued actions run |

Four acts are a pause, a change of settings, a second pause after the boot that
takes them up, and a retry; crashes are faults. The second job is the one
that waits in the queue while the first runs. Fairness: the event loop runs,
requests return, and the container is restarted after it dies. A process may
never exit, but `Wait` ends by the timeout of the settings or the stop event.

## Restore

A backup is validated and renamed to `.restore-pending` (`Stage`); at the next
start the launcher installs it before it executes the server. Every durable
effect of `apply_pending_restore` is an action, so that `Stop` can come between
any two of them: the marker that pauses automation (`WritePauseMarker`), the
copy of each present file into the rollback directory (`SavePrevious`), the
note that this is done (`MarkSaved`), the checkpoint of the old write-ahead log
(`FoldLog`), the replacement of database, settings and notes (`CopyFile`), the
record, and the rename that completes it. `Check` is where a try starts over.
A content is the number of the backup it comes from and of the last edit, and
`Now` is what SQLite would read: the log, when there is one, hides the
database. Files that refuse a restore (hashes, free space, links) are steps that
do not happen, which is a failing step; a pause is taken as drained, since
`PostPromotion` shows that. Launcher and server also write the settings of their
environment into `settings.json` (`persist_settings`, launcher.py:33 and, before
its guard, main.py:69). That is taken as data: the model's settings stay the edit
or the backup they were, and that this rewrite keeps what was restored is not
shown.

`Installation` says what a restore is for somebody who does not look inside: an
installation is one value, replaced as a whole while no server runs, and each
one that was replaced is kept as it was. `RestoreIsAtomic` maps the files, the
rollback directories and the progress of the launcher to it. As long as the
rollback is not complete the mapped installation is what lies on disk; from then
on it is what was saved, until the restore completes. A server that is
started around the launcher is in the model (`Launch`), with the guard of
`lifespan`.

| Run | Instance | Shows |
|---|---|---|
| `restore` | 2 restores, 2 edits, 2 faults | the refinement; a restored controller waits for an operator; a restore ends |

Two restores, because the second finds the rollback and the record of the first;
two edits, because one may be in the log when the other is in the settings; two
faults, because a try that starts over can die where the first one did. Fairness
of `RestoreEnds`: the container is restarted, and a server that waits for a
restore is stopped by somebody.

## CopyAction

What the hook of `PostPromotion` runs: the promoted content of a job is copied
to the path that the rules map it to. Attempts of one job or of several that are
mapped to one path interleave (`Runners` are processes). `Begin` lists the
source, `Lock` takes the job's lock or gives up, `Look` reads the receipt and
the destination. From there an attempt goes one of three ways: the receipt
matches (`Match`); the content that lies there is read and compared (`Compare`,
`Confirm`); or the destination is free, and a directory is reserved by creating
it and filled in place (`ReserveDirectory`, `TransferDirectory`), a file prepared
in private and linked (`ReserveFile`, `TransferFile`, `Link`), both checked
before (`Check`) and after (`Confirm`). `Publish` writes the receipt, `Report` is
the end with success that may not come after it. `Kill` ends
an attempt anywhere, with all it knows and with its lock, as the system does
when a hook times out or Intake is paused.

A snapshot names inodes and change times, so that what it describes never comes
back once it was changed. It is therefore a flag, true until the next change,
of the attempt that took it (`src`, `dst`) and of the receipt. The comparison is
one step: a change while it reads is seen by the second listing, as is a change
just before. A guard that refuses (mounts, markers, aliases, links) is `Kill`.
A person changes the source at any time, and the destination whenever no
attempt is writing there; the repository's README.md asks to keep it unchanged
during a copy (709-710), and a finished but altered file would be taken for the
copy.

| Run | Instance | Shows |
|---|---|---|
| `copy` | 2 jobs, 2 processes, a file or a directory of 2, 1 change, 1 death | nothing is replaced; success stands for equal content; copies end |

Two jobs with two processes is where a path is wanted twice, and also where one
job is tried twice. One death leaves a reservation, a partial directory, or a
result without a receipt; one change moves it aside, or makes a snapshot stale.
Fairness: an attempt that runs takes its steps, and somebody retries a
job, which in Intake is an administrator's decision. `CopiesEnd` says of the
retries that they succeed if the destination is free or equal again and again.

## What is proved

`ScanQueueProofs` proves eight theorems for any finite set of jobs, any
limits, any number of faults and requests. The inductive invariant `Inv` adds
to the properties what makes them inductive: `FileCounts` (a file being
scanned is not yet counted as done, and a thread about to finish saw none
left), and `LoopPhases` (a decision of the management cycle is in flight only
during that cycle, an issued claim only between claiming and spawning). From
it follow `OneRunner`, `ScansAreLeased`, `VerdictsAreBacked`, `ManagementIsApart`,
`ShutdownIsQuiet` and, as a property of steps, `WritesAreFenced`, where every step of a thread
is taken for a claim that does not hold the run. `SlotsAreRespected` has an
invariant of its own, `SlotInv`: while claims are made, the scans whose lease never
lapsed since the count and the claims still available are together within the limit that was
read, and so are the large ones and theirs; between the count and the claims a lease can only
lapse. Assumptions are those of `ConstantsAssumption`.

`ScanManifestProofs` proves `MalwareNeverPasses`, `CheckpointsAreKept` and
`ProgressStaysExact` for any files, contents, engines and detections. The argument of the first: a clean
row is flawless for the engine of the run unless a newer engine than that is
installed (`Checkpoints`); the health check of a round either sees the newer
one, and resets, or shows that there is none, so that from there to the verdict
all checkpoints are flawless (`Settled`); the last walk puts every file that
has no such row back (`Carried`), and a decided job has no thread that could
go on (`Decision`). The count of the third grows with a file that had no
result yet (`Read`, for a clean file and for a finding that is being reported), is taken anew
with every manifest (`FilesCounted`), and is left alone, like the rows, by a callback that
queues a decided job again.

`PostScanProofs` proves the two safety properties for any set of actions and
any number of faults and meddles, changes of the action halfway among them. Its invariant: `Whole` (a torrent on the list
has all its content where it says), `Tasked` (a pass works at the task of the
verdict, through every change of the job's state) and `Fetched` (a torrent
nobody touched can differ from the answer only while it moves, and before
`done` is recorded it seeds at its destination).

`PostPromotionProofs` proves all six safety properties for any set of jobs. Its
invariant: `Claimed` (a runner past its claim has a row that is running under
its attempt number, and the only process is its), `InHand` (a job that may
start a process has a start in hand; `NothingIsReplayed` is part of it),
`Numbered` (the same for the attempts in the row), `Nested` (the runner lives
inside its worker loop, that one inside the server, a backup inside a drained
controller) and `Policy` (settings on disk differ from those in use only while
a restart is required and no worker runs).

`RestoreProofs` proves that `Restore` implements `Installation`, and that a
restored controller waits for an operator, for any number of restores, edits and
failures. Its invariant: `Kept` (nothing is replaced before all of the previous
installation is saved, and nothing saved afterwards), `Replaced` (files behind
the launcher's position hold the backup, and the log is gone before the first is
replaced) and `Marked`. The launcher's steps map to stutters but for the last,
which is `Install`.

`CopyActionProofs` proves the two safety properties, and that a receipt whose
snapshots still hold stands for equal content, for any jobs, names,
contents and processes. Its invariant: `Exclusive` (one attempt at most fills a
directory, because creating it succeeds once), `Copied` (what an attempt has
written is its job's content as long as its snapshot of the source holds) and
`Compared` (past a comparison, a receipt or a check, snapshots that hold mean
equality).

Part I of `FileScanProofs` is about `WindowScan` alone. It begins with the
arithmetic: `WindowsCover` and `SplitCovers` for every size, window, overlap and
minimum that the configuration admits. Its invariant `WindowInv` says that of every window what is still to be sent,
together with what was answered, holds the malware whole if the window does
(a thread's list always does, since a split puts both halves on it), that a slot
is out for each request being sent, and that a cancelled window has a sibling
that was infected or failed, or a stop behind it. From it follow
`CleanMeansCovered`, `SlotsAreKept` and `CancellationExplained` for any files,
workers and slots.

Part II proves that `FileSpec` implements `WindowSpec` (`ScansWindows`):
what `scan_path` asks of the window scan, and when, are steps of it, so its
theorems hold in every scan (`WindowsInFiles`). It proves `NothingMissed`,
`NothingLeft` and `WorkspacesKept` for any files, forms, sizes, limits, archives,
threads and faults. Its invariant adds to `WindowInv`, for each file: `Placed` (a
helper is there exactly from the start of an archive to its end, and waits, or is
dead, while a member is scanned), `Acknowledged` (what the helper has passed is
not infected: it passes a leaf only on an "ok", which is only given for the leaf
it waits at) and `Justified` (what the answers so far say of an untouched file,
and what a clean outcome says). A file that has changed promises nothing until
the last look at it makes it fail. The assumptions are those on the settings and
`InputOK`, which says what ClamD is trusted with: the parts of an archive outside
its leaves, and the attachments of media that are not Matroska.

`DownloadsProofs` proves `NasMeansNas` and `QueuedIsComplete` for any finite set of
jobs, any torrents, sizes, policies, space and number of faults and acts; the
jobs are natural numbers in the order of their creation, and `None` is none of
the names in use. Neither property is inductive, since a commit writes what was
read before. `TrackInv` therefore says of every session what it may rely on
(`SessionGood`): who is about to write `nas` has moved the torrent or has found it
gone; who goes on with a torrent without adding it has one (`Relies`); who is about to
speak of a complete download has seen one or read of one, and it still is
(`Claims`); who is about to add a torrent with a row that says local has not been
overtaken by a move. `JobGood` is the same for what is already written. Each
action has a lemma (`...Keeps`): it keeps what its own session relies on, and
spares the bystander, the session at the same job next to it (`Calm` for what it
does to qBittorrent, `RowSpares` for what it does to the row). The writes
themselves are followed through the code by what they may name (`OutcomeIs`,
`ChangedIs`, `OverRow`). TLC checked `TrackInv` with three faults and three acts
for one job, and with two of each for two jobs of one torrent, before it was
proved.

The type invariants of these modules are part of the inductive invariants and
theorems too (`TypeCorrect`, `WindowTypeCorrect`), as are smaller facts that the
runs need not repeat (`ScansAreLeased`, `ShutdownIsQuiet`,
`ReceiptsStandForContent`).

Only model-checked: liveness, which is outside the prover's reach. Every safety
property that a passing run checks is also a theorem.

## Plan

The order followed the damage an error would do: what decides that content is
clean (`ScanQueue`, `ScanManifest`), what moves and deletes it (`PostScan`,
`PostPromotion`, `CopyAction`), what replaces everything (`Restore`), how one file
is scanned (`FileScan`), and what happens before (`Downloads`). What a team would
add next, in this order:

1. `JobLifecycle`: the states of a job as an abstract specification of their own,
   implemented by `Downloads`, `ScanQueue` and `PostScan` under refinement mappings.
2. The order of the queue and its priorities, which `ScanQueue` leaves open.
3. The wrapper copies of `copy_action.py`, and `CopyAction` as the process of
   `PostPromotion`.

## What is not modelled

Contents of pages, uploads and events, the formats of magnets and torrents, the
wire protocols of qBittorrent and ClamAV, and the container's build carry little
state; they appear as calls that succeed, fail, or fail after they took effect.
`settings_view.py`, `settings_editor.py` and `config.py` parse, validate and
render values; their results are the constants of the models and their
assumptions. The migrations of the database run once and in a straight line.
The formats of archives and media are outcomes of a walk or a probe: whether a
parser reads them rightly is not a question of state. Components that are only
partly modelled say in `PROJECT.json` what is left out. The database is taken as SQLite
promises it: a commit is atomic and durable, and writers are serialised.

## Where code and documentation differ

Three runs are expected to fail, each quoting a sentence of the repository.
`queue_pause`: a pause is committed while a job is scanned; the scan then fails and
`_handle_failure` puts the job back to `scan_pending` with the request still set,
where it is neither paused nor claimable. `queue_callback`: a late completion callback resets
a running scan. `queue_paused_edit`: a thread that lost its lease in its last
call to qBittorrent writes `scan_clean` over a job that is Scan paused by then.
One more divergence shows in `ScanQueue` and has no run of its own:
`run_claim` looks at maintenance before the health check and marks the next file
after it (scan_coordinator.py 306), so that one file may still start after the
page said that no new files will (src/templates/index.html:2175). What `Downloads`
shows beside its properties, and why two of them make an exception for torrents
that somebody removes, is at the end of its section.
