------------------------------ MODULE CopyAction ------------------------------
(***************************************************************************)
(* The built-in copy of promoted content: _copy_routed of                  *)
(* app/copy_action.py.                                                     *)
(*                                                                         *)
(* Attempts of one job or of several that are mapped to the same path run  *)
(* next to each other, are killed at any point and started again; others   *)
(* change the source and put content of their own at the destination.  No  *)
(* attempt may merge with, replace or remove what it finds, and none may   *)
(* report success over partial or different content.                       *)
(*                                                                         *)
(* A snapshot records sizes, inodes and change times, so what it describes *)
(* never comes back once it was changed.  It is therefore kept as a flag:  *)
(* nothing has changed since.  Mounts, markers and aliases that an attempt *)
(* refuses are steps that fail.                                            *)
(***************************************************************************)
EXTENDS Naturals

CONSTANTS
  Jobs, Names,    \* the files in a payload that is a directory
  Single,         \* the one name of a payload that is a file
  Bytes,          \* contents of one size
  Runners,        \* processes that may run at the same time
  None,
  MaxChanges, MaxFaults   \* bounds: changes by others; kills and failed calls

ASSUME CopyActionAssumption ==
  /\ Single \in Names /\ Bytes # {} /\ None \notin Jobs
  /\ Bytes \cap {"missing", "partial"} = {}
  /\ \A S \in SUBSET Names : None \notin [S -> Bytes \cup {"missing", "partial"}]
  /\ MaxChanges \in Nat /\ MaxFaults \in Nat

VARIABLES
  payload,    \* the names in the payload
  source,     \* the promoted content of each job
  target,     \* what lies at the destination, or None
  receipt,    \* complete.json of each job: None, or its two snapshots
  pc, job,    \* each attempt: its place and its job
  work,       \* the copy of a file in the attempt's own directory
  src, dst,   \* the attempt's snapshots of source and destination
  succeeded,  \* history: jobs that reported success
  changes, faults

disk == <<payload, source, target, receipt>>
attempt == <<pc, job, work, src, dst>>
vars == <<disk, attempt, succeeded, changes, faults>>

Entries == Bytes \cup {"missing", "partial"}
Snapshots == [src : BOOLEAN, dst : BOOLEAN]
Places == {"idle", "lock", "look", "match", "compare", "confirm", "reserve", "transfer",
           "check", "link", "verify", "publish", "report"}

IsFile == payload = {Single}
\* A directory that was just created.
Absent == [f \in payload |-> "missing"]
Same(j) == target # None /\ target = source[j]

Init ==
  /\ payload \in {{Single}, Names}
  /\ source \in [Jobs -> [payload -> Bytes]]
  /\ target = None /\ receipt = [j \in Jobs |-> None]
  /\ pc = [p \in Runners |-> "idle"] /\ job = [p \in Runners |-> None]
  /\ work = [p \in Runners |-> "missing"]
  /\ src = [p \in Runners |-> FALSE] /\ dst = [p \in Runners |-> FALSE]
  /\ succeeded = {} /\ changes = 0 /\ faults = 0

-----------------------------------------------------------------------------
(* Snapshots                                                               *)

\* After a write to the destination no snapshot of it is true, except those
\* that the attempts in ps take of the result.
TargetWritten(t, ps) ==
  /\ target' = t
  /\ dst' = [p \in Runners |-> p \in ps]
  /\ receipt' = [j \in Jobs |-> IF receipt[j] = None THEN None
                                ELSE [receipt[j] EXCEPT !.dst = FALSE]]

Goes(p, label) == pc' = [pc EXCEPT ![p] = label]

\* The process is gone, and with it all that it knew.
Gone(p) ==
  /\ Goes(p, "idle") /\ job' = [job EXCEPT ![p] = None]
  /\ work' = [work EXCEPT ![p] = "missing"]
  /\ src' = [src EXCEPT ![p] = FALSE] /\ dst' = [dst EXCEPT ![p] = FALSE]

\* The attempt reports failure; what it wrote at the destination stays.
Fails(p) == Gone(p) /\ UNCHANGED <<disk, succeeded>>

Stays == UNCHANGED <<disk, job, work, src, succeeded>>
Passes(p, label) == Goes(p, label) /\ Stays /\ UNCHANGED dst

-----------------------------------------------------------------------------
(* An attempt                                                              *)

\* The promoted content is listed before anything else.
Begin(p, j) ==
  /\ pc[p] = "idle" /\ Goes(p, "lock")
  /\ job' = [job EXCEPT ![p] = j] /\ src' = [src EXCEPT ![p] = TRUE]
  /\ UNCHANGED <<disk, work, dst, succeeded, changes, faults>>

\* _job_lock: the system releases it when the process ends.
Locked(j) == \E p \in Runners : job[p] = j /\ pc[p] # "lock"

Lock(p) ==
  /\ pc[p] = "lock"
  /\ \/ ~Locked(job[p]) /\ Passes(p, "look")
     \/ Locked(job[p]) /\ Fails(p)
  /\ UNCHANGED <<changes, faults>>

\* The snapshots of the receipt still describe both sides.
Matches(j) == receipt[j] # None /\ receipt[j].src /\ receipt[j].dst

Look(p) ==
  /\ pc[p] = "look" /\ Stays
  /\ \/ target = None /\ Goes(p, "reserve") /\ UNCHANGED dst
     \/ /\ target # None /\ dst' = [dst EXCEPT ![p] = TRUE]
        /\ Goes(p, IF Matches(job[p]) THEN "match" ELSE "compare")
  /\ UNCHANGED <<changes, faults>>

\* Neither the source nor the destination has changed since the snapshots.
Unchanged(p) == src[p] /\ dst[p]

Succeeds(p) == Gone(p) /\ succeeded' = succeeded \cup {job[p]}

\* A receipt that matches makes a copy unnecessary.
Match(p) ==
  /\ pc[p] = "match"
  /\ \/ Unchanged(p) /\ Succeeds(p) /\ UNCHANGED disk
     \/ ~Unchanged(p) /\ Fails(p)
  /\ UNCHANGED <<changes, faults>>

\* Mutants of SameContents: content without a receipt is a collision; sizes are compared.
NeedsReceipt(p) == Matches(job[p])
SameLayout(p) == target # None /\ \A f \in payload : target[f] \in Bytes
\* _same_contents reads both sides to their ends.
SameContents(p) == Same(job[p])

Compare(p) ==
  /\ pc[p] = "compare"
  /\ \/ Unchanged(p) /\ SameContents(p) /\ Passes(p, "confirm")
     \/ ~(Unchanged(p) /\ SameContents(p)) /\ Fails(p)
  /\ UNCHANGED <<changes, faults>>

\* Before the receipt both sides are listed once more.
Confirm(p) ==
  /\ pc[p] \in {"confirm", "verify"}
  /\ \/ Unchanged(p) /\ Passes(p, "publish")
     \/ ~Unchanged(p) /\ Fails(p)
  /\ UNCHANGED <<changes, faults>>

\* A file is prepared in the attempt's own directory.
ReserveFile(p) ==
  /\ pc[p] = "reserve" /\ IsFile
  /\ \/ src[p] /\ Passes(p, "transfer")
     \/ ~src[p] /\ Fails(p)
  /\ UNCHANGED <<changes, faults>>

\* mkdir does not take a name that is there.
MayCreate == target = None

\* A directory is reserved by creating it.
ReserveDirectory(p) ==
  /\ pc[p] = "reserve" /\ ~IsFile
  /\ \/ /\ src[p] /\ MayCreate /\ TargetWritten(Absent, {})
        /\ Goes(p, "transfer") /\ UNCHANGED <<payload, source, job, work, src, succeeded>>
     \/ ~(src[p] /\ MayCreate) /\ Fails(p)
  /\ UNCHANGED <<changes, faults>>

\* rsync writes a file under another name and renames it.
Written(old, new, from) ==
  \/ old = "missing" /\ new = "partial"
  \/ old = "partial" /\ new = from

TransferFile(p) ==
  /\ pc[p] = "transfer" /\ IsFile
  /\ \/ /\ \E b \in Entries :
             /\ Written(work[p], b, source[job[p]][Single])
             /\ work' = [work EXCEPT ![p] = b]
        /\ UNCHANGED <<disk, pc, job, src, dst, succeeded>>
     \/ work[p] \in Bytes /\ Passes(p, "check")
  /\ UNCHANGED <<changes, faults>>

TransferDirectory(p) ==
  /\ pc[p] = "transfer" /\ ~IsFile
  /\ \/ /\ \E f \in payload, b \in Entries :
             /\ Written(target[f], b, source[job[p]][f])
             /\ TargetWritten([target EXCEPT ![f] = b], {})
        /\ UNCHANGED <<payload, source, pc, job, work, src, succeeded>>
     \/ (\A f \in payload : target[f] \in Bytes) /\ Passes(p, "check")
  /\ UNCHANGED <<changes, faults>>

\* The copy is listed, and the source once more.
Check(p) ==
  /\ pc[p] = "check"
  /\ \/ /\ src[p] /\ Stays /\ dst' = [dst EXCEPT ![p] = ~IsFile]
        /\ Goes(p, IF IsFile THEN "link" ELSE "verify")
     \/ ~src[p] /\ Fails(p)
  /\ UNCHANGED <<changes, faults>>

\* Mutant of MayLink: the file is renamed over what lies there.
MayReplace == TRUE
\* os.link does not replace a name.
MayLink == target = None

Link(p) ==
  /\ pc[p] = "link"
  /\ \/ /\ MayLink /\ TargetWritten([f \in payload |-> work[p]], {p})
        /\ Goes(p, "verify") /\ UNCHANGED <<payload, source, job, work, src, succeeded>>
     \/ ~MayLink /\ Fails(p)
  /\ UNCHANGED <<changes, faults>>

\* Mutant of Receipt: the destination is listed anew for the receipt.
FreshReceipt(p) == [src |-> src[p], dst |-> TRUE]
\* The receipt has the snapshots that were checked.
Receipt(p) == [src |-> src[p], dst |-> dst[p]]

\* _publish_routed_record
Publish(p) ==
  /\ pc[p] = "publish" /\ Goes(p, "report")
  /\ receipt' = [receipt EXCEPT ![job[p]] = Receipt(p)]
  /\ UNCHANGED <<payload, source, target, job, work, src, dst, succeeded, changes, faults>>

\* The process ends with success.
Report(p) ==
  /\ pc[p] = "report" /\ Succeeds(p)
  /\ UNCHANGED <<disk, changes, faults>>

\* A call fails, a guard refuses, or the process is killed.
Kill(p) ==
  /\ pc[p] # "idle" /\ faults < MaxFaults /\ faults' = faults + 1
  /\ Fails(p) /\ UNCHANGED changes

AttemptStep(p) ==
  \/ Lock(p) \/ Look(p) \/ Match(p) \/ Compare(p) \/ Confirm(p)
  \/ ReserveFile(p) \/ ReserveDirectory(p) \/ TransferFile(p) \/ TransferDirectory(p)
  \/ Check(p) \/ Link(p) \/ Publish(p) \/ Report(p)

-----------------------------------------------------------------------------
(* Others                                                                  *)

Change == changes < MaxChanges /\ changes' = changes + 1

ChangeSource(j) ==
  /\ Change
  /\ \E f \in payload, b \in Bytes :
       b # source[j][f] /\ source' = [source EXCEPT ![j][f] = b]
  /\ src' = [p \in Runners |-> src[p] /\ job[p] # j]
  /\ receipt' = IF receipt[j] = None THEN receipt ELSE [receipt EXCEPT ![j].src = FALSE]
  /\ UNCHANGED <<payload, target, pc, job, work, dst, succeeded, faults>>

\* An attempt has its own content at the destination and counts on it.
Writing(p) == pc[p] = "verify" \/ (~IsFile /\ pc[p] \in {"transfer", "check"})

\* Somebody puts content there, changes it, or moves it aside, though not
\* while it is being written: README.md:709-710 excludes that.
ChangeTarget ==
  /\ Change /\ \A p \in Runners : ~Writing(p)
  /\ \E t \in [payload -> Bytes] \cup {None} : t # target /\ TargetWritten(t, {})
  /\ UNCHANGED <<payload, source, pc, job, work, src, succeeded, faults>>

Next ==
  \/ \E p \in Runners : AttemptStep(p) \/ Kill(p) \/ \E j \in Jobs : Begin(p, j)
  \/ \E j \in Jobs : ChangeSource(j)
  \/ ChangeTarget

\* Attempts go on, and a job is tried again and again.
Fairness ==
  /\ \A p \in Runners : WF_vars(AttemptStep(p))
  /\ \A j \in Jobs : SF_vars(\E p \in Runners : ~Locked(j) /\ Begin(p, j))

Spec == Init /\ [][Next]_vars
FairSpec == Spec /\ Fairness

-----------------------------------------------------------------------------
(* Properties                                                              *)

\* Content, receipts and attempts hold values of their types.
TypeOK ==
  /\ payload \in {{Single}, Names}
  /\ source \in [Jobs -> [payload -> Bytes]]
  /\ target \in [payload -> Entries] \cup {None}
  /\ receipt \in [Jobs -> Snapshots \cup {None}]
  /\ pc \in [Runners -> Places] /\ job \in [Runners -> Jobs \cup {None}]
  /\ work \in [Runners -> Entries]
  /\ src \in [Runners -> BOOLEAN] /\ dst \in [Runners -> BOOLEAN]
  /\ succeeded \subseteq Jobs
  /\ changes \in 0 .. MaxChanges /\ faults \in 0 .. MaxFaults

\* README.md:739: no attempt replaces or removes content, whoever put it there
\* and however the attempts of all jobs interleave.
NothingIsReplaced ==
  [][(changes' = changes /\ target # None) =>
       /\ target' # None
       /\ \A f \in payload : target[f] \in Bytes => target'[f] = target[f]]_vars

\* A receipt whose snapshots still hold stands for equal content, whatever
\* was killed or tried in between: it may stand in for a comparison.
ReceiptsAreTrue == \A j \in Jobs : Matches(j) => Same(j)

\* An attempt that is about to report success, and whose source and copy nobody
\* changed, has made or found an equal copy.
SuccessIsEqual ==
  \A p \in Runners : (pc[p] \in {"match", "publish", "report"} /\ Unchanged(p)) => Same(job[p])

\* README.md:738-740: only other content that stays at the destination, or a
\* directory that an attempt left half written, keeps a copy from ending.
Free(j) == target = None \/ Same(j)
CopiesEnd == \A j \in Jobs : []<>Free(j) => <>(j \in succeeded)
=============================================================================
