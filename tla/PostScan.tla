------------------------------- MODULE PostScan -------------------------------
(***************************************************************************)
(* What the scheduler does with a decided job: process_scan_actions of     *)
(* app/service.py promotes clean content, and holds, quarantines or        *)
(* deletes infected content, through a qBittorrent that has a life of its  *)
(* own.                                                                    *)
(*                                                                         *)
(* One pass over the job marks it, fetches the torrent, and acts on what   *)
(* it fetched; each call to qBittorrent may fail before or after it took   *)
(* effect, and the container may die between any two steps.  The pass is   *)
(* repeated until the job is in an end state.  A failed guard (a missing   *)
(* tag, storage that is away) ends a pass like a failed call.  Moving and  *)
(* deleting files are qBittorrent's work and take their time.              *)
(***************************************************************************)
EXTENDS Naturals

CONSTANTS
  Actions,    \* values infected_action may take in one behaviour
  MaxFaults,  \* bound: failed calls and guards, failed moves, crashes
  MaxMeddles  \* bound: acts of an operator in qBittorrent, Intake or the settings

ASSUME PostScanAssumption ==
  /\ Actions \subseteq {"hold", "quarantine", "delete"} /\ Actions # {}
  /\ MaxFaults \in Nat /\ MaxMeddles \in Nat

VARIABLES
  torrent,    \* qBittorrent's record of the torrent
  files,      \* the places in which content lies on the disk
  jobState, quarantinePath, hook,   \* columns of the job
  action,     \* infected_action
  pc, task, seen,                   \* the pass and the torrent it fetched
  meddled,    \* history: somebody interfered since the fetch
  touched,    \* history: somebody acted on the torrent in qBittorrent
  faults, meddles

job == <<jobState, quarantinePath, hook>>
pass == <<pc, task, seen>>
vars == <<torrent, files, job, action, pass, meddled, touched, faults, meddles>>

Places == {"staging", "final", "quarantine", "elsewhere"}
Still == "none"     \* target of a torrent that does not move
Trash == "trash"    \* target of one that is deleted with its files
Torrents == [here : BOOLEAN, place : Places, target : Places \cup {Still, Trash},
             paused : BOOLEAN]
Tasks == {"promote", "hold", "quarantine", "delete"}
CleanStates == {"scan_clean", "promoting"}
InfectedStates == {"scan_infected", "quarantining_infected", "deleting_infected"}
ActionStates == CleanStates \cup InfectedStates
EndStates == {"done", "infected_held", "infected_quarantined", "infected_deleted"}

Fault == faults < MaxFaults /\ faults' = faults + 1 /\ UNCHANGED <<meddles, touched>>
Meddle == meddles < MaxMeddles /\ meddles' = meddles + 1 /\ UNCHANGED faults
Calm == UNCHANGED <<meddled, touched, faults, meddles>>

\* The scan has just ended: the torrent is paused in staging.
Init ==
  /\ torrent = [here |-> TRUE, place |-> "staging", target |-> Still, paused |-> TRUE]
  /\ files = {"staging"}
  /\ jobState \in {"scan_clean", "scan_infected"}
  /\ quarantinePath = FALSE /\ hook = "none"
  /\ action \in Actions
  /\ pc = "idle" /\ task = "promote" /\ seen = torrent
  /\ meddled = FALSE /\ touched = FALSE /\ faults = 0 /\ meddles = 0

-----------------------------------------------------------------------------
(* Guards on the torrent that was fetched, with the disk as it is now      *)

Moving == seen.target # Still

\* validate_staging with require_paused
InStaging == seen.paused /\ ~Moving /\ seen.place = "staging" /\ "staging" \in files

\* Mutant of AtDestination: any paused torrent that was fetched is taken for
\* the promoted one.
PausedSomewhere == seen.paused /\ ~Moving
\* validate_destination
AtDestination == seen.paused /\ ~Moving /\ seen.place = "final" /\ "final" \in files

\* Mutant of InQuarantine: a recorded directory is taken for the move.
Ordered == seen.paused /\ ~Moving /\ quarantinePath
\* validate_quarantine_destination for the recorded directory
InQuarantine ==
  /\ seen.paused /\ ~Moving /\ quarantinePath
  /\ seen.place = "quarantine" /\ "quarantine" \in files

-----------------------------------------------------------------------------
(* Calls                                                                   *)

EndPass == pc' = "idle" /\ UNCHANGED <<task, seen>>

\* A call leaves the torrent as t and goes on at label; or it raises, and
\* then it may have reached qBittorrent or not.
Call(t, label) ==
  /\ UNCHANGED <<job, task, seen, meddled>>
  /\ \/ torrent' = t /\ pc' = label /\ UNCHANGED <<touched, faults, meddles>>
     \/ torrent' \in {t, torrent} /\ pc' = "idle" /\ Fault

Paused == [torrent EXCEPT !.paused = TRUE]
Resumed == [torrent EXCEPT !.paused = FALSE]
Sent(p) == IF torrent.here THEN [torrent EXCEPT !.target = p] ELSE torrent
DeletedWithFiles ==
  IF torrent.here THEN [torrent EXCEPT !.here = FALSE, !.target = Trash] ELSE torrent
Removed == [torrent EXCEPT !.here = FALSE, !.target = Still]

\* The pass ends: a guard failed, or the next pass has to look again.
TryAgain == EndPass /\ UNCHANGED <<torrent, job>> /\ Calm

\* The job is put into its end state, with the hook of a promotion in the same
\* transaction.  When it was removed in the meantime the UPDATE finds no row.
Commit(s) ==
  /\ jobState' = IF jobState = "removed" THEN jobState ELSE s
  /\ hook' = IF jobState # "removed" /\ s = "done" /\ hook = "none" THEN "pending" ELSE hook
  /\ EndPass /\ UNCHANGED <<torrent, quarantinePath>> /\ Calm

-----------------------------------------------------------------------------
(* The pass                                                                *)

\* Mutant of TaskFor: an infected job whose action has begun is promoted.
TaskByProgress ==
  IF jobState \in CleanStates \cup {"deleting_infected"} THEN "promote" ELSE action
TaskFor == IF jobState \in CleanStates THEN "promote" ELSE action

\* Mutant of Selected: only a job that was not yet begun is taken up.
NotYetBegun == jobState \in {"scan_clean", "scan_infected"}
Selected == jobState \in ActionStates

\* The job is taken up and marked, before anything is asked of qBittorrent.
Begin ==
  /\ pc = "idle" /\ Selected
  /\ task' = TaskFor
  /\ jobState' = IF jobState = "scan_clean" THEN "promoting"
                 ELSE IF jobState = "scan_infected" /\ action = "delete"
                 THEN "deleting_infected" ELSE jobState
  /\ pc' = "fetch"
  /\ UNCHANGED <<torrent, files, quarantinePath, hook, action, seen>> /\ Calm

\* _find_live_torrent_for_job
Fetch ==
  /\ pc = "fetch" /\ seen' = torrent /\ pc' = "act" /\ meddled' = FALSE
  /\ UNCHANGED <<torrent, files, job, action, task, touched, faults, meddles>>

\* _reconcile_clean_promotion up to the torrent's resume
PromoteStep ==
  \/ (~seen.here \/ Moving) /\ TryAgain
  \/ /\ seen.here /\ ~Moving
     /\ \/ ~seen.paused /\ Call(Paused, "idle")
        \/ InStaging /\ Call(Sent("final"), "idle")
        \/ AtDestination /\ Call(Resumed, "record")
        \/ seen.paused /\ ~InStaging /\ ~AtDestination /\ TryAgain

\* _reconcile_infected_action for hold
HoldStep ==
  \/ seen.here /\ InStaging /\ Commit("infected_held")
  \/ ~(seen.here /\ InStaging) /\ TryAgain

\* Mutant of Gone: the torrent's absence alone is taken for the deletion.
GoneFromList == TRUE
\* _path_has_content
Gone == "staging" \notin files
\* _reconcile_infected_action for delete
DeleteStep ==
  \/ seen.here /\ InStaging /\ Call(DeletedWithFiles, "idle")
  \/ ~seen.here /\ Gone /\ Commit("infected_deleted")
  \/ ~(IF seen.here THEN InStaging ELSE Gone) /\ TryAgain

\* _reconcile_infected_quarantine; a directory is allocated and recorded
\* before the torrent is sent there.
QuarantineStep ==
  \/ (~seen.here \/ Moving) /\ TryAgain
  \/ /\ seen.here /\ ~Moving
     /\ \/ ~seen.paused /\ Call(Paused, "idle")
        \/ /\ InStaging /\ ~quarantinePath /\ jobState # "removed"
           /\ quarantinePath' = TRUE /\ jobState' = "quarantining_infected"
           /\ pc' = "send" /\ UNCHANGED <<torrent, hook, task, seen>> /\ Calm
        \/ InStaging /\ ~quarantinePath /\ jobState = "removed" /\ TryAgain
        \/ InStaging /\ quarantinePath /\ Call(Sent("quarantine"), "idle")
        \/ InQuarantine /\ Commit("infected_quarantined")
        \/ seen.paused /\ ~InStaging /\ ~InQuarantine /\ TryAgain

Act ==
  /\ pc = "act"
  /\ \/ task = "promote" /\ PromoteStep
     \/ task = "hold" /\ HoldStep
     \/ task = "delete" /\ DeleteStep
     \/ task = "quarantine" /\ QuarantineStep
  /\ UNCHANGED <<files, action>>

\* The torrent is sent to the directory that was just recorded.
Send ==
  /\ pc = "send"
  /\ \/ InStaging /\ Call(Sent("quarantine"), "idle")
     \/ ~InStaging /\ TryAgain
  /\ UNCHANGED <<files, action>>

Record == pc = "record" /\ Commit("done") /\ UNCHANGED <<files, action>>

\* process_scan_actions catches what a pass raises; the container may die.
PassFails ==
  /\ pc # "idle" /\ Fault /\ EndPass
  /\ UNCHANGED <<torrent, files, job, action, meddled>>

-----------------------------------------------------------------------------
(* qBittorrent and the operator                                            *)

MoveEnds ==
  /\ torrent.here /\ torrent.target # Still
  /\ \/ /\ torrent' = [torrent EXCEPT !.place = torrent.target, !.target = Still]
        /\ files' = (files \ {torrent.place}) \cup {torrent.target}
        /\ UNCHANGED <<touched, faults, meddles>>
     \/ torrent' = [torrent EXCEPT !.target = Still] /\ Fault /\ UNCHANGED files
  /\ UNCHANGED <<job, action, pass, meddled>>

\* The files go after the torrent has gone from the list.
FilesGo ==
  /\ torrent.target = Trash
  /\ torrent' = [torrent EXCEPT !.target = Still]
  /\ files' = files \ {torrent.place}
  /\ UNCHANGED <<job, action, pass>> /\ Calm

\* Somebody starts, stops, moves or removes the torrent in qBittorrent, with
\* or without its files, removes the job from Intake, or restarts Intake with
\* another infection action.  A job whose hook waits cannot be removed.
Operator ==
  /\ Meddle /\ meddled' = TRUE /\ UNCHANGED <<files, quarantinePath, hook, pass>>
  /\ \/ /\ torrent.here
        /\ torrent' \in {Paused, Resumed, Sent("elsewhere"), Sent("final"),
                        DeletedWithFiles, Removed}
        /\ touched' = TRUE /\ UNCHANGED <<jobState, action>>
     \/ hook = "none" /\ jobState' = "removed" /\ UNCHANGED <<torrent, action, touched>>
     \/ pc = "idle" /\ action' \in Actions /\ UNCHANGED <<torrent, jobState, touched>>

Next ==
  \/ Begin \/ Fetch \/ Act \/ Send \/ Record \/ PassFails
  \/ MoveEnds \/ FilesGo \/ Operator

\* The scheduler passes over the job again and again, and qBittorrent ends
\* what it began.
Fairness ==
  /\ WF_vars(Begin) /\ WF_vars(Fetch \/ Act \/ Send \/ Record)
  /\ WF_vars(MoveEnds) /\ WF_vars(FilesGo)

Spec == Init /\ [][Next]_vars
FairSpec == Spec /\ Fairness

-----------------------------------------------------------------------------
(* Properties                                                              *)

\* The torrent, the job and the pass hold values of their types.
TypeOK ==
  /\ torrent \in Torrents /\ seen \in Torrents
  /\ files \subseteq Places
  /\ jobState \in ActionStates \cup EndStates \cup {"removed"}
  /\ quarantinePath \in BOOLEAN /\ hook \in {"none", "pending"}
  /\ action \in Actions /\ task \in Tasks
  /\ pc \in {"idle", "fetch", "act", "send", "record"}
  /\ meddled \in BOOLEAN /\ touched \in BOOLEAN
  /\ faults \in 0 .. MaxFaults /\ meddles \in 0 .. MaxMeddles

Settled(p) == torrent.here /\ torrent.place = p /\ torrent.target = Still

\* Unless somebody interfered, a job is marked done when its torrent lies at
\* the destination with its content and seeds: never for a move that was
\* only ordered, or after a call that may not have arrived.
DoneIsSeeding ==
  jobState # "done" /\ jobState' = "done" /\ ~meddled =>
    Settled("final") /\ ~torrent.paused /\ files = {"final"}

\* Unless somebody interfered, a job is marked quarantined when its torrent
\* lies there, paused, and no content is left in staging.
QuarantinedIsAway ==
  jobState # "infected_quarantined" /\ jobState' = "infected_quarantined" /\ ~meddled =>
    Settled("quarantine") /\ torrent.paused /\ files = {"quarantine"}

\* README.md:448: a deletion is marked only after qBittorrent has lost the
\* torrent and staging the content, whoever else removed either.
DeletedIsGone ==
  jobState # "infected_deleted" /\ jobState' = "infected_deleted" =>
    ~torrent.here /\ "staging" \notin files

\* A job reaches an end state only over what that state says.
EndStatesAreTrue == [][DoneIsSeeding /\ QuarantinedIsAway /\ DeletedIsGone]_vars

\* Infected content that nobody touched in qBittorrent is never started and never
\* gets out of staging and quarantine, whatever fails, whenever Intake dies, and
\* however often the infection action is changed between two steps of another.
InfectedIsConfined ==
  jobState \in InfectedStates /\ ~touched =>
    /\ torrent.paused /\ torrent.place \in {"staging", "quarantine"}
    /\ torrent.target \in {Still, Trash, "quarantine"}

\* What Intake does not put right by itself: a torrent or content that is gone
\* or elsewhere, and infected content that runs or was sent where the action
\* does not expect it.
NeedsOperator ==
  \/ jobState = "removed"
  \/ ~torrent.here \/ files # {torrent.place} \/ torrent.place = "elsewhere"
  \/ jobState \in InfectedStates
     /\ (~torrent.paused \/ torrent.place # "staging")

\* Every decided job reaches its end: failed calls, lost answers, failed moves
\* and crashes only delay it.
ActionsEnd ==
  jobState \in ActionStates ~> (jobState \in EndStates \/ (meddles > 0 /\ NeedsOperator))
=============================================================================
