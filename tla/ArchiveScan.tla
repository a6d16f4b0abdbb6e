----------------------------- MODULE ArchiveScan -----------------------------
(***************************************************************************)
(* The bounded inspection of an archive: scan_archive and its helper       *)
(* (app/archive_tools.py).                                                 *)
(*                                                                         *)
(* A helper process walks the archive, and what is nested in it, depth     *)
(* first.  It writes each leaf to a private workspace, names it on its     *)
(* stdout and waits until its parent has scanned it and says so on its     *)
(* stdin.  At the end it reports how many leaves were acknowledged.  The   *)
(* workspaces of several controllers may lie on one shared mount; one that *)
(* starts clears the mount if it can lock out every scan.                  *)
(*                                                                         *)
(* The walk visits a sequence of entries, those of a nested archive after  *)
(* it.  How the parent scans a leaf is FileScan.                           *)
(***************************************************************************)
EXTENDS Naturals, Sequences

CONSTANTS
  Scans,                              \* scans that may have a helper
  MaxEntries, MaxDepth, MaxExpanded,  \* ArchiveLimits
  Nil

\* Nil is neither a message nor a count.
ASSUME ArchiveAssumption ==
  /\ {MaxEntries, MaxDepth, MaxExpanded} \subseteq Nat
  /\ Nil \notin ({"member", "done"} \X Nat) \cup Nat

VARIABLES
  walk,       \* the helper of each scan: its state, place and counters
  listed,     \* the entries of the archive it walks
  message,    \* what it wrote and its parent has not read
  ack,        \* an "ok" it has not read
  scanned,    \* the parent's count of leaves
  manifest,   \* completed: the count in the "done" message
  workspace,  \* the private directory exists
  locked,     \* the parent holds the shared lock of the mount
  clearing    \* a starting controller holds the exclusive one

places == <<workspace, locked, clearing>>
archiveVars == <<walk, listed, message, ack, scanned, manifest, places>>

NoHelper == [state |-> "none", at |-> 1, expanded |-> 0, scanned |-> 0]

ArchiveInit ==
  /\ walk = [f \in Scans |-> NoHelper]
  /\ listed = [f \in Scans |-> << >>]
  /\ message = [f \in Scans |-> Nil]
  /\ ack = [f \in Scans |-> FALSE]
  /\ scanned = [f \in Scans |-> 0]
  /\ manifest = [f \in Scans |-> Nil]
  /\ workspace = [f \in Scans |-> FALSE]
  /\ locked = [f \in Scans |-> FALSE]
  /\ clearing = FALSE

(***************************************************************************)
(* The helper: _Extractor.extract.                                         *)
(***************************************************************************)
Entry(f) == listed[f][walk[f].at]
WalkIsOver(f) == walk[f].at > Len(listed[f])

\* An encrypted member, a link, a wrong size or checksum, or a limit.
Rejected(f) ==
  \/ Entry(f).kind = "bad"
  \/ walk[f].at > MaxEntries
  \/ Entry(f).kind \in {"archive", "leaf"} /\ walk[f].expanded >= MaxExpanded
  \/ Entry(f).kind = "archive" /\ Entry(f).depth >= MaxDepth

\* Mutant: a helper does not look at its pipes.
NeverAlone(f) == FALSE

\* Without its parent a helper reads the end of its stdin and cannot write.
Alone(f) == ~locked[f]

Dies(f) ==
  /\ walk' = [walk EXCEPT ![f].state = "died"]
  /\ UNCHANGED <<listed, message, ack, scanned, manifest, places>>

\* It is killed, runs into its limits or finds no space.
HelperDies(f) == walk[f].state \in {"walk", "wait"} /\ Dies(f)

SkipDirectory(f) ==
  /\ Entry(f).kind = "dir"
  /\ walk' = [walk EXCEPT ![f].at = @ + 1]
  /\ UNCHANGED <<listed, message, ack, scanned, manifest, places>>

\* A nested archive is written, too, and walked next.
Descend(f) ==
  /\ Entry(f).kind = "archive"
  /\ walk' = [walk EXCEPT ![f].at = @ + 1, ![f].expanded = @ + 1]
  /\ UNCHANGED <<listed, message, ack, scanned, manifest, places>>

Present(f) ==
  /\ Entry(f).kind = "leaf" /\ ~Alone(f)
  /\ walk' = [walk EXCEPT ![f].state = "wait", ![f].expanded = @ + 1]
  /\ message' = [message EXCEPT ![f] = <<"member", walk[f].at>>]
  /\ UNCHANGED <<listed, ack, scanned, manifest, places>>

Extract(f) ==
  /\ walk[f].state = "walk" /\ ~WalkIsOver(f)
  /\ IF Rejected(f) \/ ~workspace[f] \/ (Entry(f).kind = "leaf" /\ Alone(f))
       THEN Dies(f)
       ELSE SkipDirectory(f) \/ Descend(f) \/ Present(f)

\* The leaf is removed and counted once its scan was acknowledged.
ReadAck(f) ==
  /\ walk[f].state = "wait"
  /\ IF Alone(f)
       THEN Dies(f)
       ELSE /\ ack[f]
            /\ walk' = [walk EXCEPT ![f].state = "walk", ![f].at = @ + 1, ![f].scanned = @ + 1]
            /\ ack' = [ack EXCEPT ![f] = FALSE]
            /\ UNCHANGED <<listed, message, scanned, manifest, places>>

\* Mutant of EndOfWalk: the end the parser reports is believed.
BelievedEnd(f) ==
  /\ walk[f].state = "walk"
  /\ IF Alone(f)
       THEN Dies(f)
       ELSE /\ message' = [message EXCEPT ![f] = <<"done", walk[f].scanned>>]
            /\ walk' = [walk EXCEPT ![f].state = "done"]
            /\ UNCHANGED <<listed, ack, scanned, manifest, places>>

\* The parser of a RAR may report the end too early: the entries its headers declare
\* are compared.  A ZIP is read by its directory; there the end is trusted.
EndOfWalk(f) ==
  /\ walk[f].state = "walk"
  /\ IF ~WalkIsOver(f) \/ Alone(f)
       THEN Dies(f)
       ELSE /\ message' = [message EXCEPT ![f] = <<"done", walk[f].scanned>>]
            /\ walk' = [walk EXCEPT ![f].state = "done"]
            /\ UNCHANGED <<listed, ack, scanned, manifest, places>>

(***************************************************************************)
(* The parent: scan_archive.                                               *)
(***************************************************************************)
\* The lock is shared with other scans and refused while a controller clears.
StartHelper(f, entries) ==
  /\ ~clearing
  /\ locked' = [locked EXCEPT ![f] = TRUE]
  /\ workspace' = [workspace EXCEPT ![f] = TRUE]
  /\ walk' = [walk EXCEPT ![f] = [NoHelper EXCEPT !.state = "walk"]]
  /\ listed' = [listed EXCEPT ![f] = entries]
  /\ UNCHANGED <<message, ack, scanned, manifest, clearing>>

ReadMember(f) ==
  /\ message[f] # Nil /\ message[f][1] = "member"
  /\ message' = [message EXCEPT ![f] = Nil]
  /\ scanned' = [scanned EXCEPT ![f] = @ + 1]
  /\ UNCHANGED <<walk, listed, ack, manifest, places>>

Acknowledge(f) ==
  /\ ack' = [ack EXCEPT ![f] = TRUE]
  /\ UNCHANGED <<walk, listed, message, scanned, manifest, places>>

ReadDone(f) ==
  /\ message[f] # Nil /\ message[f][1] = "done"
  /\ manifest' = [manifest EXCEPT ![f] = message[f][2]]
  /\ message' = [message EXCEPT ![f] = Nil]
  /\ UNCHANGED <<walk, listed, ack, scanned, places>>

\* Both pipes are at their end and the helper is gone.
AtEnd(f) == walk[f].state \in {"done", "died"} /\ message[f] = Nil

\* An exit code of 0, a "done" message and the right count.
Complete(f) == walk[f].state = "done" /\ manifest[f] = scanned[f]

\* The helper is killed and reaped, the workspace removed, the lock released.
CloseHelper(f) ==
  /\ walk' = [walk EXCEPT ![f] = NoHelper]
  /\ listed' = [listed EXCEPT ![f] = << >>]
  /\ message' = [message EXCEPT ![f] = Nil]
  /\ ack' = [ack EXCEPT ![f] = FALSE]
  /\ scanned' = [scanned EXCEPT ![f] = 0]
  /\ manifest' = [manifest EXCEPT ![f] = Nil]
  /\ workspace' = [workspace EXCEPT ![f] = FALSE]
  /\ locked' = [locked EXCEPT ![f] = FALSE]
  /\ UNCHANGED clearing

\* The controller dies: the system drops its lock and closes its pipes.
Orphan(S) ==
  /\ locked' = [f \in Scans |-> locked[f] /\ f \notin S]
  /\ message' = [f \in Scans |-> IF f \in S THEN Nil ELSE message[f]]
  /\ ack' = [f \in Scans |-> ack[f] /\ f \notin S]
  /\ UNCHANGED <<walk, listed, scanned, manifest, workspace, clearing>>

(***************************************************************************)
(* A controller that starts: cleanup_archive_workspaces.                   *)
(***************************************************************************)
\* Mutant of StartClearing: the exclusive lock is not needed.
ClearAtOnce ==
  /\ ~clearing
  /\ clearing' = TRUE
  /\ UNCHANGED <<walk, listed, message, ack, scanned, manifest, workspace, locked>>

StartClearing ==
  /\ ~clearing /\ \A f \in Scans : ~locked[f]
  /\ clearing' = TRUE
  /\ UNCHANGED <<walk, listed, message, ack, scanned, manifest, workspace, locked>>

EndClearing ==
  /\ clearing /\ clearing' = FALSE
  /\ workspace' = [f \in Scans |-> FALSE]
  /\ UNCHANGED <<walk, listed, message, ack, scanned, manifest, locked>>

HelperStep(f) == Extract(f) \/ ReadAck(f) \/ EndOfWalk(f)

\* A scan that holds the lock has its workspace, and no controller is clearing.
WorkspacesAreKept == \A f \in Scans : locked[f] => workspace[f] /\ ~clearing
=============================================================================
