------------------------------- MODULE FileScan -------------------------------
(***************************************************************************)
(* The scan of one file: ScannerService.scan_path (app/scanner.py), with   *)
(* the requests and windows of WindowScan and the archives of ArchiveScan. *)
(*                                                                         *)
(* A file that ClamD takes is sent whole.  If ClamD reaches a limit, or    *)
(* the file is larger than it takes, a known archive is unpacked and each  *)
(* member scanned as a file of its own, and anything else must pass for    *)
(* media, whose attachments are scanned one by one before its windows.     *)
(* Matroska attachments are also scanned when ClamD passed the file.       *)
(***************************************************************************)
EXTENDS WindowScan, ArchiveScan

CONSTANTS
  Native,     \* scanner_max_file_bytes
  Inputs      \* the files that may be scanned: an object and its form

\* Of what ClamD finds, an archive holds none outside its leaves, and only Matroska
\* has attachments that ClamD does not look into by itself.
Kinds == {"media", "matroska", "archive", "data"}
Entries == [depth : Nat, kind : {"dir", "archive", "leaf", "bad"}, infected : BOOLEAN]
Forms == [kind : Kinds, attachments : Seq(BOOLEAN), entries : Seq(Entries)]
InputOK(input) ==
  /\ input.object \in Objects
  /\ input.form \in Forms
  /\ input.form.kind # "matroska" => input.form.attachments = << >>
  /\ input.form.kind # "archive" => input.form.entries = << >>
  /\ input.form.kind = "archive" => input.object.malware = None
  /\ \A i \in DOMAIN input.form.entries :
       input.form.entries[i].infected => input.form.entries[i].kind = "leaf"

\* None is not a record.
ASSUME FileAssumption ==
  /\ Native \in Nat /\ Window <= Native /\ Scans = Files
  /\ \A f \in Files : \A input \in Inputs[f] : InputOK(input)
  /\ None \notin [from : Nat, to : Nat] \cup [object : Objects, form : Forms]

VARIABLES
  stage,      \* where the main thread of each file is
  form,       \* kind, attachments and entries of what it scans
  outer,      \* while a member is scanned: the archive and its form
  passed,     \* ClamD found the whole file clean
  next,       \* the attachment that is next
  outcome     \* what scan_path is about to return, and has returned when done

mainVars == <<stage, form, outer, passed, next, outcome>>
fileVars == <<windowVars, archiveVars, mainVars>>

Inside(f) == outer[f] # None
IsArchive(f) == ~Inside(f) /\ form[f].kind = "archive"

\* A leaf of an archive, written to a file that nobody else touches.  It is kept
\* to the smallest file that is infected or not, sent whole: windows and
\* attachments are only tried in files of their own.
Member(e) == [size |-> 1, malware |-> IF e.infected THEN [from |-> 0, to |-> 1] ELSE None,
              touched |-> FALSE]
MemberForm == [kind |-> "media", attachments |-> << >>, entries |-> << >>]

FileInit ==
  /\ WindowInit /\ ArchiveInit
  /\ stage = [f \in Files |-> "idle"]
  /\ form = [f \in Files |-> MemberForm]
  /\ outer = [f \in Files |-> None]
  /\ passed = [f \in Files |-> FALSE]
  /\ next = [f \in Files |-> 1]
  /\ outcome = [f \in Files |-> None]

At(f, here) == stage[f] = here
Goto(f, there) == stage' = [stage EXCEPT ![f] = there]

\* The scan of the current object is over but for its last look at the file.
Leave(f, o) == Goto(f, "verify") /\ outcome' = [outcome EXCEPT ![f] = o]

\* Mutant: an archive is left as it is.
LeaveOpen(f, o) == Goto(f, "verify") /\ outcome' = [outcome EXCEPT ![f] = o]

\* An archive is closed first.
Break(f, o) == Goto(f, "close") /\ outcome' = [outcome EXCEPT ![f] = o]

(***************************************************************************)
(* scan_path.                                                              *)
(***************************************************************************)
\* The coordinator names a file.
Open(f) ==
  /\ At(f, "idle")
  /\ \E input \in Inputs[f] :
       /\ Load(f, input.object)
       /\ form' = [form EXCEPT ![f] = input.form]
  /\ Goto(f, "new")
  /\ UNCHANGED <<archiveVars, outer, passed, next, outcome>>

Route(f) ==
  /\ At(f, "new")
  /\ passed' = [passed EXCEPT ![f] = FALSE]
  /\ next' = [next EXCEPT ![f] = 1]
  /\ \/ /\ object[f].touched
        /\ Leave(f, "failed")
        /\ UNCHANGED windowVars
     \/ /\ ~object[f].touched /\ stopping[f]
        /\ Leave(f, "interrupted")
        /\ UNCHANGED windowVars
     \/ /\ ~object[f].touched /\ ~stopping[f] /\ object[f].size <= Native
        /\ Goto(f, "native") /\ Request(f)
        /\ UNCHANGED outcome
     \/ /\ ~object[f].touched /\ ~stopping[f] /\ object[f].size > Native
        /\ Goto(f, IF IsArchive(f) THEN "unpack" ELSE "probe")
        /\ UNCHANGED <<windowVars, outcome>>
  /\ UNCHANGED <<archiveVars, form, outer>>

\* ClamD unpacks archives and most media by itself; not every attachment.
NativeAnswers(f) ==
  LET seen   == \/ Holds(Whole(f), object[f].malware)
                \/ \E i \in DOMAIN form[f].entries : form[f].entries[i].infected
      hidden == \E i \in DOMAIN form[f].attachments : form[f].attachments[i]
  IN (IF seen THEN {"found"} ELSE IF hidden THEN {"found", "ok"} ELSE {"ok"})
       \cup {"split", "unpack", "limit", "broken"}

NativeAnswer(f) ==
  /\ At(f, "native")
  /\ \E reply \in NativeAnswers(f) : Answer(f, Main, reply)
  /\ UNCHANGED <<archiveVars, mainVars>>

\* What a reply to the main thread raises, or None.
Raised(f) ==
  LET reply == thread[f][Main].reply
  IN CASE reply = "stopped" -> "interrupted"
       [] reply = "broken"  -> "failed"
       [] reply \notin {"stopped", "broken"} /\ object[f].touched -> "failed"
       [] reply = "limit" -> "failed"
       [] OTHER -> None

JudgeNative(f) ==
  LET reply == thread[f][Main].reply
  IN /\ At(f, "native") /\ Return(f)
     /\ IF Raised(f) # None THEN Leave(f, Raised(f)) /\ UNCHANGED passed
        ELSE IF reply = "found" THEN Leave(f, "infected") /\ UNCHANGED passed
        ELSE IF reply = "ok" /\ form[f].kind = "matroska"
          THEN /\ Goto(f, "probe") /\ UNCHANGED outcome
               /\ passed' = [passed EXCEPT ![f] = TRUE]
        ELSE IF reply = "ok" THEN Leave(f, "clean") /\ UNCHANGED passed
        ELSE Goto(f, IF IsArchive(f) THEN "unpack" ELSE "probe") /\ UNCHANGED <<outcome, passed>>
     /\ UNCHANGED <<archiveVars, form, outer, next>>

(***************************************************************************)
(* Media: the probe, the attachments and the windows.                      *)
(***************************************************************************)
\* ffprobe or ffmpeg fails, runs too long, writes too much or is interrupted.
ToolFails(f) == Leave(f, "failed") \/ (stopping[f] /\ Leave(f, "interrupted"))

\* What ffprobe says of it is an approved container with nothing unknown in it.
Approved(f) == form[f].kind \in {"media", "matroska"}

Probe(f) ==
  /\ At(f, "probe")
  /\ \/ ToolFails(f)
     \/ ~Approved(f) /\ Leave(f, "failed")
     \/ Approved(f) /\ ~object[f].touched /\ Goto(f, "extract") /\ UNCHANGED outcome
  /\ UNCHANGED <<windowVars, archiveVars, form, outer, passed, next>>

AttachmentsAreDone(f) == next[f] > Len(form[f].attachments)

\* An attachment, a picture or the text of a chapter track, read whole or not at all.
ExtractAttachment(f) ==
  /\ At(f, "extract") /\ ~AttachmentsAreDone(f)
  /\ \/ ToolFails(f) /\ UNCHANGED windowVars
     \/ ~object[f].touched /\ Goto(f, "attachment") /\ Request(f) /\ UNCHANGED outcome
  /\ UNCHANGED <<archiveVars, form, outer, passed, next>>

AttachmentAnswer(f) ==
  /\ At(f, "attachment")
  /\ \E reply \in {IF form[f].attachments[next[f]] THEN "found" ELSE "ok"}
                    \cup {"split", "unpack", "limit", "broken"} : Answer(f, Main, reply)
  /\ UNCHANGED <<archiveVars, mainVars>>

\* An attachment is never split and never falls back.
JudgeAttachment(f) ==
  LET reply == thread[f][Main].reply
  IN /\ At(f, "attachment") /\ Return(f)
     /\ IF Raised(f) # None THEN Leave(f, Raised(f)) /\ UNCHANGED next
        ELSE IF reply = "found" THEN Leave(f, "infected") /\ UNCHANGED next
        ELSE IF reply # "ok" THEN Leave(f, "failed") /\ UNCHANGED next
        ELSE /\ Goto(f, "extract") /\ UNCHANGED outcome
             /\ next' = [next EXCEPT ![f] = @ + 1]
     /\ UNCHANGED <<archiveVars, form, outer, passed>>

SubmitWindows(f) ==
  /\ At(f, "extract") /\ AttachmentsAreDone(f)
  /\ IF passed[f]
       THEN Leave(f, "clean") /\ UNCHANGED windowVars
       ELSE Goto(f, "windows") /\ Submit(f) /\ UNCHANGED outcome
  /\ UNCHANGED <<archiveVars, form, outer, passed, next>>

WindowsEnd(f) ==
  /\ At(f, "windows") /\ result[f] # None
  /\ Leave(f, result[f])
  /\ UNCHANGED <<windowVars, archiveVars, form, outer, passed, next>>

(***************************************************************************)
(* Archives: _scan_archive_descriptor.                                     *)
(***************************************************************************)
Unpack(f) ==
  /\ At(f, "unpack") /\ walk[f].state = "none"
  /\ \/ Leave(f, "failed") /\ UNCHANGED archiveVars
     \/ stopping[f] /\ Leave(f, "interrupted") /\ UNCHANGED archiveVars
     \/ StartHelper(f, form[f].entries) /\ UNCHANGED <<stage, outcome>>
  /\ UNCHANGED <<windowVars, form, outer, passed, next>>

\* check_active: a stop, the deadline, or another file at the path.
CheckActive(f) ==
  /\ At(f, "unpack") /\ walk[f].state # "none"
  /\ \/ stopping[f] /\ Break(f, "interrupted")
     \/ Break(f, "failed")
  /\ UNCHANGED <<windowVars, archiveVars, form, outer, passed, next>>

\* The parent reads what the helper says; a leaf is scanned as a file.
InspectMember(f) ==
  /\ At(f, "unpack") /\ walk[f].state # "none"
  /\ ReadMember(f)
  /\ IF scanned[f] >= MaxEntries
       THEN Break(f, "failed") /\ UNCHANGED <<windowVars, form, outer>>
       ELSE /\ outer' = [outer EXCEPT ![f] = [object |-> object[f], form |-> form[f]]]
            /\ Load(f, Member(listed[f][message[f][2]]))
            /\ form' = [form EXCEPT ![f] = MemberForm]
            /\ Goto(f, "new") /\ UNCHANGED outcome
  /\ UNCHANGED <<passed, next>>

ReadManifest(f) ==
  /\ At(f, "unpack") /\ ReadDone(f)
  /\ UNCHANGED <<windowVars, mainVars>>

HelperIsGone(f) ==
  /\ At(f, "unpack") /\ AtEnd(f)
  /\ Break(f, IF Complete(f) THEN "clean" ELSE "failed")
  /\ UNCHANGED <<windowVars, archiveVars, form, outer, passed, next>>

\* The archive goes on after a clean member; its helper may have died meanwhile.
Confirm(f) ==
  /\ At(f, "confirm")
  /\ \/ stopping[f] /\ Break(f, "interrupted") /\ UNCHANGED archiveVars
     \/ Break(f, "failed") /\ UNCHANGED archiveVars
     \/ /\ walk[f].state = "wait" /\ Acknowledge(f)
        /\ Goto(f, "unpack") /\ UNCHANGED outcome
  /\ UNCHANGED <<windowVars, form, outer, passed, next>>

Close(f) ==
  /\ At(f, "close") /\ CloseHelper(f)
  /\ Goto(f, "verify")
  /\ UNCHANGED <<windowVars, form, outer, passed, next, outcome>>

\* The last look at what was scanned.  A member returns to its archive.
Verified(f) ==
  IF outcome[f] \in {"clean", "infected"} /\ object[f].touched THEN "failed" ELSE outcome[f]

Verify(f) ==
  /\ At(f, "verify")
  /\ outcome' = [outcome EXCEPT ![f] = Verified(f)]
  /\ IF Inside(f)
       THEN /\ Goto(f, IF Verified(f) = "clean" THEN "confirm" ELSE "close")
            /\ Load(f, outer[f].object)
            /\ form' = [form EXCEPT ![f] = outer[f].form]
            /\ outer' = [outer EXCEPT ![f] = None]
       ELSE Goto(f, "done") /\ UNCHANGED <<windowVars, form, outer>>
  /\ UNCHANGED <<archiveVars, passed, next>>

(***************************************************************************)
(* Others, and the next-state relation.                                    *)
(***************************************************************************)
Underway(f) == stage[f] \notin {"idle", "done", "dead"}

\* What is written there may be malware; it lies where windows are read last.
Late(f) == [from |-> object[f].size - 1, to |-> object[f].size]

\* The file of a scan is changed once; while a member is scanned it is the archive.
TouchFile(f) ==
  /\ Underway(f)
  /\ IF Inside(f)
       THEN /\ ~outer[f].object.touched
            /\ outer' = [outer EXCEPT ![f].object.touched = TRUE]
            /\ UNCHANGED object
       ELSE /\ ~object[f].touched /\ UNCHANGED outer
            /\ \E malware \in Places(object[f].size) \cap {None, Late(f)} : Touch(f, malware)
  /\ UNCHANGED <<stopping, requestVars, poolVars, archiveVars, stage, form, passed, next, outcome>>

StopScan(f) == Underway(f) /\ ~stopping[f] /\ Stop(f) /\ UNCHANGED <<archiveVars, mainVars>>

Crash ==
  /\ \E f \in Files : stage[f] = "unpack"
  /\ Die /\ Orphan(Files)
  /\ stage' = [f \in Files |-> "dead"]
  /\ UNCHANGED <<form, outer, passed, next, outcome>>

MainStep(f) ==
  \/ Open(f) \/ Route(f) \/ NativeAnswer(f) \/ JudgeNative(f)
  \/ Probe(f) \/ ExtractAttachment(f) \/ AttachmentAnswer(f) \/ JudgeAttachment(f)
  \/ SubmitWindows(f) \/ WindowsEnd(f)
  \/ Unpack(f) \/ InspectMember(f) \/ ReadManifest(f) \/ HelperIsGone(f) \/ CheckActive(f)
  \/ Confirm(f) \/ Close(f) \/ Verify(f)
  \/ ((Collect(f) \/ Conclude(f) \/ RequestStep(f, Main)) /\ UNCHANGED <<archiveVars, mainVars>>)

WorkStep(f, w) == (WorkerStep(f, w) \/ RequestStep(f, w)) /\ UNCHANGED <<archiveVars, mainVars>>
HelpStep(f) == HelperStep(f) /\ UNCHANGED <<windowVars, mainVars>>
Clear == (StartClearing \/ EndClearing) /\ UNCHANGED <<windowVars, mainVars>>

FileNext ==
  \/ \E f \in Files : MainStep(f)
  \/ \E f \in Files : \E w \in Workers : WorkStep(f, w)
  \/ \E f \in Files : HelpStep(f)
  \/ \E f \in Files : HelperDies(f) /\ UNCHANGED <<windowVars, mainVars>>
  \/ \E f \in Files : TouchFile(f) \/ StopScan(f)
  \/ Clear \/ Crash

FileSpec == FileInit /\ [][FileNext]_fileVars

\* Threads and processes run, ClamD answers before the deadline or the request
\* ends with it, and a controller that clears the mount comes to its end.
FairFileSpec ==
  /\ FileSpec
  /\ \A f \in Files : /\ WF_fileVars(MainStep(f)) /\ WF_fileVars(HelpStep(f))
                      /\ \A w \in Workers : WF_fileVars(WorkStep(f, w))
  /\ WF_fileVars(EndClearing /\ UNCHANGED <<windowVars, mainVars>>)

(***************************************************************************)
(* Properties.                                                             *)
(***************************************************************************)
\* A file that is found clean holds no malware that ClamD would find: not in
\* the file, not in an attachment, not in a member at any depth
\* (scan_path, _scan_media_attachments, scan_archive).
NothingIsMissed ==
  \A f \in Files : stage[f] = "done" /\ outcome[f] = "clean" =>
    /\ object[f].malware = None
    /\ \A i \in DOMAIN form[f].attachments : ~form[f].attachments[i]
    /\ \A i \in DOMAIN form[f].entries : ~form[f].entries[i].infected

\* A scan that is over leaves no helper, workspace or lock behind
\* (scan_archive's finally and its context managers).
NothingIsLeft ==
  \A f \in Files : stage[f] \in {"verify", "done"} /\ ~Inside(f) =>
    walk[f].state = "none" /\ ~workspace[f] /\ ~locked[f]

\* Every scan ends, however its requests compete for the slots, and so does
\* its helper, which does not outlive a parent that was killed.
ScansEnd ==
  \A f \in Files :
    <>[](stage[f] \in {"done", "dead"} /\ walk[f].state \in {"none", "done", "died"})
=============================================================================
