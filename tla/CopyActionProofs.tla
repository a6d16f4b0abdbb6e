--------------------------- MODULE CopyActionProofs ---------------------------
(***************************************************************************)
(* Proofs about CopyAction for any jobs mapped to one path, any number of  *)
(* processes, and any number of changes and deaths.                        *)
(***************************************************************************)
EXTENDS CopyAction, TLAPS

\* An attempt that writes a directory at the destination itself.
Holding(p) == ~IsFile /\ pc[p] \in {"transfer", "check"}

\* Only one attempt writes there, since a directory is created only once.
Exclusive == \A p, q \in Runners : Holding(p) /\ Holding(q) => p = q

\* What an attempt has written is its job's content as long as the source stays.
Copied(p) ==
  /\ Holding(p) =>
       /\ target # None
       /\ src[p] => \A f \in payload : target[f] \in Bytes => target[f] = source[job[p]][f]
       /\ pc[p] = "check" => \A f \in payload : target[f] \in Bytes
  /\ src[p] /\ work[p] \in Bytes => work[p] = source[job[p]][Single]
  /\ pc[p] = "idle" => work[p] = "missing"
  /\ IsFile /\ pc[p] \in {"check", "link"} => work[p] \in Bytes
  /\ pc[p] = "link" => IsFile

\* From a comparison, a receipt or a copy on, snapshots that hold mean equality.
Compared(p) ==
  pc[p] \in {"match", "confirm", "verify", "publish", "report"} /\ Unchanged(p) => Same(job[p])

Local(p) == (pc[p] # "idle" => job[p] \in Jobs) /\ Copied(p) /\ Compared(p)

\* The inductive invariant.
Inv == TypeOK /\ Exclusive /\ ReceiptsAreTrue /\ \A p \in Runners : Local(p)
-----------------------------------------------------------------------------

\* Words of a file's progress are no contents, and None is no content of a path.
LEMMA Distinct ==
  /\ "missing" \notin Bytes /\ "partial" \notin Bytes
  /\ payload \in {{Single}, Names} => None \notin [payload -> Entries]
<1>1. "missing" \notin Bytes /\ "partial" \notin Bytes
  BY CopyActionAssumption DEF CopyActionAssumption
<1>2. ASSUME payload \in {{Single}, Names} PROVE None \notin [payload -> Entries]
  <2>1. payload \in SUBSET Names
    BY <1>2, CopyActionAssumption DEF CopyActionAssumption
  <2> QED
    BY <2>1, CopyActionAssumption DEF CopyActionAssumption, Entries
<1> QED
  BY <1>1, <1>2

\* Nothing has been tried, and the destination is free.
LEMMA InitInv == Init => Inv
<1> SUFFICES ASSUME Init PROVE Inv
  OBVIOUS
<1> USE DEF Init
<1>1. TypeOK
  BY CopyActionAssumption DEF CopyActionAssumption, TypeOK, Places, Entries
<1>2. Exclusive /\ ReceiptsAreTrue
  BY DEF Exclusive, Holding, ReceiptsAreTrue, Matches
<1>3. \A p \in Runners : Local(p)
  BY Distinct DEF Local, Copied, Compared, Holding
<1> QED
  BY <1>1, <1>2, <1>3 DEF Inv

\* A step of one attempt that leaves the destination, the sources and the
\* receipts alone keeps what is known of the others.
LEMMA Quiet ==
  ASSUME Inv, NEW p \in Runners, UNCHANGED disk, TypeOK',
         \A q \in Runners \ {p} :
           /\ pc'[q] = pc[q] /\ job'[q] = job[q] /\ work'[q] = work[q]
           /\ src'[q] = src[q] /\ dst'[q] = dst[q],
         Holding(p)' => Holding(p), Local(p)'
  PROVE  Inv'
<1> USE DEF Inv, disk
<1>1. \A q \in Runners \ {p} : Local(q)'
  BY DEF Local, Copied, Compared, Holding, Unchanged, Same, IsFile
<1>2. Exclusive'
  BY DEF Exclusive, Holding, IsFile
<1>3. ReceiptsAreTrue'
  BY DEF ReceiptsAreTrue, Matches, Same
<1> QED
  BY <1>1, <1>2, <1>3

\* A failure leaves nothing to know.
LEMMA FailsInv ==
  ASSUME Inv, NEW p \in Runners, Fails(p), changes' = changes, faults' \in 0 .. MaxFaults
  PROVE  Inv'
<1> USE DEF Inv, Fails, Gone, Goes, disk
<1>1. TypeOK'
  BY DEF TypeOK, Places, Entries
<1>2. Local(p)'
  BY Distinct DEF Local, Copied, Compared, Holding, TypeOK
<1>3. ~Holding(p)'
  BY DEF Holding, TypeOK
<1> QED
  BY <1>1, <1>2, <1>3, Quiet DEF TypeOK

\* An attempt that moves on keeps its own knowledge if it needs no more there.
LEMMA PassesInv ==
  ASSUME Inv, NEW p \in Runners, NEW label \in Places \ {"idle"}, pc[p] # "idle",
         Goes(p, label), Stays, UNCHANGED <<changes, faults>>,
         dst' \in [Runners -> BOOLEAN], \A q \in Runners \ {p} : dst'[q] = dst[q],
         Holding(p)' => Holding(p), Copied(p)', Compared(p)'
  PROVE  Inv'
<1> USE DEF Inv, Goes, Stays
<1>1. TypeOK'
  BY DEF TypeOK, disk
<1>2. Local(p)'
  BY DEF Local
<1> QED
  BY <1>1, <1>2, Quiet DEF TypeOK

\* A write to the destination keeps the types of what it says of snapshots.
LEMMA WrittenType ==
  ASSUME TypeOK, NEW t \in [payload -> Entries] \cup {None}, NEW ps \in SUBSET Runners, TargetWritten(t, ps)
  PROVE  /\ target' = t /\ dst' \in [Runners -> BOOLEAN]
         /\ receipt' \in [Jobs -> Snapshots \cup {None}]
<1>1. \A j \in Jobs : receipt[j] # None => [receipt[j] EXCEPT !.dst = FALSE] \in Snapshots
  BY DEF TypeOK, Snapshots
<1>2. \A j \in Jobs : (IF receipt[j] = None THEN None ELSE [receipt[j] EXCEPT !.dst = FALSE])
                         \in Snapshots \cup {None}
  BY <1>1
<1> QED
  BY <1>2 DEF TargetWritten

-----------------------------------------------------------------------------

\* Begin knows the source, and has written nothing yet.
LEMMA BeginInv == ASSUME Inv, NEW p \in Runners, NEW j \in Jobs, Begin(p, j) PROVE Inv'
<1> USE DEF Inv, Begin, Goes, disk
<1>1. TypeOK'
  BY DEF TypeOK, Places
<1>2. Local(p)'
  BY Distinct DEF Local, Copied, Compared, Holding, TypeOK
<1>3. ~Holding(p)'
  BY DEF Holding, TypeOK
<1> QED
  BY <1>1, <1>2, <1>3, Quiet DEF TypeOK

\* The lock changes nothing that is known.
LEMMA LockInv == ASSUME Inv, NEW p \in Runners, Lock(p) PROVE Inv'
<1> USE DEF Inv
<1>1. CASE Passes(p, "look")
  <2> USE <1>1 DEF Lock, Passes, Goes, Stays, disk
  <2>1. ~Holding(p)' /\ Compared(p)' /\ dst' \in [Runners -> BOOLEAN]
    BY DEF Holding, Compared, TypeOK
  <2>2. Copied(p)'
    BY <2>1 DEF Copied, Local, TypeOK, IsFile
  <2> QED
    BY <2>1, <2>2, PassesInv DEF Places
<1>2. CASE Fails(p)
  BY <1>2, FailsInv DEF Lock, TypeOK
<1> QED
  BY <1>1, <1>2 DEF Lock

\* A receipt that matches stands for equal content.
LEMMA LookInv == ASSUME Inv, NEW p \in Runners, Look(p) PROVE Inv'
<1> USE DEF Inv, Look, Stays, Goes, disk
<1> DEFINE label == IF target = None THEN "reserve"
                    ELSE IF Matches(job[p]) THEN "match" ELSE "compare"
<1>1. pc' = [pc EXCEPT ![p] = label] /\ dst' \in [Runners -> BOOLEAN]
  BY DEF TypeOK
<1>2. label \in {"reserve", "match", "compare"}
  OBVIOUS
<1> HIDE DEF label
<1>3. ~Holding(p)' /\ Copied(p)'
  BY <1>1, <1>2 DEF Holding, Copied, Local, TypeOK, IsFile
<1>4. Compared(p)'
  <2> SUFFICES ASSUME label = "match" PROVE Same(job[p])
    BY <1>1, <1>2 DEF Compared, Same, TypeOK
  <2>1. Matches(job[p]) /\ job[p] \in Jobs
    BY DEF label, Local
  <2> QED
    BY <2>1 DEF ReceiptsAreTrue
<1> QED
  BY <1>1, <1>2, <1>3, <1>4, PassesInv DEF Places, TypeOK

\* A match ends the attempt.
LEMMA MatchInv == ASSUME Inv, NEW p \in Runners, Match(p) PROVE Inv'
<1> USE DEF Inv
<1>1. CASE Succeeds(p) /\ UNCHANGED disk
  <2> USE <1>1 DEF Match, Succeeds, Gone, Goes, disk
  <2>1. TypeOK'
    BY DEF TypeOK, Places, Entries, Local
  <2>2. Local(p)' /\ ~Holding(p)'
    BY Distinct DEF Local, Copied, Compared, Holding, TypeOK
  <2> QED
    BY <2>1, <2>2, Quiet DEF TypeOK
<1>2. CASE Fails(p)
  BY <1>2, FailsInv DEF Match, TypeOK
<1> QED
  BY <1>1, <1>2 DEF Match

\* The comparison itself.
LEMMA CompareInv == ASSUME Inv, NEW p \in Runners, Compare(p) PROVE Inv'
<1> USE DEF Inv
<1>1. CASE SameContents(p) /\ Passes(p, "confirm")
  <2> USE <1>1 DEF Compare, SameContents, Passes, Goes, Stays, disk
  <2>1. ~Holding(p)' /\ dst' \in [Runners -> BOOLEAN]
    BY DEF Holding, TypeOK
  <2>2. Copied(p)' /\ Compared(p)'
    BY <2>1 DEF Copied, Compared, Same, Local, TypeOK, IsFile
  <2> QED
    BY <2>1, <2>2, PassesInv DEF Places
<1>2. CASE Fails(p)
  BY <1>2, FailsInv DEF Compare, TypeOK
<1> QED
  BY <1>1, <1>2 DEF Compare

\* Snapshots that still hold keep what they stood for.
LEMMA ConfirmInv == ASSUME Inv, NEW p \in Runners, Confirm(p) PROVE Inv'
<1> USE DEF Inv
<1>1. CASE Passes(p, "publish")
  <2> USE <1>1 DEF Confirm, Passes, Goes, Stays, disk
  <2>1. ~Holding(p)' /\ dst' \in [Runners -> BOOLEAN]
    BY DEF Holding, TypeOK
  <2>2. Copied(p)' /\ Compared(p)'
    BY <2>1 DEF Copied, Compared, Same, Unchanged, Local, TypeOK, IsFile
  <2> QED
    BY <2>1, <2>2, PassesInv DEF Places
<1>2. CASE Fails(p)
  BY <1>2, FailsInv DEF Confirm, TypeOK
<1> QED
  BY <1>1, <1>2 DEF Confirm

\* A file is prepared without a look at the destination.
LEMMA ReserveFileInv == ASSUME Inv, NEW p \in Runners, ReserveFile(p) PROVE Inv'
<1> USE DEF Inv
<1>1. CASE Passes(p, "transfer")
  <2> USE <1>1 DEF ReserveFile, Passes, Goes, Stays, disk
  <2>1. ~Holding(p)' /\ dst' \in [Runners -> BOOLEAN]
    BY DEF Holding, TypeOK, IsFile
  <2>2. Copied(p)' /\ Compared(p)'
    BY <2>1 DEF Copied, Compared, Local, TypeOK, IsFile
  <2> QED
    BY <2>1, <2>2, PassesInv DEF Places
<1>2. CASE Fails(p)
  BY <1>2, FailsInv DEF ReserveFile, TypeOK
<1> QED
  BY <1>1, <1>2 DEF ReserveFile

\* Nobody else writes there when a directory is created.
LEMMA ReserveDirectoryInv ==
  ASSUME Inv, NEW p \in Runners, ReserveDirectory(p) PROVE Inv'
<1> USE DEF Inv
<1>1. CASE MayCreate /\ TargetWritten(Absent, {}) /\ Goes(p, "transfer")
           /\ UNCHANGED <<payload, source, job, work, src, succeeded>>
  <2> USE <1>1 DEF ReserveDirectory, Goes
  <2>1. Absent \in [payload -> Entries]
    BY DEF Absent, Entries
  <2>2. TypeOK'
    BY <2>1, WrittenType DEF TypeOK, Places
  <2>3. \A q \in Runners : ~Holding(q)
    BY DEF MayCreate, Local, Copied
  <2>4. Exclusive'
    BY <2>3 DEF Exclusive, Holding, IsFile, TypeOK
  <2>5. target' # None /\ \A f \in payload : target'[f] \notin Bytes
    BY <2>1, Distinct DEF TargetWritten, Absent, TypeOK
  <2>6. Local(p)'
    BY <2>5, Distinct DEF Local, Copied, Compared, Holding, TypeOK, IsFile
  <2>7. \A q \in Runners \ {p} : Local(q)'
    BY <2>3 DEF Local, Copied, Compared, Holding, Unchanged, IsFile, TargetWritten, TypeOK
  <2>8. ReceiptsAreTrue'
    BY DEF ReceiptsAreTrue, Matches, TypeOK, Snapshots, TargetWritten
  <2> QED
    BY <2>2, <2>4, <2>6, <2>7, <2>8
<1>2. CASE Fails(p)
  BY <1>2, FailsInv DEF ReserveDirectory, TypeOK
<1> QED
  BY <1>1, <1>2 DEF ReserveDirectory

\* A file's copy is its source's content when it is complete.
LEMMA TransferFileInv ==
  ASSUME Inv, NEW p \in Runners, TransferFile(p) PROVE Inv'
<1> USE DEF Inv
<1>1. CASE Passes(p, "check") /\ work[p] \in Bytes
  <2> USE <1>1 DEF TransferFile, Passes, Goes, Stays, disk
  <2>1. ~Holding(p)' /\ dst' \in [Runners -> BOOLEAN]
    BY DEF Holding, TypeOK, IsFile
  <2>2. Copied(p)' /\ Compared(p)'
    BY <2>1 DEF Copied, Compared, Local, TypeOK, IsFile
  <2> QED
    BY <2>1, <2>2, PassesInv DEF Places
<1>2. ASSUME NEW b \in Entries, Written(work[p], b, source[job[p]][Single]),
             work' = [work EXCEPT ![p] = b],
             UNCHANGED <<disk, pc, job, src, dst, succeeded>>
      PROVE  Inv'
  <2> USE <1>2 DEF TransferFile, disk
  <2>1. work' \in [Runners -> Entries] /\ UNCHANGED <<changes, faults>>
    BY DEF TypeOK
  <2>t. TypeOK'
    BY <2>1 DEF TypeOK
  <2>2. b \in Bytes => b = source[job[p]][Single]
    BY Distinct DEF Written
  <2>3. Local(p)'
    BY <2>2 DEF Local, Copied, Compared, Holding, Unchanged, Same, IsFile, TypeOK
  <2>4. ~Holding(p)'
    BY DEF Holding, IsFile
  <2> QED
    BY <2>t, <2>3, <2>4, Quiet DEF TypeOK
<1> QED
  BY <1>1, <1>2 DEF TransferFile

\* Only the attempt that created a directory writes to it.
LEMMA TransferDirectoryInv ==
  ASSUME Inv, NEW p \in Runners, TransferDirectory(p) PROVE Inv'
<1> USE DEF Inv
<1>h. Holding(p) /\ target # None /\ target \in [payload -> Entries] /\ job[p] \in Jobs
  BY DEF TransferDirectory, Holding, Local, Copied, TypeOK
<1>1. CASE Passes(p, "check") /\ \A f \in payload : target[f] \in Bytes
  <2> USE <1>1, <1>h DEF TransferDirectory, Passes, Goes, Stays, disk
  <2>1. Compared(p)' /\ dst' \in [Runners -> BOOLEAN]
    BY DEF Compared, TypeOK
  <2>2. Copied(p)'
    BY DEF Copied, Local, TypeOK, IsFile, Holding
  <2> QED
    BY <2>1, <2>2, PassesInv DEF Places
<1>2. ASSUME NEW f \in payload, NEW b \in Entries, Written(target[f], b, source[job[p]][f]),
             TargetWritten([target EXCEPT ![f] = b], {}),
             UNCHANGED <<payload, source, pc, job, work, src, succeeded>>
      PROVE  Inv'
  <2> USE <1>2, <1>h DEF TransferDirectory
  <2> DEFINE t == [target EXCEPT ![f] = b]
  <2>1. t \in [payload -> Entries] /\ target' = t
    BY DEF TargetWritten
  <2>w. dst' \in [Runners -> BOOLEAN] /\ receipt' \in [Jobs -> Snapshots \cup {None}]
    <3>1. {} \in SUBSET Runners /\ TypeOK /\ t \in [payload -> Entries] \cup {None}
      BY <2>1
    <3>2. TargetWritten(t, {})
      OBVIOUS
    <3> HIDE DEF t
    <3> QED
      BY <3>1, <3>2, WrittenType
  <2>2. TypeOK'
    BY <2>1, <2>w DEF TypeOK
  <2>3. Exclusive'
    BY DEF Exclusive, Holding, IsFile
  <2>4. ReceiptsAreTrue'
    BY DEF ReceiptsAreTrue, Matches, TypeOK, Snapshots, TargetWritten
  <2>5. target' # None /\ \A q \in Runners : ~dst'[q]
    BY <2>1, Distinct DEF TypeOK, TargetWritten
  <2>6. ASSUME NEW q \in Runners \ {p} PROVE Local(q)'
    <3>1. ~Holding(q) /\ Local(q)
      BY DEF Exclusive
    <3>2. ~Holding(q)'
      BY <3>1 DEF Holding, IsFile
    <3> QED
      BY <2>5, <3>1, <3>2 DEF Local, Copied, Compared, Unchanged, IsFile
  <2>7. \A g \in payload : target'[g] \in Bytes =>
          target'[g] = target[g] \/ target'[g] = source[job[p]][g]
    BY <2>1, Distinct DEF Written
  <2>8. Copied(p)'
    BY <2>5, <2>7, <2>1 DEF Local, Copied, Holding, IsFile, TypeOK
  <2>9. Local(p)'
    BY <2>5, <2>8 DEF Local, Compared, Unchanged
  <2> QED
    BY <2>2, <2>3, <2>4, <2>6, <2>9
<1> QED
  BY <1>1, <1>2 DEF TransferDirectory

\* A complete directory whose source stayed is its source's content.
LEMMA CheckInv == ASSUME Inv, NEW p \in Runners, Check(p) PROVE Inv'
<1> USE DEF Inv
<1>1. CASE src[p] /\ Stays /\ dst' = [dst EXCEPT ![p] = ~IsFile]
           /\ Goes(p, IF IsFile THEN "link" ELSE "verify")
  <2> USE <1>1 DEF Check, Stays, Goes, disk
  <2>1. ~Holding(p)' /\ dst' \in [Runners -> BOOLEAN]
    BY DEF Holding, TypeOK
  <2>2. Copied(p)'
    BY <2>1 DEF Copied, Local, TypeOK, IsFile
  <2>3. CASE IsFile
    BY <2>1, <2>2, <2>3, PassesInv DEF Places, Compared, TypeOK
  <2>4. CASE ~IsFile
    <3>1. Holding(p) /\ job[p] \in Jobs
      BY <2>4 DEF Holding, Local
    <3>2. /\ target # None /\ target \in [payload -> Entries]
          /\ source[job[p]] \in [payload -> Bytes]
          /\ \A f \in payload : target[f] = source[job[p]][f]
      BY <3>1 DEF Local, Copied, TypeOK
    <3>3. Same(job[p])
      BY <3>2 DEF Same
    <3>4. Compared(p)'
      BY <3>3 DEF Compared, Same
    <3> QED
      BY <2>1, <2>2, <2>4, <3>1, <3>4, PassesInv DEF Places, TypeOK
  <2> QED
    BY <2>3, <2>4
<1>2. CASE Fails(p)
  BY <1>2, FailsInv DEF Check, TypeOK
<1> QED
  BY <1>1, <1>2 DEF Check

\* The file that is linked is the complete copy.
LEMMA LinkInv == ASSUME Inv, NEW p \in Runners, Link(p) PROVE Inv'
<1> USE DEF Inv
<1>1. CASE TargetWritten([f \in payload |-> work[p]], {p}) /\ Goes(p, "verify")
           /\ UNCHANGED <<payload, source, job, work, src, succeeded>>
  <2> USE <1>1 DEF Link, Goes
  <2>1. IsFile /\ work[p] \in Bytes /\ job[p] \in Jobs
    BY DEF Local, Copied
  <2>2. [f \in payload |-> work[p]] \in [payload -> Entries]
    BY <2>1 DEF Entries
  <2>3. TypeOK'
    BY <2>2, WrittenType DEF TypeOK, Places
  <2>4. target' = [f \in payload |-> work[p]] /\ target' # None
    BY <2>2, Distinct DEF TargetWritten, TypeOK
  <2>5. \A q \in Runners : ~Holding(q)'
    BY <2>1 DEF Holding, IsFile
  <2>6. Exclusive'
    BY <2>5 DEF Exclusive
  <2>7. ReceiptsAreTrue'
    BY DEF ReceiptsAreTrue, Matches, TypeOK, Snapshots, TargetWritten
  <2>8. \A q \in Runners : Copied(q)'
    BY <2>5, <2>1 DEF Copied, Local, IsFile, TypeOK
  <2>9. \A q \in Runners \ {p} : Local(q)'
    BY <2>8 DEF Local, Compared, Unchanged, TargetWritten, TypeOK
  <2>10. src[p] => source[job[p]] = [f \in payload |-> work[p]]
    <3>1. payload = {Single} /\ source[job[p]] \in [payload -> Bytes]
      BY <2>1 DEF IsFile, TypeOK
    <3>2. src[p] => source[job[p]][Single] = work[p]
      BY <2>1 DEF Local, Copied
    <3> QED
      BY <3>1, <3>2
  <2>11. Local(p)'
    BY <2>1, <2>4, <2>8, <2>10 DEF Local, Compared, Unchanged, Same
  <2> QED
    BY <2>3, <2>6, <2>7, <2>9, <2>11
<1>2. CASE Fails(p)
  BY <1>2, FailsInv DEF Link, TypeOK
<1> QED
  BY <1>1, <1>2 DEF Link

\* A receipt repeats what was compared.
LEMMA PublishInv == ASSUME Inv, NEW p \in Runners, Publish(p) PROVE Inv'
<1> USE DEF Inv, Publish, Goes
<1>1. job[p] \in Jobs /\ (Unchanged(p) => Same(job[p]))
  BY DEF Local, Compared
<1>2. Receipt(p) \in Snapshots
  BY DEF Receipt, Snapshots, TypeOK
<1>3. TypeOK'
  BY <1>1, <1>2 DEF TypeOK, Places, Entries
<1>4. \A j \in Jobs : Same(j)' = Same(j)
  BY DEF Same
<1>5. ReceiptsAreTrue'
  <2> SUFFICES ASSUME NEW j \in Jobs, Matches(j)' PROVE Same(j)
    BY <1>4 DEF ReceiptsAreTrue
  <2>1. CASE j = job[p]
    BY <1>1, <2>1 DEF Matches, Receipt, Unchanged, TypeOK
  <2>2. CASE j # job[p]
    BY <1>1, <2>2 DEF Matches, ReceiptsAreTrue, TypeOK
  <2> QED
    BY <2>1, <2>2
<1>6. Exclusive'
  BY DEF Exclusive, Holding, IsFile, TypeOK
<1>7. Local(p)'
  <2>1. pc'[p] = "report" /\ Unchanged(p)' = Unchanged(p) /\ Same(job[p])' = Same(job[p])
    BY DEF Unchanged, Same, TypeOK
  <2>2. Copied(p)'
    BY <2>1 DEF Local, Copied, Holding
  <2>3. Compared(p)'
    BY <1>1, <2>1 DEF Compared
  <2> QED
    BY <1>1, <2>2, <2>3 DEF Local
<1>8. \A q \in Runners \ {p} : Local(q)'
  BY DEF Local, Copied, Compared, Holding, Unchanged, Same, IsFile, TypeOK
<1> QED
  BY <1>3, <1>5, <1>6, <1>7, <1>8

\* The report changes nothing but the attempt.
LEMMA ReportInv == ASSUME Inv, NEW p \in Runners, Report(p) PROVE Inv'
<1> USE DEF Inv, Report, Succeeds, Gone, Goes, disk
<1>1. job[p] \in Jobs
  BY DEF Local
<1>2. TypeOK'
  BY <1>1 DEF TypeOK, Places, Entries
<1>3. ReceiptsAreTrue'
  BY DEF ReceiptsAreTrue, Matches, Same
<1>4. Exclusive'
  BY DEF Exclusive, Holding, IsFile, TypeOK
<1>5. Local(p)'
  BY Distinct DEF Local, Copied, Compared, Holding, TypeOK
<1>6. \A q \in Runners \ {p} : Local(q)'
  BY DEF Local, Copied, Compared, Holding, Unchanged, Same, IsFile, TypeOK
<1> QED
  BY <1>2, <1>3, <1>4, <1>5, <1>6

\* An attempt ends anywhere.
LEMMA KillInv == ASSUME Inv, NEW p \in Runners, Kill(p) PROVE Inv'
<1>1. faults' \in 0 .. MaxFaults
  BY CopyActionAssumption DEF Inv, Kill, TypeOK, CopyActionAssumption
<1> QED
  BY <1>1, FailsInv DEF Kill

\* Whoever relied on a source that changes knows it no longer.
LEMMA ChangeSourceInv == ASSUME Inv, NEW j \in Jobs, ChangeSource(j) PROVE Inv'
<1> USE DEF Inv, ChangeSource, Change
<1>1. PICK f \in payload, b \in Bytes : source' = [source EXCEPT ![j][f] = b]
  OBVIOUS
<1>2. source' \in [Jobs -> [payload -> Bytes]] /\ \A k \in Jobs \ {j} : source'[k] = source[k]
  BY <1>1 DEF TypeOK
<1>3. /\ receipt' \in [Jobs -> Snapshots \cup {None}]
      /\ \A k \in Jobs \ {j} : receipt'[k] = receipt[k]
      /\ receipt'[j] # None => ~receipt'[j].src
  BY DEF TypeOK, Snapshots
<1>4. changes' \in 0 .. MaxChanges
  BY CopyActionAssumption DEF TypeOK, CopyActionAssumption
<1>5. TypeOK'
  BY <1>2, <1>3, <1>4 DEF TypeOK
<1>6. ReceiptsAreTrue'
  BY <1>2, <1>3 DEF ReceiptsAreTrue, Matches, Same
<1>7. Exclusive'
  BY DEF Exclusive, Holding, IsFile
<1>8. ASSUME NEW p \in Runners PROVE Local(p)'
  <2>1. CASE job[p] = j
    BY <2>1 DEF Local, Copied, Compared, Holding, Unchanged, IsFile
  <2>2. CASE job[p] # j /\ job[p] \in Jobs
    <3>1. source'[job[p]] = source[job[p]] /\ src'[p] = src[p]
      BY <1>2, <2>2 DEF TypeOK
    <3> QED
      BY <2>2, <3>1 DEF Local, Copied, Compared, Holding, Unchanged, Same, IsFile
  <2>3. CASE job[p] \notin Jobs
    BY <2>3, Distinct DEF Local, Copied, Compared, Holding, IsFile
  <2> QED
    BY <2>1, <2>2, <2>3
<1> QED
  BY <1>5, <1>6, <1>7, <1>8

\* Whoever relied on a destination that changes knows it no longer.
LEMMA ChangeTargetInv == ASSUME Inv, ChangeTarget PROVE Inv'
<1> USE DEF Inv, ChangeTarget, Change
<1>1. PICK t \in [payload -> Bytes] \cup {None} : TargetWritten(t, {})
  OBVIOUS
<1>2. t \in [payload -> Entries] \cup {None}
  BY DEF Entries
<1>3. /\ target' = t /\ dst' \in [Runners -> BOOLEAN]
      /\ receipt' \in [Jobs -> Snapshots \cup {None}]
  BY <1>1, <1>2, WrittenType
<1>4. changes' \in 0 .. MaxChanges
  BY CopyActionAssumption DEF TypeOK, CopyActionAssumption
<1>5. TypeOK'
  BY <1>2, <1>3, <1>4 DEF TypeOK
<1>6. ReceiptsAreTrue'
  BY <1>1 DEF ReceiptsAreTrue, Matches, TypeOK, Snapshots, TargetWritten
<1>7. \A p \in Runners : ~Holding(p)'
  BY DEF Holding, Writing, IsFile
<1>8. Exclusive'
  BY <1>7 DEF Exclusive
<1>9. \A p \in Runners : Local(p)'
  BY <1>1, <1>7 DEF Local, Copied, Compared, Unchanged, TargetWritten, IsFile
<1> QED
  BY <1>5, <1>6, <1>8, <1>9

-----------------------------------------------------------------------------
(* The theorems                                                            *)

\* Every step keeps the invariant.
LEMMA NextInv == Inv /\ [Next]_vars => Inv'
<1> SUFFICES ASSUME Inv, [Next]_vars PROVE Inv'
  OBVIOUS
<1>1. ASSUME NEW p \in Runners, AttemptStep(p) PROVE Inv'
  BY <1>1, LockInv, LookInv, MatchInv, CompareInv, ConfirmInv, ReserveFileInv,
     ReserveDirectoryInv, TransferFileInv, TransferDirectoryInv, CheckInv, LinkInv, PublishInv,
     ReportInv
     DEF AttemptStep
<1>2. ASSUME NEW p \in Runners, Kill(p) PROVE Inv'
  BY <1>2, KillInv
<1>3. ASSUME NEW p \in Runners, NEW j \in Jobs, Begin(p, j) PROVE Inv'
  BY <1>3, BeginInv
<1>4. ASSUME NEW j \in Jobs, ChangeSource(j) PROVE Inv'
  BY <1>4, ChangeSourceInv
<1>5. CASE ChangeTarget
  BY <1>5, ChangeTargetInv
<1>6. CASE UNCHANGED vars
  BY <1>6 DEF vars, disk, attempt, Inv, TypeOK, Exclusive, Holding, IsFile, ReceiptsAreTrue,
              Matches, Same, Local, Copied, Compared, Unchanged
<1> QED
  BY <1>1, <1>2, <1>3, <1>4, <1>5, <1>6 DEF Next

\* The inductive invariant holds.
THEOREM Invariance == Spec => []Inv
BY InitInv, NextInv, PTL DEF Spec

\* Content, receipts and attempts hold values of their types (copy_action.py:189).
THEOREM TypeCorrect == Spec => []TypeOK
<1>1. Inv => TypeOK
  BY DEF Inv
<1> QED
  BY <1>1, Invariance, PTL

\* A receipt whose snapshots hold stands for equal content (copy_action.py:297).
THEOREM ReceiptsStandForContent == Spec => []ReceiptsAreTrue
<1>1. Inv => ReceiptsAreTrue
  BY DEF Inv
<1> QED
  BY <1>1, Invariance, PTL

\* Success over sides nobody changed means equal content (copy_action.py:333).
THEOREM SuccessMeansEqual == Spec => []SuccessIsEqual
<1>1. Inv => SuccessIsEqual
  BY DEF Inv, Local, Compared, SuccessIsEqual
<1> QED
  BY <1>1, Invariance, PTL

-----------------------------------------------------------------------------
(* Nothing is replaced                                                     *)

\* What a step may do to the destination.
Keeps ==
  (changes' = changes /\ target # None) =>
    /\ target' # None
    /\ \A f \in payload : target[f] \in Bytes => target'[f] = target[f]

\* Steps write to a free destination, or to a file that is not complete.
LEMMA NextKeeps == Inv /\ [Next]_vars => [Keeps]_vars
<1> SUFFICES ASSUME Inv, [Next]_vars PROVE Keeps
  OBVIOUS
<1>1. CASE target' = target
  BY <1>1 DEF Keeps
<1>2. ASSUME NEW p \in Runners, ReserveDirectory(p) PROVE Keeps
  BY <1>1, <1>2 DEF ReserveDirectory, MayCreate, Keeps, Fails, disk
<1>3. ASSUME NEW p \in Runners, Link(p) PROVE Keeps
  BY <1>1, <1>3 DEF Link, MayLink, Keeps, Fails, disk
<1>4. ASSUME NEW p \in Runners, TransferDirectory(p) PROVE Keeps
  <2>1. CASE Passes(p, "check")
    BY <1>1, <2>1 DEF Passes, Stays, disk
  <2>2. ASSUME NEW f \in payload, NEW b \in Entries,
               Written(target[f], b, source[job[p]][f]),
               TargetWritten([target EXCEPT ![f] = b], {})
        PROVE  Keeps
    <3>1. target # None /\ target \in [payload -> Entries]
      BY <1>4 DEF Inv, TransferDirectory, Holding, Local, Copied, TypeOK
    <3>2. target' = [target EXCEPT ![f] = b] /\ target' # None
      BY <2>2, <3>1, Distinct DEF TargetWritten, Inv, TypeOK
    <3>3. target[f] \notin Bytes
      BY <2>2, Distinct DEF Written
    <3> QED
      BY <3>1, <3>2, <3>3 DEF Keeps
  <2> QED
    BY <1>4, <2>1, <2>2 DEF TransferDirectory
<1>5. ASSUME ChangeTarget PROVE Keeps
  BY <1>5 DEF ChangeTarget, Change, Keeps, Inv, TypeOK
<1>6. ASSUME NEW p \in Runners, Lock(p) \/ Look(p) \/ Match(p) \/ Compare(p) \/ Confirm(p)
                                 \/ ReserveFile(p) \/ TransferFile(p) \/ Check(p)
      PROVE  target' = target
  BY <1>6 DEF Lock, Look, Match, Compare, Confirm, ReserveFile, TransferFile, Check,
              Passes, Stays, Fails, disk
<1>7. ASSUME NEW p \in Runners, Publish(p) \/ Report(p) \/ Kill(p) \/ \E j \in Jobs : Begin(p, j)
      PROVE  target' = target
  BY <1>7 DEF Publish, Report, Kill, Begin, Fails, disk
<1>8. ASSUME NEW j \in Jobs, ChangeSource(j) PROVE target' = target
  BY <1>8 DEF ChangeSource
<1>9. UNCHANGED vars => target' = target
  BY DEF vars, disk
<1> QED
  BY <1>1, <1>2, <1>3, <1>4, <1>5, <1>6, <1>7, <1>8, <1>9 DEF Next, AttemptStep

\* No attempt replaces or removes content, however attempts interleave and die
\* (copy_action.py:314, 327).
THEOREM NoAttemptReplaces == Spec => NothingIsReplaced
<1>1. [Keeps]_vars => [(changes' = changes /\ target # None) =>
                         /\ target' # None
                         /\ \A f \in payload : target[f] \in Bytes => target'[f] = target[f]]_vars
  BY DEF Keeps
<1> QED
  BY <1>1, NextKeeps, Invariance, PTL DEF Spec, NothingIsReplaced
=============================================================================
