---------------------------- MODULE PostScanProofs ----------------------------
(***************************************************************************)
(* Proofs about PostScan for every set of infection actions and any number *)
(* of faults and of acts of an operator.                                   *)
(***************************************************************************)
EXTENDS PostScan, TLAPS

\* A torrent on the list has all its content where it says, and one that is
\* being deleted is off the list.
Whole ==
  /\ torrent.here => files = {torrent.place}
  /\ torrent.target = Trash => ~torrent.here

\* A pass works at the task of the job's verdict.
Tasked ==
  /\ pc # "idle" =>
       IF task = "promote" THEN jobState \in {"promoting", "removed"}
                           ELSE jobState \in InfectedStates \cup {"removed"}
  /\ pc = "record" => task = "promote"
  /\ pc = "send" => task = "quarantine"

\* What a pass may believe of the torrent it fetched: a torrent does not come
\* back, and one that nobody touched changes only while it moves.
Fetched ==
  /\ pc \in {"act", "send", "record"} /\ ~seen.here => ~torrent.here
  /\ pc = "act" /\ ~meddled => seen = torrent \/ Moving
  /\ pc = "record" /\ ~meddled =>
       Settled("final") /\ ~torrent.paused /\ files = {"final"}

\* The inductive invariant.
Inv == TypeOK /\ Whole /\ Tasked /\ Fetched /\ InfectedIsConfined

\* What a step does when it marks a job done, quarantined or deleted.
MarksTruly == DoneIsSeeding /\ QuarantinedIsAway /\ DeletedIsGone
-----------------------------------------------------------------------------

\* The scan has just ended.
LEMMA InitInv == Init => Inv
<1> SUFFICES ASSUME Init PROVE Inv
  OBVIOUS
<1> USE DEF Init
<1>1. TypeOK
  <2>1. torrent \in Torrents /\ seen \in Torrents
    BY DEF Torrents, Places
  <2>2. files \subseteq Places
    BY DEF Places
  <2>3. jobState \in ActionStates
    BY DEF ActionStates, CleanStates, InfectedStates
  <2>4. faults \in 0 .. MaxFaults /\ meddles \in 0 .. MaxMeddles
    BY PostScanAssumption DEF PostScanAssumption
  <2> QED
    BY <2>1, <2>2, <2>3, <2>4 DEF TypeOK, Tasks
<1> QED
  BY <1>1 DEF Inv, Whole, Tasked, Fetched, InfectedIsConfined, Still, Trash

\* What a call to qBittorrent may make of the torrent keeps its type and its
\* wholeness.
LEMMA CallsKeepTorrent ==
  ASSUME Inv, NEW t \in {Paused, Resumed, Sent("final"), Sent("quarantine"),
                         Sent("elsewhere"), DeletedWithFiles, Removed}
  PROVE  /\ t \in Torrents
         /\ t.place = torrent.place
         /\ t.here => torrent.here
         /\ t.target = Trash => ~t.here
<1> USE DEF Inv, TypeOK, Torrents, Whole, Places, Still, Trash
<1>1. CASE t \in {Paused, Resumed}
  BY <1>1 DEF Paused, Resumed
<1>2. CASE t \in {Sent("final"), Sent("quarantine"), Sent("elsewhere")}
  BY <1>2 DEF Sent
<1>3. CASE t \in {DeletedWithFiles, Removed}
  BY <1>3 DEF DeletedWithFiles, Removed
<1> QED
  BY <1>1, <1>2, <1>3

\* A call whose effect is not to start an infected torrent or to send it away.
LEMMA CallInv ==
  ASSUME Inv, pc # "idle",
         NEW t \in {Paused, Resumed, Sent("final"), Sent("quarantine"), DeletedWithFiles},
         NEW label \in {"idle", "record"},
         Call(t, label), UNCHANGED <<files, action>>,
         label = "record" =>
           /\ t = Resumed /\ task = "promote" /\ seen.here
           /\ ~meddled => Settled("final") /\ files = {"final"},
         task = "promote" \/ t \in {Paused, Sent("quarantine"), DeletedWithFiles}
  PROVE  Inv'
<1> USE DEF Call, Fault, job, Inv
<1>t. t \in Torrents /\ t.place = torrent.place /\ (t.here => torrent.here)
      /\ (t.target = Trash => ~t.here)
  BY CallsKeepTorrent
<1>1. TypeOK'
  BY <1>t, PostScanAssumption DEF TypeOK, PostScanAssumption
<1>2. Whole'
  BY <1>t DEF Whole
<1>3. Tasked'
  BY DEF Tasked
<1>4. Fetched'
  <2>1. CASE pc' = "idle"
    BY <2>1 DEF Fetched
  <2>2. CASE pc' # "idle"
    BY <2>2 DEF Fetched, Settled, Resumed, TypeOK, Torrents, Still
  <2> QED
    BY <2>1, <2>2
<1>5. InfectedIsConfined'
  <2>1. CASE task = "promote"
    BY <2>1 DEF InfectedIsConfined, Tasked, InfectedStates
  <2>2. CASE t \in {Paused, Sent("quarantine"), DeletedWithFiles}
    BY <1>t, <2>2 DEF InfectedIsConfined, Paused, Sent, DeletedWithFiles, TypeOK, Torrents,
                      Still, Trash
  <2> QED
    BY <2>1, <2>2
<1> QED
  BY <1>1, <1>2, <1>3, <1>4, <1>5

\* A pass that ends without an effect.
LEMMA TryAgainInv ==
  ASSUME Inv, TryAgain, UNCHANGED <<files, action>>
  PROVE  Inv'
BY DEF Inv, TryAgain, EndPass, Calm, job, TypeOK, Whole, Tasked, Fetched, InfectedIsConfined,
       Settled

\* A job is put into an end state.
LEMMA CommitInv ==
  ASSUME Inv, NEW s \in EndStates, Commit(s), UNCHANGED <<files, action>>
  PROVE  Inv'
<1>1. TypeOK'
  BY DEF Inv, TypeOK, Commit, EndPass, Calm
<1>2. InfectedIsConfined'
  BY DEF Inv, InfectedIsConfined, Commit, Calm, EndStates, InfectedStates
<1> QED
  BY <1>1, <1>2 DEF Inv, Whole, Tasked, Fetched, Commit, EndPass, Calm, Settled

\* The job is taken up and marked.
LEMMA BeginInv ==
  ASSUME Inv, Begin
  PROVE  Inv'
<1> USE DEF Inv, Begin, Calm
<1>1. TypeOK'
  BY PostScanAssumption DEF PostScanAssumption, TypeOK, TaskFor, Tasks, ActionStates,
     CleanStates, InfectedStates
<1>2. Tasked'
  BY PostScanAssumption DEF PostScanAssumption, TypeOK, Tasked, TaskFor, Selected,
     ActionStates, CleanStates, InfectedStates
<1>3. InfectedIsConfined'
  BY DEF InfectedIsConfined, InfectedStates
<1> QED
  BY <1>1, <1>2, <1>3 DEF Whole, Fetched

\* The torrent is fetched.
LEMMA FetchInv ==
  ASSUME Inv, Fetch
  PROVE  Inv'
BY DEF Inv, Fetch, job, TypeOK, Whole, Tasked, Fetched, InfectedIsConfined, Moving

\* Clean content.
LEMMA PromoteInv ==
  ASSUME Inv, pc = "act", task = "promote", PromoteStep, UNCHANGED <<files, action>>
  PROVE  Inv'
<1>1. CASE TryAgain
  BY <1>1, TryAgainInv
<1>2. CASE seen.here /\ Call(Paused, "idle")
  BY <1>2, CallInv
<1>3. CASE seen.here /\ Call(Sent("final"), "idle")
  BY <1>3, CallInv
<1>4. CASE seen.here /\ AtDestination /\ Call(Resumed, "record")
  <2>1. ~meddled => Settled("final") /\ files = {"final"}
    BY <1>4 DEF Inv, Fetched, Whole, AtDestination, Moving, Settled
  <2> QED
    BY <1>4, <2>1, CallInv
<1> QED
  BY <1>1, <1>2, <1>3, <1>4 DEF PromoteStep

\* Infected content that is deleted.
LEMMA DeleteInv ==
  ASSUME Inv, pc = "act", DeleteStep, UNCHANGED <<files, action>>
  PROVE  Inv'
<1>1. CASE TryAgain
  BY <1>1, TryAgainInv
<1>2. CASE Call(DeletedWithFiles, "idle")
  BY <1>2, CallInv
<1>3. CASE Commit("infected_deleted")
  BY <1>3, CommitInv DEF EndStates
<1> QED
  BY <1>1, <1>2, <1>3 DEF DeleteStep

\* Infected content that is held.
LEMMA HoldInv ==
  ASSUME Inv, HoldStep, UNCHANGED <<files, action>>
  PROVE  Inv'
BY TryAgainInv, CommitInv DEF HoldStep, EndStates

\* Infected content that is quarantined.
LEMMA QuarantineInv ==
  ASSUME Inv, pc = "act", task = "quarantine", QuarantineStep, UNCHANGED <<files, action>>
  PROVE  Inv'
<1>1. CASE TryAgain
  BY <1>1, TryAgainInv
<1>2. CASE Call(Paused, "idle")
  BY <1>2, CallInv
<1>3. CASE Call(Sent("quarantine"), "idle")
  BY <1>3, CallInv
<1>4. CASE Commit("infected_quarantined")
  BY <1>4, CommitInv DEF EndStates
<1>5. CASE /\ seen.here /\ jobState # "removed"
           /\ quarantinePath' = TRUE /\ jobState' = "quarantining_infected"
           /\ pc' = "send" /\ UNCHANGED <<torrent, hook, task, seen>> /\ Calm
  <2> USE <1>5 DEF Inv, Calm
  <2>1. TypeOK'
    BY DEF TypeOK, ActionStates, InfectedStates
  <2>2. Tasked' /\ jobState \in InfectedStates
    BY DEF Tasked, InfectedStates
  <2> QED
    BY <2>1, <2>2 DEF Whole, Fetched, InfectedIsConfined
<1> QED
  BY <1>1, <1>2, <1>3, <1>4, <1>5 DEF QuarantineStep

\* What the pass does with the torrent it fetched.
LEMMA ActInv ==
  ASSUME Inv, Act
  PROVE  Inv'
BY PromoteInv, HoldInv, DeleteInv, QuarantineInv DEF Act

\* The torrent is sent to the directory just recorded.
LEMMA SendInv ==
  ASSUME Inv, Send
  PROVE  Inv'
<1>1. CASE Call(Sent("quarantine"), "idle")
  BY <1>1, CallInv DEF Send
<1>2. CASE TryAgain
  BY <1>2, TryAgainInv DEF Send
<1> QED
  BY <1>1, <1>2 DEF Send

\* The promotion is recorded.
LEMMA RecordInv ==
  ASSUME Inv, Record
  PROVE  Inv'
BY CommitInv DEF Record, EndStates

\* The pass raises, or the container dies.
LEMMA PassFailsInv ==
  ASSUME Inv, PassFails
  PROVE  Inv'
<1> USE DEF Inv, PassFails, Fault, EndPass, job
<1>1. TypeOK'
  BY PostScanAssumption DEF PostScanAssumption, TypeOK
<1> QED
  BY <1>1 DEF Whole, Tasked, Fetched, InfectedIsConfined

\* A move ends, at its target or where it began.
LEMMA MoveEndsInv ==
  ASSUME Inv, MoveEnds
  PROVE  Inv'
<1> USE DEF Inv, MoveEnds, Fault, job, pass
<1>0. torrent.target \in Places
  BY DEF TypeOK, Torrents, Whole, Still, Trash
<1>1. TypeOK'
  <2>1. torrent' \in Torrents
    BY <1>0 DEF TypeOK, Torrents
  <2>2. files' \subseteq Places
    BY <1>0 DEF TypeOK
  <2>3. faults' \in 0 .. MaxFaults /\ meddles' \in 0 .. MaxMeddles
    BY PostScanAssumption DEF PostScanAssumption, TypeOK
  <2> QED
    BY <2>1, <2>2, <2>3 DEF TypeOK
<1>2. Whole'
  BY <1>0, <1>1 DEF Whole, TypeOK, Torrents, Still, Trash
<1>3. Fetched'
  BY DEF Fetched, Settled, TypeOK, Torrents, Moving
<1>4. InfectedIsConfined'
  <2>1. UNCHANGED <<jobState, touched>>
    OBVIOUS
  <2>2. torrent'.paused = torrent.paused /\ torrent'.target = Still
    BY DEF TypeOK, Torrents
  <2>3. torrent'.place \in {torrent.place, torrent.target}
    BY DEF TypeOK, Torrents
  <2> QED
    BY <1>0, <2>1, <2>2, <2>3 DEF InfectedIsConfined, Places, Still, Trash
<1> QED
  BY <1>1, <1>2, <1>3, <1>4 DEF Tasked

\* The files of a deleted torrent go.
LEMMA FilesGoInv ==
  ASSUME Inv, FilesGo
  PROVE  Inv'
<1> USE DEF Inv, FilesGo, Calm, job, pass
<1>1. TypeOK'
  <2>1. torrent' \in Torrents
    BY DEF TypeOK, Torrents
  <2> QED
    BY <2>1 DEF TypeOK
<1>2. Whole'
  BY DEF Whole, TypeOK, Torrents, Still, Trash
<1>3. Fetched'
  BY DEF Fetched, Settled, TypeOK, Torrents, Moving, Whole
<1>4. InfectedIsConfined'
  BY DEF InfectedIsConfined, TypeOK, Torrents
<1> QED
  BY <1>1, <1>2, <1>3, <1>4 DEF Tasked

\* Somebody interferes.
LEMMA OperatorInv ==
  ASSUME Inv, Operator
  PROVE  Inv'
<1> USE DEF Inv, Operator, Meddle, pass
<1>0. meddles' \in 0 .. MaxMeddles /\ meddles' # 0
  BY PostScanAssumption DEF PostScanAssumption, TypeOK
<1>1. CASE UNCHANGED torrent
  <2>1. touched' \in {touched, TRUE}
    OBVIOUS
  <2>2. TypeOK'
    BY <1>0, <1>1, <2>1 DEF TypeOK
  <2>3. jobState' \in {jobState, "removed"}
    OBVIOUS
  <2>4. InfectedIsConfined'
    BY <1>1, <2>1, <2>3 DEF InfectedIsConfined, InfectedStates
  <2> QED
    BY <1>0, <1>1, <2>2, <2>4 DEF Whole, Tasked, Fetched
<1>2. CASE /\ touched' = TRUE /\ UNCHANGED <<jobState, action>>
           /\ torrent' \in {Paused, Resumed, Sent("elsewhere"), Sent("final"),
                            DeletedWithFiles, Removed}
  <2>t. /\ torrent' \in Torrents /\ torrent'.place = torrent.place
        /\ torrent'.here => torrent.here
        /\ torrent'.target = Trash => ~torrent'.here
    BY <1>2, CallsKeepTorrent
  <2>1. TypeOK'
    BY <1>0, <1>2, <2>t DEF TypeOK
  <2> QED
    BY <1>0, <1>2, <2>t, <2>1 DEF Whole, Tasked, Fetched, InfectedIsConfined
<1> QED
  BY <1>1, <1>2

\* Every step preserves the invariant.
LEMMA StepInv == Inv /\ [Next]_vars => Inv'
<1>1. ASSUME Inv, UNCHANGED vars
      PROVE  Inv'
  BY <1>1 DEF vars, job, pass, Inv, TypeOK, Whole, Tasked, Fetched, InfectedIsConfined,
              Settled, Moving
<1>2. ASSUME Inv, Next
      PROVE  Inv'
  BY <1>2, BeginInv, FetchInv, ActInv, SendInv, RecordInv, PassFailsInv, MoveEndsInv,
     FilesGoInv, OperatorInv DEF Next
<1> QED
  BY <1>1, <1>2

\* The invariant holds in every reachable state.
THEOREM Invariance == Spec => []Inv
BY InitInv, StepInv, PTL DEF Spec

\* The torrent, the job and the pass hold values of their types.
THEOREM TypeCorrect == Spec => []TypeOK
<1>1. Inv => TypeOK
  BY DEF Inv
<1> QED
  BY <1>1, Invariance, PTL

\* As long as nobody touches it in qBittorrent, infected content is never
\* started and never leaves staging and quarantine, whatever fails, whenever
\* Intake dies, and however often the infection action is changed.
THEOREM InfectedStaysConfined == Spec => []InfectedIsConfined
<1>1. Inv => InfectedIsConfined
  BY DEF Inv
<1> QED
  BY <1>1, Invariance, PTL

-----------------------------------------------------------------------------

\* A job is marked where its pass saw what the mark says.
LEMMA ActMarksTruly ==
  ASSUME Inv, Act
  PROVE  MarksTruly
<1> USE DEF Inv, MarksTruly, DoneIsSeeding, QuarantinedIsAway, DeletedIsGone, Act, TypeOK
<1>1. CASE UNCHANGED jobState
  BY <1>1
<1>2. CASE task = "hold" /\ HoldStep
  BY <1>2 DEF HoldStep, Commit, TryAgain, job
<1>3. CASE task = "promote" /\ PromoteStep
  BY <1>3 DEF PromoteStep, Call, TryAgain, job
<1>4. CASE task = "delete" /\ DeleteStep
  BY <1>4 DEF DeleteStep, Commit, Call, TryAgain, job, Fetched, Gone
<1>5. CASE task = "quarantine" /\ QuarantineStep
  <2>1. CASE InQuarantine /\ seen.here /\ Commit("infected_quarantined")
    BY <2>1 DEF InQuarantine, Moving, Fetched, Whole, Settled, Commit
  <2>2. CASE jobState' = "quarantining_infected"
    BY <2>2
  <2> QED
    BY <1>5, <2>1, <2>2 DEF QuarantineStep, Call, TryAgain, job
<1> QED
  BY <1>2, <1>3, <1>4, <1>5

\* So does every step.
LEMMA StepMarksTruly ==
  ASSUME Inv, Next
  PROVE  MarksTruly
<1> USE DEF MarksTruly, DoneIsSeeding, QuarantinedIsAway, DeletedIsGone
<1>1. CASE UNCHANGED jobState
  BY <1>1
<1>2. CASE Begin
  BY <1>2 DEF Begin
<1>3. CASE Act
  BY <1>3, ActMarksTruly
<1>4. CASE Record
  BY <1>4 DEF Record, Commit, Inv, Fetched
<1>5. CASE Operator
  BY <1>5 DEF Operator
<1> QED
  BY <1>1, <1>2, <1>3, <1>4, <1>5
     DEF Next, Fetch, Send, PassFails, MoveEnds, FilesGo, Call, TryAgain, job

\* Unless somebody interferes, a job is marked done while its torrent lies at
\* the destination with all its content and seeds, and quarantined while it
\* lies there, paused, with nothing left in staging; whoever interferes, it is
\* marked deleted while its torrent is off the list and staging is empty.
THEOREM EndStatesHold == Spec => EndStatesAreTrue
<1>1. Inv /\ [Next]_vars => [DoneIsSeeding /\ QuarantinedIsAway /\ DeletedIsGone]_vars
  BY StepMarksTruly DEF MarksTruly
<1> QED
  BY <1>1, Invariance, PTL DEF Spec, EndStatesAreTrue
=============================================================================
