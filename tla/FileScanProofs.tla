---------------------------- MODULE FileScanProofs ----------------------------
(***************************************************************************)
(* Proofs about FileScan and the window scan it is composed with.          *)
(*                                                                         *)
(* Part I is about WindowScan alone: the windows of a file and their       *)
(* halves miss no piece of content up to one byte longer than the overlap, *)
(* so a file whose windows are all clean holds no such malware; the slots  *)
(* are kept; and cancellation never shows as an interruption.              *)
(*                                                                         *)
(* Part II is about FileScan: its requests and windows are those of        *)
(* WindowScan, so that what Part I proves holds in every scan; workspaces  *)
(* and locks are kept and given back; and a file that is found clean has   *)
(* no malware in its bytes, its attachments or the members of its archive, *)
(* whatever ClamD, the helper, the file system and the operator do         *)
(* meanwhile.                                                              *)
(***************************************************************************)
EXTENDS FileScan, FiniteSetTheorems, SequenceTheorems, TLAPS

-----------------------------------------------------------------------------
(***************************************************************************)
(* Part I: WindowScan.                                                     *)
(***************************************************************************)

(***************************************************************************)
(* Window arithmetic.                                                      *)
(***************************************************************************)
\* The step is positive.
LEMMA StepFact ==
  ASSUME WindowAssumption
  PROVE  /\ Step \in Nat /\ Step > 0 /\ Window = Step + Overlap
         /\ Window \in Nat /\ Overlap \in Nat /\ Minimum \in Nat
  BY DEF WindowAssumption, Step

\* Every window is a range within the file.
LEMMA WindowsAreRanges ==
  ASSUME WindowAssumption, NEW total \in Nat
  PROVE  WindowRanges(total) \subseteq Ranges
  <1>. SUFFICES ASSUME NEW k \in {j \in 0 .. total : j = 0 \/ (j - 1) * Step + Window < total}
       PROVE [offset |-> k * Step, length |-> Smaller(Window, total - k * Step)] \in Ranges
    BY DEF WindowRanges
  <1>1. k * Step \in Nat
    BY StepFact, SMT
  <1>2. k * Step <= total
    <2>1. CASE k = 0
      BY <2>1, StepFact, SMT
    <2>2. CASE k # 0
      <3>1. (k - 1) * Step = k * Step - Step
        BY StepFact, SMT
      <3>2. (k - 1) * Step + Window < total
        BY <2>2
      <3>. QED BY <3>1, <3>2, <1>1, StepFact, SMT
    <2>. QED BY <2>1, <2>2
  <1>3. Smaller(Window, total - k * Step) \in Nat
    BY <1>1, <1>2, StepFact, SMT DEF Smaller
  <1>. QED BY <1>1, <1>3 DEF Ranges

\* A file has at least one window.
LEMMA WindowsExist ==
  ASSUME WindowAssumption, NEW total \in Nat
  PROVE  WindowRanges(total) # {}
  <1>1. 0 \in {j \in 0 .. total : j = 0 \/ (j - 1) * Step + Window < total}
    OBVIOUS
  <1>. QED BY <1>1 DEF WindowRanges

\* Content of up to one byte more than the overlap lies in one of the windows
\* (large_media_window_ranges).
THEOREM WindowsCover ==
  ASSUME WindowAssumption, NEW total \in Nat, NEW m \in Places(total), m # None
  PROVE  \E r \in WindowRanges(total) : Holds(r, m)
  <1>. DEFINE a == m.from
              b == m.to
              q == a \div Step
              Starts == {j \in 0 .. total : j = 0 \/ (j - 1) * Step + Window < total}
              W(k) == [offset |-> k * Step, length |-> Smaller(Window, total - k * Step)]
  <1>1. /\ a \in Nat /\ b \in Nat /\ a < b /\ b <= total /\ b - a <= Overlap + 1
    BY DEF Places
  <1>2. q \in Nat /\ q * Step <= a /\ a < q * Step + Step
    BY <1>1, StepFact, SMT
  <1>3. b <= q * Step + Window
    BY <1>1, <1>2, StepFact, SMT
  <1>4. ASSUME NEW k \in Starts, k * Step \in Nat, k * Step <= a, b <= k * Step + Window
        PROVE  \E r \in WindowRanges(total) : Holds(r, m)
    <2>1. W(k) \in WindowRanges(total)
      BY DEF WindowRanges
    <2>2. b <= k * Step + Smaller(Window, total - k * Step)
      <3>. HIDE DEF a, b, Starts
      <3>1. CASE Window <= total - k * Step
        BY <1>4, <3>1 DEF Smaller
      <3>2. CASE ~(Window <= total - k * Step)
        <4>1. Smaller(Window, total - k * Step) = total - k * Step
          BY <3>2 DEF Smaller
        <4>. QED BY <1>1, <1>4, <4>1, SMT
      <3>. QED BY <3>1, <3>2
    <2>3. W(k).offset = k * Step /\ W(k).length = Smaller(Window, total - k * Step)
      OBVIOUS
    <2>. QED BY <1>4, <2>1, <2>2, <2>3 DEF Holds, End
  <1>5. CASE q \in Starts
    BY <1>2, <1>3, <1>4, <1>5, StepFact
  <1>6. CASE q \notin Starts
    <2>. DEFINE p == (total - Window - 1) \div Step
    <2>1. q <= total
      BY <1>1, <1>2, StepFact, SMT
    <2>2. q # 0 /\ (q - 1) * Step + Window >= total
      BY <1>2, <1>6, <2>1, StepFact, SMT
    <2>3. (q - 1) * Step = q * Step - Step
      BY <1>2, StepFact, SMT
    <2>4. CASE total <= Window
      <3>1. 0 \in Starts /\ 0 * Step = 0
        BY StepFact, SMT
      <3>2. 0 * Step \in Nat /\ 0 * Step <= a /\ b <= 0 * Step + Window
        <4>. HIDE DEF a, b
        <4>. QED BY <1>1, <2>4, <3>1, StepFact
      <3>. QED BY <1>4, <3>1, <3>2
    <2>5. CASE total > Window
      <3>1. p \in Nat /\ p * Step <= total - Window - 1 /\ total - Window - 1 < p * Step + Step
        BY <2>5, StepFact, SMT
      <3>2. (p + 1) * Step = p * Step + Step
        BY <3>1, StepFact, SMT
      <3>3. p + 1 <= total
        BY <3>1, <2>5, StepFact, SMT
      <3>4. p + 1 \in Starts
        BY <3>1, <3>3, StepFact, SMT
      <3>5. (p + 1) * Step \in Nat /\ (p + 1) * Step <= a /\ b <= (p + 1) * Step + Window
        BY <3>1, <3>2, <1>1, <1>2, <2>2, <2>3, StepFact, SMT
      <3>. QED BY <1>4, <3>4, <3>5
    <2>. QED BY <2>4, <2>5, StepFact
  <1>. QED BY <1>5, <1>6

\* What lies in a window lies in one of its halves, and both are ranges
\* (split_large_media_window).
THEOREM SplitCovers ==
  ASSUME WindowAssumption, NEW r \in Ranges, SplitWindow(r) # << >>
  PROVE  /\ SplitWindow(r) = <<SplitWindow(r)[1], SplitWindow(r)[2]>>
         /\ SplitWindow(r)[1] \in Ranges /\ SplitWindow(r)[2] \in Ranges
         /\ SplitWindow(r)[1].length < r.length /\ SplitWindow(r)[2].length < r.length
         /\ \A from, to \in Nat :
              from < to /\ to - from <= Overlap + 1 /\ r.offset <= from /\ to <= End(r) =>
                \E i \in {1, 2} : SplitWindow(r)[i].offset <= from /\ to <= End(SplitWindow(r)[i])
  <1>. DEFINE left == (r.length + Overlap) \div 2
              right == r.offset + left - Overlap
              L == [offset |-> r.offset, length |-> left]
              R == [offset |-> right, length |-> End(r) - right]
  <1>1. SplitWindow(r) = <<L, R>>
    BY DEF SplitWindow
  <1>2. ~(left < Minimum \/ End(r) - right < Minimum \/ left >= r.length \/ End(r) - right >= r.length)
    BY DEF SplitWindow
  <1>3. r.offset \in Nat /\ r.length \in Nat /\ Overlap \in Nat /\ Minimum \in Nat /\ Overlap < Minimum
    BY DEF Ranges, WindowAssumption
  <1>4. left \in Nat /\ right \in Nat /\ End(r) - right \in Nat /\ End(R) = End(r)
    <2>1. left \in Nat
      BY <1>3, SMT
    <2>2. right \in Nat /\ End(r) \in Nat
      <3>1. left >= Minimum
        BY <2>1, <1>2, <1>3
      <3>. QED BY <2>1, <3>1, <1>3, SMT DEF End
    <2>3. End(r) - right \in Nat
      BY <2>2, <1>2, <1>3, SMT
    <2>4. R.offset = right /\ R.length = End(r) - right
      OBVIOUS
    <2>. QED BY <2>1, <2>2, <2>3, <2>4, SMT DEF End
  <1>5. L \in Ranges /\ R \in Ranges /\ L.length < r.length /\ R.length < r.length
    BY <1>2, <1>3, <1>4, SMT DEF Ranges
  <1>6. ASSUME NEW from \in Nat, NEW to \in Nat,
               from < to, to - from <= Overlap + 1, r.offset <= from, to <= End(r)
        PROVE  \/ L.offset <= from /\ to <= End(L)
               \/ R.offset <= from /\ to <= End(R)
    BY <1>2, <1>3, <1>4, <1>6, SMT DEF End
  <1>. QED BY <1>1, <1>5, <1>6

(***************************************************************************)
(* The inductive invariant, for each file.                                 *)
(***************************************************************************)
Busy(f, w) == thread[f][w].phase # "idle"
Suspect(f) == ~object[f].touched /\ object[f].malware # None

\* Each busy worker runs a window of its own and has ranges of it left.
Owned(f) ==
  \A w \in Workers : Busy(f, w) =>
    /\ thread[f][w].window \in DOMAIN futures[f]
    /\ futures[f][thread[f][w].window] = "running"
    /\ thread[f][w].todo # << >>
    /\ \A v \in Workers : v # w /\ Busy(f, v) => thread[f][v].window # thread[f][w].window

\* No window that is clean holds the malware.
ClearedHold(f) ==
  Suspect(f) =>
    \A r \in DOMAIN futures[f] :
      futures[f][r] = "clean" \/ (futures[f][r] = "counted" /\ ~found[f]) =>
        ~Holds(r, object[f].malware)

\* If a running window holds it, so does a range its worker has not judged.
RunningHold(f) ==
  Suspect(f) =>
    \A w \in Workers : Busy(f, w) =>
      /\ Holds(thread[f][w].window, object[f].malware) =>
           \E i \in DOMAIN thread[f][w].todo : Holds(thread[f][w].todo[i], object[f].malware)
      /\ thread[f][w].phase = "judge" /\ thread[f][w].reply = "ok" =>
           ~Holds(Head(thread[f][w].todo), object[f].malware)

\* What stopped a worker, and where the reason for a cancellation lies.
Stopped(f) ==
  \A w \in Workers : thread[f][w].phase = "judge" =>
    /\ thread[f][w].reply \in Replies
    /\ thread[f][w].reply = "stopped" => cancelled[f] \/ stopping[f]

Interruptions(f) ==
  /\ failure[f] = "interrupted" => stopping[f]
  /\ \A r \in DOMAIN futures[f] : futures[f][r] = "interrupted" => stopping[f]

Reasons(f) ==
  /\ cancelled[f] => \/ found[f] \/ failure[f] # None
                     \/ \E r \in DOMAIN futures[f] : futures[f][r] = "infected"
  /\ \A r \in DOMAIN futures[f] : futures[f][r] \in {"cancelled", "dropped"} => cancelled[f]

Ended(f) ==
  /\ result[f] = "clean" /\ ~object[f].touched => object[f].malware = None
  /\ result[f] = "interrupted" => stopping[f]

FileInv(f) ==
  /\ Owned(f) /\ ClearedHold(f) /\ RunningHold(f)
  /\ Stopped(f) /\ Interruptions(f) /\ Reasons(f) /\ Ended(f)

Senders == {p \in Files \X Threads : thread[p[1]][p[2]].phase = "send"}

WindowInv == WindowTypeOK /\ SlotsAccounted /\ \A f \in Files : FileInv(f)

(***************************************************************************)
(* Types, and files an action leaves alone.                                *)
(***************************************************************************)
ThreadState ==
  [phase : {"idle", "ask", "send", "judge"}, window : {None} \cup Ranges,
   todo : Seq(Ranges), reply : {None} \cup Replies]
FutureStates == {"queued", "running", "counted", "dropped"} \cup Endings

FutureTypeOK ==
  /\ futures = [f \in Files |-> futures[f]]
  /\ \A f \in Files :
       /\ futures[f] \in [DOMAIN futures[f] -> FutureStates]
       /\ DOMAIN futures[f] \in {{}, WindowRanges(object[f].size)}

LEMMA Types ==
  WindowTypeOK <=>
    /\ object \in [Files -> Objects]
    /\ stopping \in [Files -> BOOLEAN]
    /\ free \in 0 .. Slots
    /\ thread \in [Files -> [Threads -> ThreadState]]
    /\ FutureTypeOK
    /\ cancelled \in [Files -> BOOLEAN]
    /\ found \in [Files -> BOOLEAN]
    /\ failure \in [Files -> {None, "failed", "interrupted"}]
    /\ result \in [Files -> Results]
  BY DEF WindowTypeOK, ThreadState, FutureTypeOK, FutureStates

LEMMA TypesNext ==
  (WindowTypeOK <=>
    /\ object \in [Files -> Objects]
    /\ stopping \in [Files -> BOOLEAN]
    /\ free \in 0 .. Slots
    /\ thread \in [Files -> [Threads -> ThreadState]]
    /\ FutureTypeOK
    /\ cancelled \in [Files -> BOOLEAN]
    /\ found \in [Files -> BOOLEAN]
    /\ failure \in [Files -> {None, "failed", "interrupted"}]
    /\ result \in [Files -> Results])'
  BY DEF WindowTypeOK, ThreadState, FutureTypeOK, FutureStates

SameFile(g) ==
  /\ object'[g] = object[g] /\ stopping'[g] = stopping[g] /\ thread'[g] = thread[g]
  /\ futures'[g] = futures[g] /\ cancelled'[g] = cancelled[g] /\ found'[g] = found[g]
  /\ failure'[g] = failure[g] /\ result'[g] = result[g]

LEMMA Frame ==
  ASSUME NEW g \in Files, FileInv(g), SameFile(g)
  PROVE  FileInv(g)'
  <1>1. Owned(g)'
    BY DEF FileInv, Owned, SameFile, Busy
  <1>2. ClearedHold(g)'
    BY DEF FileInv, ClearedHold, SameFile, Suspect, Holds, End
  <1>3. RunningHold(g)'
    BY DEF FileInv, RunningHold, SameFile, Suspect, Busy, Holds, End
  <1>4. Stopped(g)' /\ Interruptions(g)' /\ Reasons(g)' /\ Ended(g)'
    BY DEF FileInv, Stopped, Interruptions, Reasons, Ended, SameFile
  <1>. QED BY <1>1, <1>2, <1>3, <1>4 DEF FileInv

\* The whole invariant, when one file changes.
LEMMA OneFile ==
  ASSUME WindowInv, NEW f \in Files, WindowTypeOK', SlotsAccounted', FileInv(f)',
         \A g \in Files : g # f => SameFile(g)
  PROVE  WindowInv'
  BY Frame DEF WindowInv

\* Idle threads hold no window.
LEMMA IdleFacts ==
  /\ Idle.phase = "idle" /\ Idle \in ThreadState
  BY DEF Idle, ThreadState

(***************************************************************************)
(* The slots.                                                              *)
(***************************************************************************)
LEMMA SendersFinite ==
  ASSUME WindowAssumption
  PROVE  IsFiniteSet(Senders) /\ Cardinality(Senders) \in Nat
  <1>1. IsFiniteSet(Files \X Threads)
    BY FS_Product DEF WindowAssumption
  <1>2. Senders \subseteq Files \X Threads
    BY DEF Senders
  <1>. QED BY <1>1, <1>2, FS_Subset, FS_CardinalityType

\* One thread changes its phase.
Sets(f, t, new) ==
  /\ thread' = [thread EXCEPT ![f][t] = new]
  /\ \/ /\ thread[f][t].phase # "send" /\ new.phase # "send" /\ free' = free
     \/ /\ thread[f][t].phase # "send" /\ new.phase = "send" /\ free' = free - 1
     \/ /\ thread[f][t].phase = "send" /\ new.phase # "send" /\ free' = free + 1

LEMMA SlotsMove ==
  ASSUME WindowAssumption, WindowTypeOK, SlotsAccounted,
         NEW f \in Files, NEW t \in Threads, NEW new, Sets(f, t, new)
  PROVE  SlotsAccounted' /\ (free' <= Slots)
  <1>. USE DEF Sets
  <1>1. thread \in [Files -> [Threads -> ThreadState]] /\ free \in 0 .. Slots
    BY Types
  <1>2. \A p \in Files \X Threads :
          thread'[p[1]][p[2]] = IF p = <<f, t>> THEN new ELSE thread[p[1]][p[2]]
    BY <1>1
  <1>3. <<f, t>> \in Files \X Threads
    OBVIOUS
  <1>4. Senders' = {p \in Files \X Threads : thread'[p[1]][p[2]].phase = "send"}
    BY DEF Senders
  <1>5. free + Cardinality(Senders) = Slots
    BY DEF SlotsAccounted, Senders
  <1>6. SlotsAccounted' <=> free' + Cardinality(Senders') = Slots
    BY DEF SlotsAccounted, Senders
  <1>7. Slots \in Nat
    BY DEF WindowAssumption
  <1>8. CASE thread[f][t].phase # "send" /\ new.phase # "send" /\ free' = free
    <2>1. Senders' = Senders
      BY <1>2, <1>4, <1>8 DEF Senders
    <2>. QED BY <1>1, <1>5, <1>6, <1>8, <2>1
  <1>9. CASE thread[f][t].phase # "send" /\ new.phase = "send" /\ free' = free - 1
    <2>1. Senders' = Senders \cup {<<f, t>>} /\ <<f, t>> \notin Senders
      BY <1>2, <1>3, <1>4, <1>9 DEF Senders
    <2>2. Cardinality(Senders') = Cardinality(Senders) + 1
      BY <2>1, SendersFinite, FS_AddElement
    <2>. QED BY <1>1, <1>5, <1>6, <1>7, <1>9, <2>2, SendersFinite
  <1>10. CASE thread[f][t].phase = "send" /\ new.phase # "send" /\ free' = free + 1
    <2>1. Senders' = Senders \ {<<f, t>>} /\ <<f, t>> \in Senders
      BY <1>2, <1>3, <1>4, <1>10 DEF Senders
    <2>2. Cardinality(Senders') = Cardinality(Senders) - 1
      BY <2>1, SendersFinite, FS_RemoveElement
    <2>3. Cardinality(Senders') \in Nat
      BY <2>1, SendersFinite, FS_RemoveElement, FS_CardinalityType
    <2>. QED BY <1>1, <1>5, <1>6, <1>7, <1>10, <2>2, <2>3, SendersFinite
  <1>. QED BY <1>8, <1>9, <1>10

LEMMA SlotsSame ==
  ASSUME SlotsAccounted, UNCHANGED <<free, thread>>
  PROVE  SlotsAccounted'
  BY DEF SlotsAccounted

(***************************************************************************)
(* Requests.                                                               *)
(***************************************************************************)
\* A request that goes from one phase to the next keeps its window and ranges.
LEMMA RequestKeeps ==
  ASSUME WindowAssumption, WindowInv, NEW f \in Files, NEW t \in Threads,
         NEW phase \in {"ask", "send", "judge"}, NEW reply \in {None} \cup Replies,
         thread[f][t].phase # "idle",
         thread' = [thread EXCEPT ![f][t] = [@ EXCEPT !.phase = phase, !.reply = reply]],
         UNCHANGED <<object, stopping, poolVars>>,
         free' \in Nat,
         \/ /\ thread[f][t].phase # "send" /\ phase # "send" /\ free' = free
         \/ /\ thread[f][t].phase # "send" /\ phase = "send" /\ free' = free - 1
         \/ /\ thread[f][t].phase = "send" /\ phase # "send" /\ free' = free + 1,
         phase = "judge" => reply \in Replies,
         t \in Workers /\ phase = "judge" /\ reply = "stopped" => cancelled[f] \/ stopping[f],
         t \in Workers /\ phase = "judge" /\ reply = "ok" /\ Suspect(f) =>
           ~Holds(Head(thread[f][t].todo), object[f].malware)
  PROVE  WindowInv'
  <1>. DEFINE new == [thread[f][t] EXCEPT !.phase = phase, !.reply = reply]
  <1>1. WindowTypeOK /\ SlotsAccounted /\ FileInv(f)
    BY DEF WindowInv
  <1>2. thread \in [Files -> [Threads -> ThreadState]] /\ thread[f][t] \in ThreadState
    BY <1>1, Types
  <1>3. /\ new.phase = phase /\ new.reply = reply
        /\ new.window = thread[f][t].window /\ new.todo = thread[f][t].todo
        /\ new \in ThreadState
    BY <1>2 DEF ThreadState
  <1>4. thread' = [thread EXCEPT ![f][t] = new]
    OBVIOUS
  <1>. HIDE DEF new
  <1>5. SlotsAccounted' /\ free' <= Slots
    <2>1. Sets(f, t, new)
      BY <1>3, <1>4 DEF Sets
    <2>. QED BY <1>1, <2>1, SlotsMove
  <1>6. thread' \in [Files -> [Threads -> ThreadState]]
    BY <1>2, <1>3, <1>4
  <1>7. WindowTypeOK'
    <2>1. FutureTypeOK'
      BY <1>1, Types DEF FutureTypeOK, poolVars
    <2>2. free' \in 0 .. Slots
      BY <1>5 DEF WindowAssumption
    <2>. QED BY <1>1, <1>6, <2>1, <2>2, Types, TypesNext DEF poolVars
  <1>8. /\ \A w \in Threads : w # t => thread'[f][w] = thread[f][w]
        /\ thread'[f][t] = new
        /\ \A g \in Files : g # f => thread'[g] = thread[g]
    <2>1. thread'[f] = [thread[f] EXCEPT ![t] = new] /\ \A g \in Files : g # f => thread'[g] = thread[g]
      BY <1>2, <1>4
    <2>2. thread[f] \in [Threads -> ThreadState]
      BY <1>2
    <2>. QED BY <2>1, <2>2
  <1>9. /\ \A w \in Workers : /\ Busy(f, w)' <=> Busy(f, w)
                              /\ thread'[f][w].window = thread[f][w].window
                              /\ thread'[f][w].todo = thread[f][w].todo
    BY <1>3, <1>8 DEF Busy, Threads
  <1>10. /\ object'[f] = object[f] /\ stopping'[f] = stopping[f] /\ futures'[f] = futures[f]
         /\ cancelled'[f] = cancelled[f] /\ found'[f] = found[f] /\ failure'[f] = failure[f]
         /\ result'[f] = result[f]
    BY DEF poolVars
  <1>11. Owned(f)'
    BY <1>1, <1>9, <1>10 DEF FileInv, Owned
  <1>12. ClearedHold(f)' /\ Interruptions(f)' /\ Reasons(f)' /\ Ended(f)'
    BY <1>1, <1>10 DEF FileInv, ClearedHold, Interruptions, Reasons, Ended, Suspect, Holds, End
  <1>13. RunningHold(f)'
    <2>1. Suspect(f)' <=> Suspect(f)
      BY <1>10 DEF Suspect
    <2>2. \A w \in Workers : w # t => thread'[f][w] = thread[f][w]
      BY <1>8 DEF Threads
    <2>3. RunningHold(f)
      BY <1>1 DEF FileInv
    <2>. SUFFICES ASSUME Suspect(f), NEW w \in Workers, Busy(f, w)
         PROVE /\ Holds(thread[f][w].window, object[f].malware) =>
                    \E i \in DOMAIN thread[f][w].todo : Holds(thread[f][w].todo[i], object[f].malware)
               /\ thread'[f][w].phase = "judge" /\ thread'[f][w].reply = "ok" =>
                    ~Holds(Head(thread[f][w].todo), object[f].malware)
      BY <1>9, <1>10, <2>1 DEF RunningHold, Holds, End
    <2>4. CASE w = t
      BY <1>3, <1>8, <2>3, <2>4 DEF RunningHold
    <2>5. CASE w # t
      BY <2>2, <2>3, <2>5 DEF RunningHold
    <2>. QED BY <2>4, <2>5
  <1>14. Stopped(f)'
    BY <1>1, <1>3, <1>8, <1>10 DEF FileInv, Stopped, Threads
  <1>15. FileInv(f)'
    BY <1>11, <1>12, <1>13, <1>14 DEF FileInv
  <1>16. \A g \in Files : g # f => SameFile(g)
    BY <1>8 DEF SameFile, poolVars
  <1>. QED BY <1>5, <1>7, <1>15, <1>16, OneFile

(***************************************************************************)
(* Workers.                                                                *)
(***************************************************************************)
SetsThread(f, t, new) == thread' = [thread EXCEPT ![f][t] = new]
SetsFuture(f, r, ending) == futures' = [futures EXCEPT ![f][r] = ending]

LEMMA ThreadSet ==
  ASSUME thread \in [Files -> [Threads -> ThreadState]],
         NEW f \in Files, NEW t \in Threads, NEW new \in ThreadState, SetsThread(f, t, new)
  PROVE  /\ thread' \in [Files -> [Threads -> ThreadState]]
         /\ thread'[f][t] = new
         /\ \A w \in Threads : w # t => thread'[f][w] = thread[f][w]
         /\ \A g \in Files : g # f => thread'[g] = thread[g]
  <1>1. thread'[f] = [thread[f] EXCEPT ![t] = new] /\ \A g \in Files : g # f => thread'[g] = thread[g]
    BY DEF SetsThread
  <1>2. thread[f] \in [Threads -> ThreadState]
    OBVIOUS
  <1>3. thread' \in [Files -> [Threads -> ThreadState]]
    BY DEF SetsThread
  <1>. QED BY <1>1, <1>2, <1>3

LEMMA FutureSet ==
  ASSUME FutureTypeOK, object' = object,
         NEW f \in Files, NEW r \in DOMAIN futures[f], NEW ending \in FutureStates,
         SetsFuture(f, r, ending)
  PROVE  /\ FutureTypeOK'
         /\ DOMAIN futures'[f] = DOMAIN futures[f]
         /\ futures'[f][r] = ending
         /\ \A s \in DOMAIN futures[f] : s # r => futures'[f][s] = futures[f][s]
         /\ \A g \in Files : g # f => futures'[g] = futures[g]
  <1>1. /\ futures = [g \in Files |-> futures[g]]
        /\ \A g \in Files : /\ futures[g] \in [DOMAIN futures[g] -> FutureStates]
                            /\ DOMAIN futures[g] \in {{}, WindowRanges(object[g].size)}
    BY DEF FutureTypeOK
  <1>2. /\ futures' = [g \in Files |-> futures'[g]]
        /\ futures'[f] = [futures[f] EXCEPT ![r] = ending]
        /\ \A g \in Files : g # f => futures'[g] = futures[g]
    BY <1>1 DEF SetsFuture
  <1>3. /\ futures'[f] \in [DOMAIN futures[f] -> FutureStates]
        /\ DOMAIN futures'[f] = DOMAIN futures[f]
    BY <1>1, <1>2
  <1>4. FutureTypeOK'
    <2>1. \A g \in Files : /\ futures'[g] \in [DOMAIN futures'[g] -> FutureStates]
                           /\ DOMAIN futures'[g] \in {{}, WindowRanges(object[g].size)}
      BY <1>1, <1>2, <1>3
    <2>. QED BY <1>2, <2>1 DEF FutureTypeOK
  <1>. QED BY <1>1, <1>2, <1>3, <1>4

\* A worker that ends leaves its ending with its window.
LEMMA FinishKeeps ==
  ASSUME WindowAssumption, WindowInv, NEW f \in Files, NEW w \in Workers,
         thread[f][w].phase = "judge",
         NEW ending \in Endings, Finish(f, w, ending),
         UNCHANGED <<object, stopping, free, found, failure, result>>,
         NEW c \in BOOLEAN, cancelled' = [cancelled EXCEPT ![f] = c],
         cancelled[f] => c,
         c => cancelled[f] \/ ending = "infected",
         ending = "cancelled" => c,
         ending = "interrupted" => stopping[f],
         Suspect(f) /\ ending = "clean" => ~Holds(thread[f][w].window, object[f].malware)
  PROVE  WindowInv'
  <1>. DEFINE window == thread[f][w].window
  <1>1. WindowTypeOK /\ SlotsAccounted /\ FileInv(f) /\ w \in Threads
    BY DEF WindowInv, Threads
  <1>2. /\ thread \in [Files -> [Threads -> ThreadState]] /\ FutureTypeOK
        /\ free \in 0 .. Slots /\ cancelled \in [Files -> BOOLEAN]
    BY <1>1, Types
  <1>3. /\ Owned(f) /\ ClearedHold(f) /\ RunningHold(f) /\ Stopped(f)
        /\ Interruptions(f) /\ Reasons(f) /\ Ended(f)
    BY <1>1 DEF FileInv
  <1>4. Busy(f, w) /\ window \in DOMAIN futures[f] /\ futures[f][window] = "running"
    BY <1>3 DEF Owned, Busy
  <1>. HIDE DEF window
  <1>5. SetsThread(f, w, Idle) /\ SetsFuture(f, window, ending) /\ Sets(f, w, Idle)
    BY IdleFacts DEF Finish, SetsThread, SetsFuture, Sets, window
  <1>6. ending \in FutureStates
    BY DEF FutureStates
  <1>7. /\ FutureTypeOK'
        /\ DOMAIN futures'[f] = DOMAIN futures[f]
        /\ futures'[f][window] = ending
        /\ \A s \in DOMAIN futures[f] : s # window => futures'[f][s] = futures[f][s]
        /\ \A g \in Files : g # f => futures'[g] = futures[g]
    BY <1>2, <1>4, <1>5, <1>6, FutureSet
  <1>8. /\ thread' \in [Files -> [Threads -> ThreadState]]
        /\ thread'[f][w] = Idle
        /\ \A v \in Threads : v # w => thread'[f][v] = thread[f][v]
        /\ \A g \in Files : g # f => thread'[g] = thread[g]
    BY <1>1, <1>2, <1>5, IdleFacts, ThreadSet
  <1>9. SlotsAccounted'
    BY <1>1, <1>5, SlotsMove
  <1>10. /\ cancelled' \in [Files -> BOOLEAN] /\ cancelled'[f] = c
         /\ \A g \in Files : g # f => cancelled'[g] = cancelled[g]
    BY <1>2
  <1>11. WindowTypeOK'
    BY <1>1, <1>7, <1>8, <1>10, Types, TypesNext
  <1>12. \A v \in Workers : Busy(f, v)' => v # w /\ Busy(f, v) /\ thread'[f][v] = thread[f][v]
    BY <1>8, IdleFacts DEF Busy, Threads
  <1>13. Owned(f)'
    <2>. SUFFICES ASSUME NEW v \in Workers, Busy(f, v)'
         PROVE /\ thread'[f][v].window \in DOMAIN futures'[f]
               /\ futures'[f][thread'[f][v].window] = "running"
               /\ thread'[f][v].todo # << >>
               /\ \A u \in Workers : u # v /\ Busy(f, u)' =>
                    thread'[f][u].window # thread'[f][v].window
      BY DEF Owned
    <2>1. thread[f][v].window # window
      BY <1>3, <1>4, <1>12 DEF Owned, window
    <2>. QED BY <1>3, <1>7, <1>12, <2>1 DEF Owned
  <1>14. ClearedHold(f)'
    BY <1>3, <1>4, <1>7 DEF ClearedHold, Suspect, Holds, End, Endings, window
  <1>15. RunningHold(f)'
    BY <1>3, <1>12 DEF RunningHold, Suspect, Holds, End
  <1>16. Stopped(f)'
    BY <1>3, <1>8, <1>10, IdleFacts DEF Stopped, Threads
  <1>17. Interruptions(f)' /\ Ended(f)'
    BY <1>3, <1>7 DEF Interruptions, Ended
  <1>18. Reasons(f)'
    <2>1. ASSUME NEW r \in DOMAIN futures'[f], futures'[f][r] \in {"cancelled", "dropped"}
          PROVE  c
      BY <1>3, <1>7, <2>1 DEF Reasons, Endings
    <2>2. c => \/ found'[f] \/ failure'[f] # None
               \/ \E r \in DOMAIN futures'[f] : futures'[f][r] = "infected"
      <3>1. CASE ending = "infected"
        BY <1>4, <1>7, <3>1
      <3>2. CASE cancelled[f] /\ ending # "infected"
        <4>1. \A r \in DOMAIN futures[f] : futures[f][r] = "infected" => futures'[f][r] = "infected"
          BY <1>4, <1>7
        <4>. QED BY <1>3, <1>7, <3>2, <4>1 DEF Reasons
      <3>. QED BY <3>1, <3>2
    <2>. QED BY <1>10, <2>1, <2>2 DEF Reasons
  <1>19. FileInv(f)'
    BY <1>13, <1>14, <1>15, <1>16, <1>17, <1>18 DEF FileInv
  <1>20. \A g \in Files : g # f => SameFile(g)
    BY <1>7, <1>8, <1>10 DEF SameFile
  <1>. QED BY <1>9, <1>11, <1>19, <1>20, OneFile

\* A worker that starts a window, or goes on with what is left of it.
LEMMA ProceedKeeps ==
  ASSUME WindowAssumption, WindowInv, NEW f \in Files, NEW w \in Workers,
         NEW window \in DOMAIN futures[f], NEW ranges \in Seq(Ranges), ranges # << >>,
         \/ thread[f][w].phase = "idle" /\ futures[f][window] = "queued"
         \/ thread[f][w].phase = "judge" /\ window = thread[f][w].window,
         ~cancelled[f],
         SetsThread(f, w, Asking(window, ranges)), SetsFuture(f, window, "running"),
         UNCHANGED <<object, stopping, free, cancelled, found, failure, result>>,
         Suspect(f) /\ Holds(window, object[f].malware) =>
           \E i \in DOMAIN ranges : Holds(ranges[i], object[f].malware)
  PROVE  WindowInv'
  <1>. DEFINE new == Asking(window, ranges)
  <1>1. WindowTypeOK /\ SlotsAccounted /\ FileInv(f) /\ w \in Threads
    BY DEF WindowInv, Threads
  <1>2. thread \in [Files -> [Threads -> ThreadState]] /\ FutureTypeOK /\ free \in 0 .. Slots
    BY <1>1, Types
  <1>3. /\ Owned(f) /\ ClearedHold(f) /\ RunningHold(f) /\ Stopped(f)
        /\ Interruptions(f) /\ Reasons(f) /\ Ended(f)
    BY <1>1 DEF FileInv
  <1>4. /\ new \in ThreadState /\ new.phase = "ask" /\ new.window = window /\ new.todo = ranges
        /\ new.reply = None
    <2>1. object[f].size \in Nat
      BY <1>1, Types DEF Objects
    <2>2. window \in Ranges
      BY <1>2, <2>1, WindowsAreRanges DEF FutureTypeOK
    <2>. QED BY <2>2 DEF ThreadState, Asking
  <1>. HIDE DEF new
  <1>5. Sets(f, w, new) /\ SetsThread(f, w, new)
    BY <1>4 DEF SetsThread, Sets, new
  <1>6. "running" \in FutureStates
    BY DEF FutureStates
  <1>7. /\ FutureTypeOK'
        /\ DOMAIN futures'[f] = DOMAIN futures[f]
        /\ futures'[f][window] = "running"
        /\ \A s \in DOMAIN futures[f] : s # window => futures'[f][s] = futures[f][s]
        /\ \A g \in Files : g # f => futures'[g] = futures[g]
    BY <1>2, <1>6, FutureSet
  <1>8. /\ thread' \in [Files -> [Threads -> ThreadState]]
        /\ thread'[f][w] = new
        /\ \A v \in Threads : v # w => thread'[f][v] = thread[f][v]
        /\ \A g \in Files : g # f => thread'[g] = thread[g]
    BY <1>1, <1>2, <1>4, <1>5, ThreadSet
  <1>9. SlotsAccounted'
    BY <1>1, <1>5, SlotsMove
  <1>10. WindowTypeOK'
    BY <1>1, <1>7, <1>8, Types, TypesNext
  <1>11. \A v \in Workers : v # w => /\ Busy(f, v)' <=> Busy(f, v)
                                     /\ thread'[f][v] = thread[f][v]
    BY <1>8 DEF Busy, Threads
  <1>12. \A v \in Workers : v # w /\ Busy(f, v) => thread[f][v].window # window
    BY <1>3 DEF Owned, Busy
  <1>13. Owned(f)'
    BY <1>3, <1>4, <1>7, <1>8, <1>11, <1>12 DEF Owned
  <1>14. ClearedHold(f)'
    BY <1>3, <1>7 DEF ClearedHold, Suspect, Holds, End
  <1>15. RunningHold(f)'
    <2>. SUFFICES ASSUME Suspect(f), NEW v \in Workers, Busy(f, v)'
         PROVE /\ Holds(thread'[f][v].window, object[f].malware) =>
                    \E i \in DOMAIN thread'[f][v].todo :
                      Holds(thread'[f][v].todo[i], object[f].malware)
               /\ thread'[f][v].phase = "judge" /\ thread'[f][v].reply = "ok" =>
                    ~Holds(Head(thread'[f][v].todo), object[f].malware)
      BY DEF RunningHold, Suspect, Holds, End
    <2>1. CASE v = w
      BY <1>4, <1>8, <2>1
    <2>2. CASE v # w
      BY <1>3, <1>11, <2>2 DEF RunningHold
    <2>. QED BY <2>1, <2>2
  <1>16. Stopped(f)'
    BY <1>3, <1>4, <1>8 DEF Stopped, Threads
  <1>17. Interruptions(f)' /\ Ended(f)'
    BY <1>3, <1>7 DEF Interruptions, Ended
  <1>18. Reasons(f)'
    BY <1>3, <1>7 DEF Reasons
  <1>19. FileInv(f)'
    BY <1>13, <1>14, <1>15, <1>16, <1>17, <1>18 DEF FileInv
  <1>20. \A g \in Files : g # f => SameFile(g)
    BY <1>7, <1>8 DEF SameFile
  <1>. QED BY <1>9, <1>10, <1>19, <1>20, OneFile

\* What is left of a window after its first range.
LEMMA RestFacts ==
  ASSUME NEW todo \in Seq(Ranges), todo # << >>
  PROVE  /\ Head(todo) \in Ranges /\ Tail(todo) \in Seq(Ranges)
         /\ \A m : (\E i \in DOMAIN todo : Holds(todo[i], m)) =>
              Holds(Head(todo), m) \/ \E i \in DOMAIN Tail(todo) : Holds(Tail(todo)[i], m)
  <1>1. Head(todo) \in Ranges /\ Tail(todo) \in Seq(Ranges) /\ Head(todo) = todo[1]
    OBVIOUS
  <1>2. ASSUME NEW i \in DOMAIN todo, i # 1
        PROVE  i - 1 \in DOMAIN Tail(todo) /\ Tail(todo)[i - 1] = todo[i]
    BY <1>2
  <1>. QED BY <1>1, <1>2

\* The halves take the place of the range that was split.
LEMMA HalvesFacts ==
  ASSUME WindowAssumption, NEW todo \in Seq(Ranges), todo # << >>,
         SplitWindow(Head(todo)) # << >>
  PROVE  /\ SplitWindow(Head(todo)) \o Tail(todo) \in Seq(Ranges)
         /\ SplitWindow(Head(todo)) \o Tail(todo) # << >>
         /\ \A size \in Nat : \A m \in Places(size) :
              m # None /\ (\E i \in DOMAIN todo : Holds(todo[i], m)) =>
                \E i \in DOMAIN (SplitWindow(Head(todo)) \o Tail(todo)) :
                  Holds((SplitWindow(Head(todo)) \o Tail(todo))[i], m)
  <1>. DEFINE r == Head(todo)
              h == SplitWindow(r)
              rest == Tail(todo)
              both == h \o rest
  <1>1. r \in Ranges /\ rest \in Seq(Ranges)
    BY RestFacts
  <1>. HIDE DEF r, rest
  <1>2. h = <<h[1], h[2]>> /\ h[1] \in Ranges /\ h[2] \in Ranges
    BY <1>1, SplitCovers DEF r
  <1>. HIDE DEF h
  <1>3. h \in Seq(Ranges) /\ Len(h) = 2
    <2>1. PICK left \in Ranges, right \in Ranges : h = <<left, right>>
      BY <1>2
    <2>2. <<left, right>> \in Seq(Ranges) /\ Len(<<left, right>>) = 2
      OBVIOUS
    <2>. QED BY <2>1, <2>2
  <1>4. /\ both \in Seq(Ranges) /\ Len(both) = 2 + Len(rest)
        /\ both[1] = h[1] /\ both[2] = h[2]
        /\ \A i \in DOMAIN rest : both[i + 2] = rest[i] /\ i + 2 \in DOMAIN both
    <2>. /\ Len(h \o rest) = Len(h) + Len(rest)
         /\ h \o rest \in Seq(Ranges)
         /\ \A i \in 1 .. Len(h) + Len(rest) :
              (h \o rest)[i] = IF i <= Len(h) THEN h[i] ELSE rest[i - Len(h)]
      BY <1>1, <1>3, ConcatProperties
    <2>. HIDE DEF both
    <2>1. both \in Seq(Ranges) /\ Len(both) = 2 + Len(rest)
      BY <1>3 DEF both
    <2>4. Len(rest) \in Nat
      BY <1>1
    <2>2. both[1] = h[1] /\ both[2] = h[2]
      BY <1>3, <2>4 DEF both
    <2>3. ASSUME NEW i \in DOMAIN rest
          PROVE  both[i + 2] = rest[i] /\ i + 2 \in DOMAIN both
      <3>1. i \in 1 .. Len(rest)
        BY <1>1
      <3>2. i + 2 \in 1 .. Len(both)
        BY <1>1, <2>1, <3>1
      <3>3. both[i + 2] = rest[i + 2 - Len(h)]
        BY <1>3, <2>4, <3>1 DEF both
      <3>. QED BY <1>3, <2>1, <3>1, <3>2, <3>3
    <2>. QED BY <2>1, <2>2, <2>3
  <1>5. 1 \in DOMAIN both /\ 2 \in DOMAIN both /\ both # << >>
    BY <1>1, <1>4
  <1>6. ASSUME NEW size \in Nat, NEW m \in Places(size), m # None, Holds(r, m)
        PROVE  Holds(h[1], m) \/ Holds(h[2], m)
    <2>1. /\ m.from \in Nat /\ m.to \in Nat /\ m.from < m.to /\ m.to - m.from <= Overlap + 1
      BY <1>6 DEF Places
    <2>2. r.offset <= m.from /\ m.to <= End(r)
      BY <1>6 DEF Holds
    <2>3. \E i \in {1, 2} : h[i].offset <= m.from /\ m.to <= End(h[i])
      BY <1>1, <2>1, <2>2, SplitCovers DEF h, r
    <2>. QED BY <1>6, <2>3 DEF Holds
  <1>. HIDE DEF both
  <1>7. ASSUME NEW size \in Nat, NEW m \in Places(size), m # None,
               \E i \in DOMAIN todo : Holds(todo[i], m)
        PROVE  \E i \in DOMAIN both : Holds(both[i], m)
    <2>1. Holds(r, m) \/ \E i \in DOMAIN rest : Holds(rest[i], m)
      BY <1>7, RestFacts DEF r, rest
    <2>2. CASE Holds(r, m)
      BY <1>4, <1>5, <1>6, <1>7, <2>2
    <2>3. CASE \E i \in DOMAIN rest : Holds(rest[i], m)
      BY <1>4, <2>3
    <2>. QED BY <2>1, <2>2, <2>3
  <1>. QED BY <1>4, <1>5, <1>7 DEF both, h, r, rest

\* Going on is ending as cancelled or going on with the ranges.
LEMMA ProceedCases ==
  ASSUME NEW f, NEW w, NEW window, NEW ranges, Proceed(f, w, window, ranges)
  PROVE  \/ /\ cancelled[f] /\ SetsThread(f, w, Idle) /\ SetsFuture(f, window, "cancelled")
         \/ /\ ~cancelled[f]
            /\ SetsThread(f, w, Asking(window, ranges)) /\ SetsFuture(f, window, "running")
  BY DEF Proceed, SetsThread, SetsFuture

\* The answer is judged (the body of the workers' loop).
LEMMA JudgeKeeps ==
  ASSUME WindowAssumption, WindowInv, NEW f \in Files, NEW w \in Workers, Judge(f, w)
  PROVE  WindowInv'
  <1>. DEFINE current == Current(f, w)
              window  == thread[f][w].window
              todo    == thread[f][w].todo
              rest    == Tail(todo)
              reply   == thread[f][w].reply
              halves  == SplitWindow(current)
              refused == \/ reply \in {"unpack", "limit", "broken"}
                         \/ (reply = "split" /\ halves = << >>)
                         \/ object[f].touched
              stops   == reply = "found" /\ ~refused
              c       == cancelled[f] \/ stops
  <1>1. WindowTypeOK /\ FileInv(f) /\ w \in Threads
    BY DEF WindowInv, Threads
  <1>2. /\ thread \in [Files -> [Threads -> ThreadState]] /\ FutureTypeOK
        /\ cancelled \in [Files -> BOOLEAN] /\ object \in [Files -> Objects]
    BY <1>1, Types
  <1>3. Owned(f) /\ RunningHold(f) /\ Stopped(f)
    BY <1>1 DEF FileInv
  <1>4. /\ thread[f][w].phase = "judge" /\ Busy(f, w)
        /\ cancelled' = [cancelled EXCEPT ![f] = c]
        /\ UNCHANGED <<object, stopping, free, found, failure, result>>
    BY DEF Judge, Busy
  <1>5. /\ todo \in Seq(Ranges) /\ todo # << >> /\ window \in DOMAIN futures[f]
        /\ futures[f][window] = "running" /\ current = Head(todo)
    BY <1>1, <1>2, <1>3, <1>4 DEF Owned, ThreadState, Current
  <1>6. /\ reply \in Replies /\ (reply = "stopped" => cancelled[f] \/ stopping[f])
    BY <1>3, <1>4 DEF Stopped
  <1>7. object[f].size \in Nat /\ object[f].malware \in Places(object[f].size)
    BY <1>2 DEF Objects
  <1>8. IF reply = "stopped" THEN \/ /\ cancelled[f]
                                    /\ Finish(f, w, "cancelled")
                                 \/ /\ stopping[f] \/ ~cancelled[f]
                                    /\ Finish(f, w, "interrupted")
        ELSE IF refused THEN Finish(f, w, "failed")
        ELSE IF reply = "found" THEN Finish(f, w, "infected")
        ELSE IF reply = "split" THEN Proceed(f, w, window, halves \o rest)
        ELSE IF rest = << >> THEN Finish(f, w, "clean")
        ELSE Proceed(f, w, window, rest)
    BY DEF Judge
  <1>. HIDE DEF refused
  <1>9. stops \in BOOLEAN /\ c \in BOOLEAN /\ (cancelled[f] => c)
    BY <1>2
  <1>10. ASSUME NEW ending \in Endings, Finish(f, w, ending),
               stops => ending = "infected",
               ending = "cancelled" => c,
               ending = "interrupted" => stopping[f],
               Suspect(f) /\ ending = "clean" => ~Holds(window, object[f].malware)
        PROVE  WindowInv'
    BY <1>4, <1>9, <1>10, FinishKeeps
  <1>11. ASSUME NEW ranges \in Seq(Ranges), ranges # << >>, ~stops,
                Proceed(f, w, window, ranges),
                Suspect(f) /\ Holds(window, object[f].malware) =>
                  \E i \in DOMAIN ranges : Holds(ranges[i], object[f].malware)
         PROVE  WindowInv'
    <2>1. CASE cancelled[f]
      <3>1. Finish(f, w, "cancelled")
        BY <1>11, <2>1 DEF Proceed, Finish
      <3>. QED BY <1>10, <1>11, <2>1, <3>1 DEF Endings
    <2>2. CASE ~cancelled[f]
      <3>1. SetsThread(f, w, Asking(window, ranges)) /\ SetsFuture(f, window, "running")
        BY <1>11, <2>2, ProceedCases
      <3>2. cancelled' = cancelled
        BY <1>2, <1>4, <1>11, <2>2
      <3>. QED BY <1>4, <1>5, <1>11, <2>2, <3>1, <3>2, ProceedKeeps
    <2>. QED BY <2>1, <2>2
  <1>. HIDE DEF current, window, todo, rest, halves, stops, c
  <1>12. CASE reply = "stopped"
    <2>1. ~stops
      BY <1>12 DEF stops
    <2>2. CASE cancelled[f] /\ Finish(f, w, "cancelled")
      BY <1>9, <1>10, <2>1, <2>2 DEF Endings
    <2>3. CASE (stopping[f] \/ ~cancelled[f]) /\ Finish(f, w, "interrupted")
      BY <1>6, <1>10, <1>12, <2>1, <2>3 DEF Endings
    <2>. QED BY <1>8, <1>12, <2>2, <2>3
  <1>13. CASE reply # "stopped" /\ refused
    BY <1>8, <1>10, <1>13 DEF Endings, stops
  <1>14. CASE reply = "found" /\ ~refused
    BY <1>8, <1>10, <1>14 DEF Endings
  <1>15. CASE reply = "split" /\ ~refused
    <2>1. ~stops /\ halves # << >>
      BY <1>15 DEF stops, refused
    <2>2. /\ halves \o rest \in Seq(Ranges) /\ halves \o rest # << >>
          /\ \A m \in Places(object[f].size) :
               m # None /\ (\E i \in DOMAIN todo : Holds(todo[i], m)) =>
                 \E i \in DOMAIN (halves \o rest) : Holds((halves \o rest)[i], m)
      BY <1>5, <1>7, <2>1, HalvesFacts DEF halves, rest
    <2>3. Suspect(f) /\ Holds(window, object[f].malware) =>
            \E i \in DOMAIN todo : Holds(todo[i], object[f].malware)
      BY <1>3, <1>4 DEF RunningHold, window, todo
    <2>4. Suspect(f) /\ Holds(window, object[f].malware) =>
            \E i \in DOMAIN (halves \o rest) : Holds((halves \o rest)[i], object[f].malware)
      BY <1>7, <2>2, <2>3 DEF Suspect
    <2>5. Proceed(f, w, window, halves \o rest)
      BY <1>8, <1>15
    <2>. QED BY <1>11, <2>1, <2>2, <2>4, <2>5
  <1>16. CASE reply \notin {"stopped", "found", "split"} /\ ~refused
    <2>1. ~stops /\ reply = "ok"
      BY <1>6, <1>16 DEF stops, refused, Replies
    <2>2. Suspect(f) => ~Holds(current, object[f].malware)
      BY <1>3, <1>4, <1>5, <2>1 DEF RunningHold, todo, current
    <2>3. Suspect(f) /\ Holds(window, object[f].malware) =>
            \E i \in DOMAIN todo : Holds(todo[i], object[f].malware)
      BY <1>3, <1>4 DEF RunningHold, window, todo
    <2>4. Suspect(f) /\ Holds(window, object[f].malware) =>
            \E i \in DOMAIN rest : Holds(rest[i], object[f].malware)
      BY <1>5, <2>2, <2>3, RestFacts DEF rest
    <2>5. CASE rest = << >>
      <3>1. Finish(f, w, "clean")
        BY <1>8, <1>16, <2>5
      <3>2. Suspect(f) => ~Holds(window, object[f].malware)
        BY <2>4, <2>5
      <3>. QED BY <1>10, <2>1, <3>1, <3>2 DEF Endings
    <2>6. CASE rest # << >>
      <3>1. Proceed(f, w, window, rest)
        BY <1>8, <1>16, <2>6
      <3>2. rest \in Seq(Ranges)
        BY <1>5, RestFacts DEF rest
      <3>. QED BY <1>11, <2>1, <2>4, <2>6, <3>1, <3>2
    <2>. QED BY <2>5, <2>6
  <1>. QED BY <1>12, <1>13, <1>14, <1>15, <1>16

\* A window taken after the cancellation is not scanned.
LEMMA SkipKeeps ==
  ASSUME WindowAssumption, WindowInv, NEW f \in Files, NEW w \in Workers,
         thread[f][w].phase = "idle",
         NEW window \in DOMAIN futures[f], futures[f][window] = "queued", cancelled[f],
         NEW ranges, Proceed(f, w, window, ranges),
         UNCHANGED <<object, stopping, free, cancelled, found, failure, result>>
  PROVE  WindowInv'
  <1>1. WindowTypeOK /\ SlotsAccounted /\ FileInv(f) /\ w \in Threads
    BY DEF WindowInv, Threads
  <1>2. thread \in [Files -> [Threads -> ThreadState]] /\ FutureTypeOK
    BY <1>1, Types
  <1>3. SetsThread(f, w, Idle) /\ SetsFuture(f, window, "cancelled") /\ "cancelled" \in FutureStates
    BY ProceedCases DEF FutureStates, Endings
  <1>4. Sets(f, w, Idle)
    BY <1>3, IdleFacts DEF Sets, SetsThread
  <1>5. /\ FutureTypeOK'
        /\ DOMAIN futures'[f] = DOMAIN futures[f]
        /\ futures'[f][window] = "cancelled"
        /\ \A s \in DOMAIN futures[f] : s # window => futures'[f][s] = futures[f][s]
        /\ \A g \in Files : g # f => futures'[g] = futures[g]
    BY <1>2, <1>3, FutureSet
  <1>6. /\ thread' \in [Files -> [Threads -> ThreadState]]
        /\ thread'[f][w] = Idle
        /\ \A v \in Threads : v # w => thread'[f][v] = thread[f][v]
        /\ \A g \in Files : g # f => thread'[g] = thread[g]
    BY <1>1, <1>2, <1>3, IdleFacts, ThreadSet
  <1>7. WindowTypeOK' /\ SlotsAccounted'
    BY <1>1, <1>4, <1>5, <1>6, Types, TypesNext, SlotsMove
  <1>8. \A v \in Workers : Busy(f, v)' => v # w /\ Busy(f, v) /\ thread'[f][v] = thread[f][v]
    BY <1>6, IdleFacts DEF Busy, Threads
  <1>9. /\ Owned(f) /\ ClearedHold(f) /\ RunningHold(f) /\ Stopped(f)
        /\ Interruptions(f) /\ Reasons(f) /\ Ended(f)
    BY <1>1 DEF FileInv
  <1>10. Owned(f)'
    BY <1>5, <1>8, <1>9 DEF Owned
  <1>11. ClearedHold(f)'
    BY <1>5, <1>9 DEF ClearedHold, Suspect, Holds, End
  <1>12. RunningHold(f)' /\ Stopped(f)'
    BY <1>6, <1>8, <1>9, IdleFacts DEF RunningHold, Stopped, Suspect, Holds, End, Threads
  <1>13. Interruptions(f)' /\ Reasons(f)' /\ Ended(f)'
    <2>1. \A s \in DOMAIN futures[f] : futures[f][s] = "infected" => futures'[f][s] = "infected"
      BY <1>5
    <2>. QED BY <1>5, <1>9, <2>1 DEF Interruptions, Reasons, Ended
  <1>14. FileInv(f)'
    BY <1>10, <1>11, <1>12, <1>13 DEF FileInv
  <1>15. \A g \in Files : g # f => SameFile(g)
    BY <1>5, <1>6 DEF SameFile
  <1>. QED BY <1>7, <1>14, <1>15, OneFile

LEMMA TakeKeeps ==
  ASSUME WindowAssumption, WindowInv, NEW f \in Files, NEW w \in Workers, Take(f, w)
  PROVE  WindowInv'
  <1>1. PICK r \in DOMAIN futures[f] : futures[f][r] = "queued" /\ Proceed(f, w, r, <<r>>)
    BY DEF Take
  <1>2. /\ thread[f][w].phase = "idle"
        /\ UNCHANGED <<object, stopping, free, cancelled, found, failure, result>>
    BY DEF Take
  <1>3. /\ object[f].size \in Nat /\ WindowTypeOK /\ FutureTypeOK
    BY Types DEF WindowInv, Objects
  <1>4. <<r>> \in Seq(Ranges) /\ <<r>> # << >>
    <2>1. r \in Ranges
      BY <1>3, WindowsAreRanges DEF FutureTypeOK
    <2>. QED BY <2>1
  <1>5. \A m : Holds(r, m) => \E i \in DOMAIN <<r>> : Holds(<<r>>[i], m)
    OBVIOUS
  <1>6. ~cancelled[f] => SetsThread(f, w, Asking(r, <<r>>)) /\ SetsFuture(f, r, "running")
    BY <1>1, ProceedCases
  <1>7. CASE ~cancelled[f]
    BY <1>1, <1>2, <1>4, <1>5, <1>6, <1>7, ProceedKeeps
  <1>8. CASE cancelled[f]
    BY <1>1, <1>2, <1>8, SkipKeeps
  <1>. QED BY <1>7, <1>8

(***************************************************************************)
(* The main thread.                                                        *)
(***************************************************************************)
\* While there are no futures no worker is busy.
LEMMA NoWorkers ==
  ASSUME NEW f \in Files, FileInv(f), \A r \in DOMAIN futures[f] : futures[f][r] # "running"
  PROVE  \A w \in Workers : ~Busy(f, w)
  BY DEF FileInv, Owned

\* The main thread asks for content of its own, or has its answer.
LEMMA MainKeeps ==
  ASSUME WindowAssumption, WindowInv, NEW f \in Files, NEW new \in ThreadState,
         new.phase # "send", thread[f][Main].phase # "send",
         SetsThread(f, Main, new),
         NEW ending \in {None, result[f]}, result' = [result EXCEPT ![f] = ending],
         UNCHANGED <<object, stopping, free, futures, cancelled, found, failure>>
  PROVE  WindowInv'
  <1>1. WindowTypeOK /\ SlotsAccounted /\ FileInv(f) /\ Main \in Threads /\ Main \notin Workers
    BY DEF WindowInv, Threads, WindowAssumption
  <1>2. /\ thread \in [Files -> [Threads -> ThreadState]] /\ FutureTypeOK
        /\ result \in [Files -> Results] /\ None \in Results /\ None \notin {"clean", "interrupted"}
    BY <1>1, Types DEF Results, WindowAssumption
  <1>3. Sets(f, Main, new)
    BY DEF Sets, SetsThread
  <1>4. /\ thread' \in [Files -> [Threads -> ThreadState]]
        /\ \A v \in Threads : v # Main => thread'[f][v] = thread[f][v]
        /\ \A g \in Files : g # f => thread'[g] = thread[g]
    BY <1>1, <1>2, ThreadSet
  <1>5. SlotsAccounted'
    BY <1>1, <1>3, SlotsMove
  <1>6. /\ result' \in [Files -> Results] /\ result'[f] \in {None, result[f]}
        /\ \A g \in Files : g # f => result'[g] = result[g]
    BY <1>2
  <1>7. WindowTypeOK'
    <2>1. FutureTypeOK'
      BY <1>2 DEF FutureTypeOK
    <2>. QED BY <1>1, <1>4, <1>6, <2>1, Types, TypesNext
  <1>8. \A w \in Workers : thread'[f][w] = thread[f][w]
    BY <1>1, <1>4 DEF Threads
  <1>9. FileInv(f)'
    <2>1. Owned(f)' /\ Stopped(f)'
      BY <1>1, <1>8 DEF FileInv, Owned, Busy, Stopped
    <2>2. ClearedHold(f)' /\ Interruptions(f)' /\ Reasons(f)'
      BY <1>1 DEF FileInv, ClearedHold, Interruptions, Reasons, Suspect, Holds, End
    <2>3. RunningHold(f)'
      BY <1>1, <1>8 DEF FileInv, RunningHold, Busy, Suspect, Holds, End
    <2>4. Ended(f)'
      BY <1>1, <1>2, <1>6 DEF FileInv, Ended
    <2>. QED BY <2>1, <2>2, <2>3, <2>4 DEF FileInv
  <1>10. \A g \in Files : g # f => SameFile(g)
    BY <1>4, <1>6 DEF SameFile
  <1>. QED BY <1>5, <1>7, <1>9, <1>10, OneFile

LEMMA RequestStarts ==
  ASSUME WindowAssumption, WindowInv, NEW f \in Files, Request(f)
  PROVE  WindowInv'
  <1>1. Asking(None, <<Whole(f)>>) \in ThreadState
    <2>1. object[f].size \in Nat
      BY Types DEF WindowInv, Objects
    <2>2. Whole(f) \in Ranges
      BY <2>1 DEF Whole, Ranges
    <2>3. <<Whole(f)>> \in Seq(Ranges)
      BY <2>2
    <2>. QED BY <2>3 DEF Asking, ThreadState
  <1>2. Asking(None, <<Whole(f)>>).phase # "send" /\ thread[f][Main].phase # "send"
    BY IdleFacts DEF Asking, Request
  <1>. QED BY <1>1, <1>2, MainKeeps DEF Request, SetsThread

LEMMA ReturnKeeps ==
  ASSUME WindowAssumption, WindowInv, NEW f \in Files, Return(f)
  PROVE  WindowInv'
  <1>1. result' = [result EXCEPT ![f] = result[f]]
    BY Types DEF WindowInv, Return, poolVars
  <1>2. Idle.phase # "send" /\ thread[f][Main].phase # "send"
    BY IdleFacts DEF Return
  <1>. QED BY <1>1, <1>2, IdleFacts, MainKeeps DEF Return, SetsThread, poolVars

LEMMA SubmitKeeps ==
  ASSUME WindowAssumption, WindowInv, NEW f \in Files, Submit(f)
  PROVE  WindowInv'
  <1>. DEFINE ranges == WindowRanges(object[f].size)
              new == [r \in ranges |-> "queued"]
  <1>1. WindowTypeOK /\ SlotsAccounted /\ FileInv(f)
    BY DEF WindowInv
  <1>2. /\ FutureTypeOK /\ result \in [Files -> Results]
        /\ None \in Results /\ None \notin {"clean", "interrupted"}
    BY <1>1, Types DEF Results, WindowAssumption
  <1>3. /\ futures' = [futures EXCEPT ![f] = new] /\ result' = [result EXCEPT ![f] = None]
        /\ UNCHANGED <<object, stopping, free, thread, cancelled, found, failure>>
        /\ DOMAIN futures[f] = {}
    BY DEF Submit, requestVars
  <1>4. /\ futures' = [g \in Files |-> futures'[g]] /\ futures'[f] = new
        /\ \A g \in Files : g # f => futures'[g] = futures[g]
    BY <1>2, <1>3 DEF FutureTypeOK
  <1>5. DOMAIN new = ranges /\ new \in [ranges -> FutureStates] /\ \A r \in ranges : new[r] = "queued"
    BY DEF FutureStates
  <1>. HIDE DEF new, ranges
  <1>6. FutureTypeOK'
    <2>1. \A g \in Files : /\ futures'[g] \in [DOMAIN futures'[g] -> FutureStates]
                           /\ DOMAIN futures'[g] \in {{}, WindowRanges(object[g].size)}
      BY <1>2, <1>4, <1>5 DEF FutureTypeOK, ranges
    <2>. QED BY <1>3, <1>4, <2>1 DEF FutureTypeOK
  <1>7. /\ result' \in [Files -> Results] /\ result'[f] = None
        /\ \A g \in Files : g # f => result'[g] = result[g]
    BY <1>2, <1>3
  <1>8. WindowTypeOK' /\ SlotsAccounted'
    BY <1>1, <1>3, <1>6, <1>7, Types, TypesNext, SlotsSame
  <1>9. \A w \in Workers : ~Busy(f, w) /\ ~Busy(f, w)'
    BY <1>1, <1>3, NoWorkers DEF Busy
  <1>10. FileInv(f)'
    <2>1. Owned(f)' /\ Stopped(f)' /\ RunningHold(f)'
      BY <1>9 DEF Owned, Stopped, RunningHold, Busy
    <2>2. ClearedHold(f)'
      BY <1>4, <1>5 DEF ClearedHold
    <2>3. Interruptions(f)' /\ Reasons(f)'
      BY <1>1, <1>3, <1>4, <1>5 DEF FileInv, Interruptions, Reasons
    <2>4. Ended(f)'
      BY <1>2, <1>7 DEF Ended
    <2>. QED BY <2>1, <2>2, <2>3, <2>4 DEF FileInv
  <1>11. \A g \in Files : g # f => SameFile(g)
    BY <1>3, <1>4, <1>7 DEF SameFile
  <1>. QED BY <1>8, <1>10, <1>11, OneFile

LEMMA CollectKeeps ==
  ASSUME WindowAssumption, WindowInv, NEW f \in Files, Collect(f)
  PROVE  WindowInv'
  <1>1. WindowTypeOK /\ SlotsAccounted /\ FileInv(f)
    BY DEF WindowInv
  <1>2. /\ FutureTypeOK /\ found \in [Files -> BOOLEAN] /\ cancelled \in [Files -> BOOLEAN]
        /\ failure \in [Files -> {None, "failed", "interrupted"}]
        /\ None \notin {"failed", "interrupted"}
    BY <1>1, Types DEF WindowAssumption
  <1>3. PICK r \in DOMAIN futures[f] :
          /\ futures[f][r] \in {"clean", "infected", "failed", "interrupted", "cancelled"}
          /\ futures' = [futures EXCEPT ![f][r] =
               IF futures[f][r] \in {"clean", "infected"} THEN "counted" ELSE "dropped"]
          /\ found' = [found EXCEPT ![f] = @ \/ futures[f][r] = "infected"]
          /\ failure' = [failure EXCEPT ![f] =
               IF futures[f][r] \in {"failed", "interrupted"} /\ @ = None THEN futures[f][r] ELSE @]
          /\ cancelled' = [cancelled EXCEPT ![f] =
               @ \/ futures[f][r] \in {"infected", "failed", "interrupted"}]
          /\ UNCHANGED <<object, stopping, free, thread, result>>
    BY DEF Collect, requestVars
  <1>. DEFINE ending == futures[f][r]
              new == IF ending \in {"clean", "infected"} THEN "counted" ELSE "dropped"
  <1>4. new \in FutureStates /\ SetsFuture(f, r, new)
    BY <1>3 DEF FutureStates, SetsFuture
  <1>5. new \in {"counted", "dropped"} /\ (new = "counted" <=> ending \in {"clean", "infected"})
    OBVIOUS
  <1>. HIDE DEF new
  <1>6. /\ FutureTypeOK'
        /\ DOMAIN futures'[f] = DOMAIN futures[f]
        /\ futures'[f][r] = new
        /\ \A s \in DOMAIN futures[f] : s # r => futures'[f][s] = futures[f][s]
        /\ \A g \in Files : g # f => futures'[g] = futures[g]
    BY <1>2, <1>3, <1>4, FutureSet
  <1>7. /\ found' \in [Files -> BOOLEAN] /\ cancelled' \in [Files -> BOOLEAN]
        /\ failure' \in [Files -> {None, "failed", "interrupted"}]
        /\ found'[f] = (found[f] \/ ending = "infected")
        /\ failure'[f] = IF ending \in {"failed", "interrupted"} /\ failure[f] = None
                           THEN ending ELSE failure[f]
        /\ cancelled'[f] = (cancelled[f] \/ ending \in {"infected", "failed", "interrupted"})
        /\ \A g \in Files : g # f =>
             found'[g] = found[g] /\ failure'[g] = failure[g] /\ cancelled'[g] = cancelled[g]
    <2>1. found' \in [Files -> BOOLEAN] /\ found'[f] = (found[f] \/ ending = "infected")
      BY <1>2, <1>3
    <2>2. /\ cancelled' \in [Files -> BOOLEAN]
          /\ cancelled'[f] = (cancelled[f] \/ ending \in {"infected", "failed", "interrupted"})
      BY <1>2, <1>3
    <2>3. /\ failure' \in [Files -> {None, "failed", "interrupted"}]
          /\ failure'[f] = IF ending \in {"failed", "interrupted"} /\ failure[f] = None
                             THEN ending ELSE failure[f]
      BY <1>2, <1>3
    <2>. QED BY <1>2, <1>3, <2>1, <2>2, <2>3
  <1>8. WindowTypeOK' /\ SlotsAccounted'
    BY <1>1, <1>3, <1>6, <1>7, Types, TypesNext, SlotsSame
  <1>9. /\ Owned(f) /\ ClearedHold(f) /\ RunningHold(f) /\ Stopped(f)
        /\ Interruptions(f) /\ Reasons(f) /\ Ended(f)
    BY <1>1 DEF FileInv
  <1>10. Owned(f)' /\ RunningHold(f)'
    BY <1>3, <1>6, <1>9 DEF Owned, Busy, RunningHold, Suspect, Holds, End
  <1>11. Stopped(f)' /\ Ended(f)'
    BY <1>3, <1>7, <1>9 DEF Stopped, Ended
  <1>12. ClearedHold(f)'
    BY <1>3, <1>5, <1>6, <1>7, <1>9 DEF ClearedHold, Suspect, Holds, End
  <1>13. Interruptions(f)'
    BY <1>3, <1>5, <1>6, <1>7, <1>9 DEF Interruptions
  <1>14. Reasons(f)'
    <2>1. ASSUME NEW s \in DOMAIN futures'[f], futures'[f][s] \in {"cancelled", "dropped"}
          PROVE  cancelled'[f]
      BY <1>3, <1>5, <1>6, <1>7, <1>9, <2>1 DEF Reasons
    <2>2. ASSUME cancelled'[f]
          PROVE  \/ found'[f] \/ failure'[f] # None
                 \/ \E s \in DOMAIN futures'[f] : futures'[f][s] = "infected"
      <3>1. CASE ending \in {"infected", "failed", "interrupted"}
        BY <1>2, <1>7, <3>1
      <3>2. CASE ending \notin {"infected", "failed", "interrupted"}
        <4>1. cancelled[f] /\ found'[f] = found[f] /\ failure'[f] = failure[f]
          BY <1>2, <1>7, <2>2, <3>2
        <4>2. \A s \in DOMAIN futures[f] : futures[f][s] = "infected" => futures'[f][s] = "infected"
          BY <1>6, <3>2
        <4>. QED BY <1>6, <1>9, <4>1, <4>2 DEF Reasons
      <3>. QED BY <3>1, <3>2
    <2>. QED BY <2>1, <2>2 DEF Reasons
  <1>15. FileInv(f)'
    BY <1>10, <1>11, <1>12, <1>13, <1>14 DEF FileInv
  <1>16. \A g \in Files : g # f => SameFile(g)
    BY <1>3, <1>6, <1>7 DEF SameFile
  <1>. QED BY <1>8, <1>15, <1>16, OneFile

\* A window scan ends as clean only when every window is.
LEMMA ConcludeKeeps ==
  ASSUME WindowAssumption, WindowInv, NEW f \in Files, Conclude(f)
  PROVE  WindowInv'
  <1>. DEFINE none == [w \in {} |-> "queued"]
  <1>1. WindowTypeOK /\ SlotsAccounted /\ FileInv(f)
    BY DEF WindowInv
  <1>2. /\ FutureTypeOK /\ found \in [Files -> BOOLEAN] /\ cancelled \in [Files -> BOOLEAN]
        /\ failure \in [Files -> {None, "failed", "interrupted"}]
        /\ result \in [Files -> Results] /\ object \in [Files -> Objects]
    BY <1>1, Types
  <1>3. /\ DOMAIN futures[f] # {}
        /\ \A r \in DOMAIN futures[f] : futures[f][r] \in {"counted", "dropped"}
        /\ result' = [result EXCEPT ![f] = Outcome(f)]
        /\ futures' = [futures EXCEPT ![f] = none]
        /\ cancelled' = [cancelled EXCEPT ![f] = FALSE]
        /\ found' = [found EXCEPT ![f] = FALSE]
        /\ failure' = [failure EXCEPT ![f] = None]
        /\ UNCHANGED <<object, stopping, free, thread>>
    BY DEF Conclude, AllSeen, requestVars
  <1>4. DOMAIN none = {} /\ none \in [{} -> FutureStates]
    OBVIOUS
  <1>. HIDE DEF none
  <1>5. Outcome(f) \in Results
    BY <1>2 DEF Outcome, Results
  <1>6. FutureTypeOK' /\ futures'[f] = none /\ \A g \in Files : g # f => futures'[g] = futures[g]
    <2>1. /\ futures' = [g \in Files |-> futures'[g]] /\ futures'[f] = none
          /\ \A g \in Files : g # f => futures'[g] = futures[g]
      BY <1>2, <1>3 DEF FutureTypeOK
    <2>2. \A g \in Files : /\ futures'[g] \in [DOMAIN futures'[g] -> FutureStates]
                           /\ DOMAIN futures'[g] \in {{}, WindowRanges(object[g].size)}
      BY <1>2, <1>4, <2>1 DEF FutureTypeOK
    <2>. QED BY <1>3, <2>1, <2>2 DEF FutureTypeOK
  <1>7. /\ result' \in [Files -> Results] /\ cancelled' \in [Files -> BOOLEAN]
        /\ found' \in [Files -> BOOLEAN] /\ failure' \in [Files -> {None, "failed", "interrupted"}]
        /\ result'[f] = Outcome(f) /\ cancelled'[f] = FALSE
        /\ found'[f] = FALSE /\ failure'[f] = None
    BY <1>2, <1>3, <1>5
  <1>8. WindowTypeOK' /\ SlotsAccounted'
    BY <1>1, <1>3, <1>6, <1>7, Types, TypesNext, SlotsSame
  <1>9. \A w \in Workers : ~Busy(f, w) /\ ~Busy(f, w)'
    BY <1>1, <1>3, NoWorkers DEF Busy
  <1>10. ASSUME Outcome(f) = "clean", ~object[f].touched, object[f].malware # None
         PROVE  FALSE
    <2>1. object[f].size \in Nat /\ object[f].malware \in Places(object[f].size)
      BY <1>2 DEF Objects
    <2>2. PICK r \in WindowRanges(object[f].size) : Holds(r, object[f].malware)
      BY <1>10, <2>1, WindowsCover
    <2>3. r \in DOMAIN futures[f]
      BY <1>2, <1>3, <2>2 DEF FutureTypeOK
    <2>4. ~found[f] /\ futures[f][r] = "counted"
      BY <1>2, <1>10, <2>3 DEF Outcome, WindowAssumption
    <2>. QED BY <1>1, <1>10, <2>2, <2>3, <2>4 DEF FileInv, ClearedHold, Suspect
  <1>11. ASSUME Outcome(f) = "interrupted"
         PROVE  stopping[f]
    <2>1. ~found[f]
      BY <1>11 DEF Outcome
    <2>2. CASE failure[f] # None
      BY <1>1, <1>11, <2>1, <2>2 DEF Outcome, FileInv, Interruptions
    <2>3. CASE failure[f] = None
      <3>1. PICK r \in DOMAIN futures[f] : futures[f][r] # "counted"
        BY <1>11, <2>1, <2>3 DEF Outcome
      <3>2. cancelled[f]
        BY <1>1, <1>3, <3>1 DEF FileInv, Reasons
      <3>. QED BY <1>1, <1>3, <2>1, <2>3, <3>2 DEF FileInv, Reasons
    <2>. QED BY <2>2, <2>3
  <1>12. FileInv(f)'
    <2>1. Owned(f)' /\ RunningHold(f)' /\ Stopped(f)'
      BY <1>9 DEF Owned, RunningHold, Stopped, Busy
    <2>2. ClearedHold(f)' /\ Interruptions(f)' /\ Reasons(f)'
      BY <1>4, <1>6, <1>7 DEF ClearedHold, Interruptions, Reasons, WindowAssumption
    <2>3. Ended(f)'
      BY <1>3, <1>7, <1>10, <1>11 DEF Ended
    <2>. QED BY <2>1, <2>2, <2>3 DEF FileInv
  <1>13. \A g \in Files : g # f => SameFile(g)
    BY <1>2, <1>3, <1>6 DEF SameFile
  <1>. QED BY <1>8, <1>12, <1>13, OneFile

(***************************************************************************)
(* Others.                                                                 *)
(***************************************************************************)
\* Content changes while no window of it is scanned, or is touched.
LEMMA ObjectKeeps ==
  ASSUME WindowAssumption, WindowInv, NEW f \in Files, NEW o \in Objects,
         object' = [object EXCEPT ![f] = o],
         NEW ending \in {None, result[f]}, result' = [result EXCEPT ![f] = ending],
         UNCHANGED <<stopping, requestVars, futures, cancelled, found, failure>>,
         \/ DOMAIN futures[f] = {} /\ ending = None
         \/ o.touched /\ o.size = object[f].size
  PROVE  WindowInv'
  <1>1. WindowTypeOK /\ SlotsAccounted /\ FileInv(f)
    BY DEF WindowInv
  <1>2. /\ FutureTypeOK /\ result \in [Files -> Results] /\ object \in [Files -> Objects]
        /\ None \in Results /\ None \notin {"clean", "interrupted"}
    BY <1>1, Types DEF Results, WindowAssumption
  <1>3. /\ object' \in [Files -> Objects] /\ object'[f] = o
        /\ \A g \in Files : g # f => object'[g] = object[g]
        /\ result' \in [Files -> Results] /\ result'[f] \in {None, result[f]} /\ result'[f] = ending
        /\ \A g \in Files : g # f => result'[g] = result[g]
    BY <1>2
  <1>4. FutureTypeOK'
    <2>1. \A g \in Files : /\ futures[g] \in [DOMAIN futures[g] -> FutureStates]
                           /\ DOMAIN futures[g] \in {{}, WindowRanges(object'[g].size)}
      BY <1>2, <1>3 DEF FutureTypeOK
    <2>. QED BY <1>2, <2>1 DEF FutureTypeOK
  <1>5. WindowTypeOK' /\ SlotsAccounted'
    BY <1>1, <1>3, <1>4, Types, TypesNext, SlotsSame DEF requestVars
  <1>6. FileInv(f)'
    <2>1. Owned(f)' /\ Stopped(f)' /\ Interruptions(f)' /\ Reasons(f)'
      BY <1>1 DEF FileInv, Owned, Busy, Stopped, Interruptions, Reasons, requestVars
    <2>2. ClearedHold(f)'
      BY <1>3 DEF ClearedHold, Suspect
    <2>3. RunningHold(f)'
      <3>1. CASE DOMAIN futures[f] = {}
        <4>1. \A w \in Workers : ~Busy(f, w)'
          BY <1>1, <3>1, NoWorkers DEF Busy, requestVars
        <4>. QED BY <4>1 DEF RunningHold
      <3>2. CASE o.touched
        BY <1>3, <3>2 DEF RunningHold, Suspect
      <3>. QED BY <3>1, <3>2
    <2>4. Ended(f)'
      BY <1>1, <1>2, <1>3 DEF FileInv, Ended
    <2>. QED BY <2>1, <2>2, <2>3, <2>4 DEF FileInv
  <1>7. \A g \in Files : g # f => SameFile(g)
    BY <1>3 DEF SameFile, requestVars
  <1>. QED BY <1>5, <1>6, <1>7, OneFile

LEMMA TouchKeeps ==
  ASSUME WindowAssumption, WindowInv, NEW f \in Files,
         NEW malware \in Places(object[f].size), Touch(f, malware)
  PROVE  WindowInv'
  <1>. DEFINE o == [object[f] EXCEPT !.malware = malware, !.touched = TRUE]
  <1>1. object[f] \in Objects /\ result \in [Files -> Results]
    BY Types DEF WindowInv
  <1>2. object[f] \in [size : Nat, malware : Malware, touched : BOOLEAN]
    BY <1>1 DEF Objects
  <1>3. malware \in Malware
    BY DEF Places, Malware
  <1>4. o \in Objects /\ o.touched /\ o.size = object[f].size
    BY <1>2, <1>3 DEF Objects
  <1>5. result' = [result EXCEPT ![f] = result[f]]
    BY <1>1 DEF Touch, poolVars
  <1>. QED BY <1>4, <1>5, ObjectKeeps DEF Touch, poolVars

LEMMA StopKeeps ==
  ASSUME WindowAssumption, WindowInv, NEW f \in Files, Stop(f)
  PROVE  WindowInv'
  <1>1. WindowTypeOK /\ SlotsAccounted /\ FileInv(f)
    BY DEF WindowInv
  <1>2. /\ stopping' \in [Files -> BOOLEAN] /\ stopping'[f] = TRUE
        /\ \A g \in Files : g # f => stopping'[g] = stopping[g]
        /\ UNCHANGED <<object, free, thread, futures, cancelled, found, failure, result>>
    BY <1>1, Types DEF Stop, requestVars, poolVars
  <1>3. WindowTypeOK' /\ SlotsAccounted'
    <2>1. FutureTypeOK'
      BY <1>1, <1>2, Types DEF FutureTypeOK
    <2>. QED BY <1>1, <1>2, <2>1, Types, TypesNext, SlotsSame
  <1>4. FileInv(f)'
    <2>1. Owned(f)' /\ ClearedHold(f)' /\ RunningHold(f)'
      BY <1>1, <1>2 DEF FileInv, Owned, Busy, ClearedHold, RunningHold, Suspect, Holds, End
    <2>2. Stopped(f)' /\ Interruptions(f)' /\ Reasons(f)' /\ Ended(f)'
      BY <1>1, <1>2 DEF FileInv, Stopped, Interruptions, Reasons, Ended
    <2>. QED BY <2>1, <2>2 DEF FileInv
  <1>5. \A g \in Files : g # f => SameFile(g)
    BY <1>2 DEF SameFile
  <1>. QED BY <1>3, <1>4, <1>5, OneFile

\* No slot is held and no window scanned: at the start, and when the controller has died.
Resting ==
  /\ object \in [Files -> Objects] /\ stopping \in [Files -> BOOLEAN]
  /\ free = Slots
  /\ thread = [f \in Files |-> [t \in Threads |-> Idle]]
  /\ futures = [f \in Files |-> [w \in {} |-> "queued"]]
  /\ cancelled = [f \in Files |-> FALSE]
  /\ found = [f \in Files |-> FALSE]
  /\ failure = [f \in Files |-> None]
  /\ result = [f \in Files |-> None]

LEMMA RestingInv ==
  ASSUME WindowAssumption, Resting
  PROVE  WindowInv
  <1>. USE DEF Resting
  <1>1. thread \in [Files -> [Threads -> ThreadState]] /\ free \in 0 .. Slots
    BY IdleFacts DEF WindowAssumption
  <1>2. FutureTypeOK
    BY DEF FutureTypeOK
  <1>3. /\ cancelled \in [Files -> BOOLEAN] /\ found \in [Files -> BOOLEAN]
        /\ failure \in [Files -> {None, "failed", "interrupted"}] /\ result \in [Files -> Results]
    BY DEF Results
  <1>4. WindowTypeOK
    BY <1>1, <1>2, <1>3, Types
  <1>5. SlotsAccounted
    <2>1. {p \in Files \X Threads : thread[p[1]][p[2]].phase = "send"} = {}
      BY IdleFacts
    <2>2. Slots + Cardinality({}) = Slots
      BY FS_EmptySet DEF WindowAssumption
    <2>. QED BY <2>1, <2>2 DEF SlotsAccounted
  <1>6. ASSUME NEW f \in Files
        PROVE  FileInv(f)
    <2>1. \A w \in Workers : ~Busy(f, w)
      BY IdleFacts DEF Busy, Threads
    <2>2. Owned(f) /\ RunningHold(f) /\ Stopped(f)
      BY <2>1 DEF Owned, RunningHold, Stopped, Busy
    <2>3. ClearedHold(f) /\ Interruptions(f) /\ Reasons(f) /\ Ended(f)
      BY DEF ClearedHold, Interruptions, Reasons, Ended, WindowAssumption
    <2>. QED BY <2>2, <2>3 DEF FileInv
  <1>. QED BY <1>4, <1>5, <1>6 DEF WindowInv

LEMMA InitInv ==
  ASSUME WindowAssumption, WindowInit
  PROVE  WindowInv
  <1>1. [size |-> 0, malware |-> None, touched |-> FALSE] \in Objects
    BY DEF Objects, Malware, Places
  <1>2. Resting
    BY <1>1 DEF Resting, WindowInit
  <1>. QED BY <1>2, RestingInv

LEMMA DieKeeps ==
  ASSUME WindowAssumption, WindowInv, Die
  PROVE  WindowInv'
  <1>1. Resting'
    BY Types DEF Resting, Die, WindowInv
  <1>2. (WindowAssumption /\ Resting => WindowInv)'
    BY RestingInv, PTL
  <1>. QED BY <1>1, <1>2

(***************************************************************************)
(* The steps of a request.                                                 *)
(***************************************************************************)
LEMMA AcquireKeeps ==
  ASSUME WindowAssumption, WindowInv, NEW f \in Files, NEW t \in Threads, Acquire(f, t)
  PROVE  WindowInv'
  <1>. DEFINE reply == thread[f][t].reply
  <1>1. thread \in [Files -> [Threads -> ThreadState]] /\ free \in 0 .. Slots /\ Slots \in Nat
    BY Types DEF WindowInv, WindowAssumption
  <1>2. reply \in {None} \cup Replies
    BY <1>1 DEF ThreadState
  <1>3. [thread[f][t] EXCEPT !.phase = "send"] = [thread[f][t] EXCEPT !.phase = "send", !.reply = reply]
    BY <1>1 DEF ThreadState
  <1>4. thread' = [thread EXCEPT ![f][t] = [@ EXCEPT !.phase = "send", !.reply = reply]]
    BY <1>3 DEF Acquire
  <1>5. free' = free - 1 /\ free' \in Nat
    BY <1>1 DEF Acquire
  <1>. QED BY <1>2, <1>4, <1>5, RequestKeeps DEF Acquire

\* A reply, also to the main thread, whose replies the window scan does not judge.
LEMMA AnswerKeeps ==
  ASSUME WindowAssumption, WindowInv, NEW f \in Files, NEW t \in Threads,
         NEW reply \in Replies, Answer(f, t, reply),
         reply = "stopped" => cancelled[f] \/ stopping[f] \/ t \notin Workers,
         t \in Workers /\ reply = "ok" /\ Suspect(f) =>
           ~Holds(Head(thread[f][t].todo), object[f].malware)
  PROVE  WindowInv'
  <1>1. free + 1 \in Nat
    BY Types DEF WindowInv, WindowAssumption
  <1>2. thread' = [thread EXCEPT ![f][t] = [@ EXCEPT !.phase = "judge", !.reply = reply]]
    BY DEF Answer
  <1>. QED BY <1>1, <1>2, RequestKeeps DEF Answer

LEMMA GiveUpKeeps ==
  ASSUME WindowAssumption, WindowInv, NEW f \in Files, NEW t \in Threads, GiveUp(f, t)
  PROVE  WindowInv'
  <1>1. PICK reply \in (IF cancelled[f] \/ stopping[f] THEN {"stopped"} ELSE {}) \cup {"broken"} :
          thread' = [thread EXCEPT ![f][t].phase = "judge", ![f][t].reply = reply]
    BY DEF GiveUp
  <1>2. thread' = [thread EXCEPT ![f][t] = [@ EXCEPT !.phase = "judge", !.reply = reply]]
    BY <1>1
  <1>3. reply \in Replies /\ reply # "ok" /\ (reply = "stopped" => cancelled[f] \/ stopping[f])
    BY <1>1 DEF Replies
  <1>4. free \in Nat
    BY Types DEF WindowInv, WindowAssumption
  <1>. QED BY <1>1, <1>2, <1>3, <1>4, RequestKeeps DEF GiveUp

LEMMA WorkerAnswerKeeps ==
  ASSUME WindowAssumption, WindowInv, NEW f \in Files, NEW w \in Workers, WorkerAnswer(f, w)
  PROVE  WindowInv'
  <1>1. PICK reply \in Answers(Current(f, w), object[f].malware) : Answer(f, w, reply)
    BY DEF WorkerAnswer
  <1>2. reply \in Replies /\ reply # "stopped"
    BY <1>1 DEF Answers, Replies
  <1>3. reply = "ok" => ~Holds(Head(thread[f][w].todo), object[f].malware)
    BY <1>1 DEF Answers, Current
  <1>. QED BY <1>1, <1>2, <1>3, AnswerKeeps DEF Threads

LEMMA InterruptedKeeps ==
  ASSUME WindowAssumption, WindowInv, NEW f \in Files, NEW t \in Threads, Interrupted(f, t)
  PROVE  WindowInv'
  BY AnswerKeeps DEF Interrupted, Replies

(***************************************************************************)
(* The theorems.                                                           *)
(***************************************************************************)
LEMMA StepKeeps ==
  ASSUME WindowAssumption, WindowInv, [WindowNext]_windowVars
  PROVE  WindowInv'
  <1>1. CASE UNCHANGED windowVars
    BY <1>1 DEF windowVars, requestVars, poolVars, WindowInv, WindowTypeOK, SlotsAccounted,
                FileInv, Owned, Busy, ClearedHold, RunningHold, Suspect, Holds, End, Stopped,
                Interruptions, Reasons, Ended
  <1>2. CASE Die
    BY <1>2, DieKeeps
  <1>3. ASSUME NEW f \in Files, NEW w \in Workers, WorkerStep(f, w)
        PROVE  WindowInv'
    BY <1>3, TakeKeeps, JudgeKeeps, WorkerAnswerKeeps DEF WorkerStep
  <1>4. ASSUME NEW f \in Files, NEW t \in Threads, RequestStep(f, t)
        PROVE  WindowInv'
    BY <1>4, AcquireKeeps, InterruptedKeeps, GiveUpKeeps DEF RequestStep
  <1>5. ASSUME NEW f \in Files, NEW reply \in Replies, Answer(f, Main, reply)
        PROVE  WindowInv'
    BY <1>5, AnswerKeeps DEF Threads, WindowAssumption
  <1>6. ASSUME NEW f \in Files, Submit(f) \/ Collect(f) \/ Conclude(f) \/ Request(f) \/ Return(f)
        PROVE  WindowInv'
    BY <1>6, SubmitKeeps, CollectKeeps, ConcludeKeeps, RequestStarts, ReturnKeeps
  <1>7. ASSUME NEW f \in Files, NEW o \in Objects, Load(f, o)
        PROVE  WindowInv'
    BY <1>7, ObjectKeeps DEF Load
  <1>8. ASSUME NEW f \in Files, NEW malware \in Places(object[f].size), Touch(f, malware)
        PROVE  WindowInv'
    BY <1>8, TouchKeeps
  <1>9. ASSUME NEW f \in Files, Stop(f)
        PROVE  WindowInv'
    BY <1>9, StopKeeps
  <1>. QED BY <1>1, <1>2, <1>3, <1>4, <1>5, <1>6, <1>7, <1>8, <1>9 DEF WindowNext

\* Between any two steps of any thread, what was answered, counted and still has
\* to be sent together cover the file (_scan_large_media_range, as_completed).
THEOREM WindowInvariant == WindowSpec => []WindowInv
  <1>1. WindowInit => WindowInv
    BY WindowAssumption, InitInv
  <1>2. WindowInv /\ [WindowNext]_windowVars => WindowInv'
    BY WindowAssumption, StepKeeps
  <1>. QED BY <1>1, <1>2, PTL DEF WindowSpec

\* Every variable keeps its type; a window always lies within the file.
THEOREM WindowTypeCorrect == WindowSpec => []WindowTypeOK
  BY WindowInvariant, PTL DEF WindowInv

\* A large file whose windows are all clean holds no malware of up to one byte
\* more than the overlap: for every size and place, every window, overlap and
\* minimum the configuration admits, any number of workers, and however ClamD
\* makes them split (_scan_large_media_descriptor).
THEOREM CleanMeansCovered == WindowSpec => []WindowsMissNothing
  <1>1. WindowInv => WindowsMissNothing
    BY DEF WindowInv, FileInv, Ended, WindowsMissNothing
  <1>. QED BY <1>1, WindowInvariant, PTL

\* No request keeps or loses a slot, and never more than the limit are sent
\* (_scan_descriptor_window).
THEOREM SlotsAreKept == WindowSpec => []SlotsAccounted
  BY WindowInvariant, PTL DEF WindowInv

\* The pool's own cancellation never shows as an interruption of the scan.
THEOREM CancellationExplained == WindowSpec => []CancellationIsExplained
  <1>1. WindowInv => CancellationIsExplained
    BY DEF WindowInv, FileInv, Ended, CancellationIsExplained
  <1>. QED BY <1>1, WindowInvariant, PTL

-----------------------------------------------------------------------------
(***************************************************************************)
(* Part II: FileScan.                                                      *)
(***************************************************************************)

(***************************************************************************)
(* Types.                                                                  *)
(***************************************************************************)
Stages == {"idle", "new", "native", "probe", "extract", "attachment", "windows", "unpack",
           "confirm", "close", "verify", "done", "dead"}
Outers == [object : Objects, form : Forms]

MainTypeOK ==
  /\ stage \in [Files -> Stages]
  /\ form \in [Files -> Forms]
  /\ outer \in [Files -> Outers \cup {None}]
  /\ passed \in [Files -> BOOLEAN]
  /\ next \in [Files -> Nat \ {0}]
  /\ outcome \in [Files -> Results]

Walks == [state : {"none", "walk", "wait", "done", "died"}, at : Nat \ {0},
          expanded : Nat, scanned : Nat]

Messages == ({"member", "done"} \X Nat) \cup {Nil}

ArchiveTypeOK ==
  /\ walk \in [Files -> Walks]
  /\ listed \in [Files -> Seq(Entries)]
  /\ message \in [Files -> Messages]
  /\ ack \in [Files -> BOOLEAN]
  /\ scanned \in [Files -> Nat]
  /\ manifest \in [Files -> Nat \cup {Nil}]
  /\ workspace \in [Files -> BOOLEAN]
  /\ locked \in [Files -> BOOLEAN]
  /\ clearing \in BOOLEAN

(***************************************************************************)
(* The inductive invariant.                                                *)
(***************************************************************************)
Scanning == {"new", "native", "probe", "extract", "attachment", "windows", "verify"}
Alive(f) == stage[f] # "dead"

\* What the scan was asked for.
TopForm(f) == IF Inside(f) THEN outer[f].form ELSE form[f]
TopObject(f) == IF Inside(f) THEN outer[f].object ELSE object[f]

FormOK(fm) ==
  /\ fm.kind # "matroska" => fm.attachments = << >>
  /\ fm.kind # "archive" => fm.entries = << >>
  /\ \A i \in DOMAIN fm.entries : fm.entries[i].infected => fm.entries[i].kind = "leaf"

\* What is scanned is of the shape of an input, or a member of an archive.
Shaped(f) ==
  /\ FormOK(form[f]) /\ FormOK(TopForm(f))
  /\ (TopForm(f).kind = "archive" /\ ~TopObject(f).touched) => TopObject(f).malware = None
  /\ Inside(f) => ~object[f].touched /\ form[f] = MemberForm

\* A helper is there from the start of an archive to its end, and only then.
Placed(f) ==
  /\ walk[f].state = "none" =>
       ~workspace[f] /\ ~locked[f] /\ message[f] = Nil /\ ~ack[f]
  /\ Alive(f) =>
       /\ Inside(f) => stage[f] \in Scanning
       /\ (stage[f] \in Scanning \cup {"idle", "done"} /\ ~Inside(f)) => walk[f].state = "none"
       /\ (stage[f] \in {"unpack", "confirm", "close"} \/ Inside(f)) => TopForm(f).kind = "archive"
       /\ (Inside(f) \/ stage[f] = "confirm") =>
            walk[f].state \in {"wait", "died"} /\ message[f] = Nil /\ ~ack[f]

\* What the helper has passed was acknowledged, and what was acknowledged was
\* scanned.
Acknowledged(f) ==
  (Alive(f) /\ walk[f].state # "none") =>
    /\ listed[f] = TopForm(f).entries
    /\ \A i \in DOMAIN listed[f] : i < walk[f].at => ~listed[f][i].infected
    /\ walk[f].state = "done" => walk[f].at > Len(listed[f])
    /\ (message[f] # Nil /\ message[f][1] = "member") =>
         /\ walk[f].state \in {"wait", "died"} /\ message[f][2] = walk[f].at /\ ~ack[f]
         /\ walk[f].at \in DOMAIN listed[f]
    /\ ack[f] => /\ walk[f].state \in {"wait", "died"} /\ message[f] = Nil
                 /\ stage[f] \in {"unpack", "close"}
    /\ (ack[f] \/ stage[f] = "confirm") =>
         walk[f].at \in DOMAIN listed[f] /\ ~listed[f][walk[f].at].infected
    /\ Inside(f) => /\ walk[f].at \in DOMAIN listed[f]
                    /\ object[f] = Member(listed[f][walk[f].at])

Bare(f) == object[f].malware = None
NoAttachment(f) == \A i \in DOMAIN form[f].attachments : ~form[f].attachments[i]
NoEntry(f) == \A i \in DOMAIN form[f].entries : ~form[f].entries[i].infected
Said(f, reply) == thread[f][Main].phase = "judge" /\ thread[f][Main].reply = reply

\* What the answers so far say of an untouched file, and what a clean outcome
\* says.
Justified(f) ==
  /\ stage[f] = "native" /\ Said(f, "ok") /\ ~object[f].touched => Bare(f) /\ NoEntry(f)
  /\ stage[f] = "native" => ~passed[f]
  /\ stage[f] \in {"native", "probe"} => next[f] = 1
  /\ stage[f] \in {"probe", "extract", "attachment"} /\ passed[f] /\ ~object[f].touched => Bare(f)
  /\ stage[f] \in {"extract", "attachment", "windows"} =>
       /\ Approved(f)
       /\ \A i \in DOMAIN form[f].attachments : i < next[f] => ~form[f].attachments[i]
  /\ stage[f] = "attachment" =>
       /\ next[f] \in DOMAIN form[f].attachments
       /\ Said(f, "ok") => ~form[f].attachments[next[f]]
  /\ stage[f] = "windows" => AttachmentsAreDone(f)
  /\ stage[f] \in {"close", "verify", "done"} /\ outcome[f] = "clean" /\ ~object[f].touched =>
       Bare(f) /\ NoAttachment(f) /\ NoEntry(f)
  /\ stage[f] = "done" /\ outcome[f] = "clean" => ~object[f].touched

ScanInv(f) == Shaped(f) /\ Placed(f) /\ Acknowledged(f) /\ Justified(f)

FileScanInv ==
  /\ WindowInv /\ MainTypeOK /\ ArchiveTypeOK
  /\ WorkspacesAreKept
  /\ \A f \in Files : ScanInv(f)

(***************************************************************************)
(* Types are kept.                                                         *)
(***************************************************************************)
LEMMA MemberFits ==
  ASSUME WindowAssumption, NEW e \in Entries
  PROVE  Member(e) \in Objects /\ MemberForm \in Forms
  <1>1. Overlap \in Nat
    BY DEF WindowAssumption
  <1>2. [from |-> 0, to |-> 1] \in Places(1)
    BY <1>1 DEF Places
  <1>3. [from |-> 0, to |-> 1] \in Malware /\ None \in Places(1) /\ None \in Malware
    BY DEF Malware, Places
  <1>4. Member(e).malware \in Places(1) \cap Malware /\ Member(e).size = 1
    BY <1>2, <1>3 DEF Member
  <1>5. Member(e) \in [size : Nat, malware : Malware, touched : BOOLEAN]
    BY <1>4 DEF Member
  <1>6. MemberForm \in Forms
    BY EmptySeq DEF MemberForm, Forms, Kinds
  <1>. QED BY <1>4, <1>5, <1>6 DEF Objects

\* The values that the steps of the main thread write.
LEMMA MainValues ==
  ASSUME WindowAssumption, FileAssumption, WindowTypeOK, NEW f \in Files
  PROVE  /\ \A input \in Inputs[f] : input.object \in Objects /\ input.form \in Forms
         /\ Results = {None, "clean", "infected", "failed", "interrupted"}
         /\ result[f] \in Results /\ object[f] \in Objects
  BY DEF FileAssumption, InputOK, WindowTypeOK, Results

LEMMA MainTypes ==
  ASSUME WindowAssumption, FileAssumption, WindowTypeOK, ArchiveTypeOK, MainTypeOK,
         NEW f \in Files, MainStep(f)
  PROVE  MainTypeOK'
  <1>. USE DEF MainTypeOK
  <1>1. CASE Open(f)
    BY <1>1, MainValues DEF Open, Goto, Stages
  <1>2. CASE Route(f)
    BY <1>2, MainValues DEF Route, Goto, Stages, Leave
  <1>3. CASE JudgeNative(f)
    <2>1. Raised(f) \in Results
      BY DEF Raised, Results
    <2>. QED BY <1>3, <2>1, MainValues DEF JudgeNative, Goto, Stages, Leave
  <1>4. CASE JudgeAttachment(f)
    <2>1. Raised(f) \in Results
      BY DEF Raised, Results
    <2>. QED BY <1>4, <2>1, MainValues DEF JudgeAttachment, Goto, Stages, Leave
  <1>5. CASE Probe(f) \/ ExtractAttachment(f)
    BY <1>5, MainValues DEF Probe, ExtractAttachment, ToolFails, Goto, Stages, Leave
  <1>6. CASE SubmitWindows(f) \/ WindowsEnd(f)
    BY <1>6, MainValues DEF SubmitWindows, WindowsEnd, Goto, Stages, Leave
  <1>7. CASE Unpack(f) \/ CheckActive(f) \/ HelperIsGone(f) \/ Confirm(f) \/ Close(f)
    BY <1>7, MainValues DEF Unpack, CheckActive, HelperIsGone, Confirm, Close, Goto, Stages, Leave, Break
  <1>8. CASE InspectMember(f)
    <2>1. [object |-> object[f], form |-> form[f]] \in Outers
      BY MainValues DEF Outers
    <2>2. MemberForm \in Forms
      BY EmptySeq DEF MemberForm, Forms, Kinds
    <2>. QED BY <1>8, <2>1, <2>2, MainValues DEF InspectMember, Goto, Stages, Break
  <1>9. CASE Verify(f)
    <2>1. Verified(f) \in Results
      BY MainValues DEF Verified
    <2>2. Inside(f) => outer[f].form \in Forms
      BY DEF Inside, Outers
    <2>. QED BY <1>9, <2>1, <2>2, MainValues DEF Verify, Goto, Stages
  <1>10. CASE UNCHANGED mainVars
    BY <1>10 DEF mainVars
  <1>. QED BY <1>1, <1>2, <1>3, <1>4, <1>5, <1>6, <1>7, <1>8, <1>9, <1>10
           DEF MainStep, NativeAnswer, AttachmentAnswer, ReadManifest

LEMMA WalkTypes ==
  ASSUME ArchiveTypeOK, NEW f \in Files
  PROVE  /\ walk[f] \in Walks /\ walk[f].at \in Nat \ {0}
         /\ walk[f].expanded \in Nat /\ walk[f].scanned \in Nat
         /\ NoHelper \in Walks /\ [NoHelper EXCEPT !.state = "walk"] \in Walks
         /\ \A s \in {"walk", "wait", "done", "died"} : [walk EXCEPT ![f].state = s] \in [Files -> Walks]
  <1>1. walk[f] \in Walks /\ walk \in [Files -> Walks]
    BY DEF ArchiveTypeOK
  <1>. QED BY <1>1 DEF Walks, NoHelper

LEMMA ArchiveTypes ==
  ASSUME ArchiveAssumption, FileAssumption, MainTypeOK, ArchiveTypeOK, NEW f \in Files,
         \/ HelperStep(f) \/ HelperDies(f)
         \/ StartHelper(f, form[f].entries) \/ ReadMember(f) \/ Acknowledge(f) \/ ReadDone(f)
         \/ CloseHelper(f)
  PROVE  ArchiveTypeOK'
  <1>0. /\ walk[f].at \in Nat \ {0} /\ walk[f].expanded \in Nat /\ walk[f].scanned \in Nat
        /\ Nil \in Messages /\ \A n \in Nat : <<"member", n>> \in Messages /\ <<"done", n>> \in Messages
    BY WalkTypes DEF Messages
  <1>w. walk \in [Files -> Walks] /\ walk[f] \in Walks
    BY DEF ArchiveTypeOK
  <1>n. \A n \in Nat : n + 1 \in Nat \ {0}
    OBVIOUS
  <1>1. CASE Dies(f)
    BY <1>1, WalkTypes DEF Dies, ArchiveTypeOK, places
  <1>2. CASE Extract(f)
    <2>1. CASE SkipDirectory(f) \/ Descend(f)
      <3>1. walk' \in [Files -> Walks]
        BY <2>1, <1>0, <1>w, <1>n DEF SkipDirectory, Descend, Walks
      <3>. QED BY <2>1, <3>1 DEF SkipDirectory, Descend, ArchiveTypeOK, places
    <2>2. CASE Present(f)
      <3>1. walk' \in [Files -> Walks]
        BY <2>2, <1>0, <1>w, <1>n DEF Present, Walks
      <3>. QED BY <2>2, <3>1, <1>0 DEF Present, ArchiveTypeOK, places
    <2>. QED BY <1>1, <1>2, <2>1, <2>2 DEF Extract
  <1>3. CASE ReadAck(f)
    <2>1. CASE ~Dies(f)
      <3>1. walk' \in [Files -> Walks]
        BY <1>3, <2>1, <1>0, <1>w, <1>n DEF ReadAck, Walks
      <3>. QED BY <1>3, <2>1, <3>1 DEF ReadAck, ArchiveTypeOK, places
    <2>. QED BY <1>1, <2>1
  <1>4. CASE EndOfWalk(f)
    <2>1. CASE ~Dies(f)
      <3>1. walk' \in [Files -> Walks]
        BY <1>4, <2>1, <1>w DEF EndOfWalk, Walks
      <3>2. message' \in [Files -> Messages]
        BY <1>4, <2>1, <1>0 DEF EndOfWalk, ArchiveTypeOK
      <3>. QED BY <1>4, <2>1, <3>1, <3>2 DEF EndOfWalk, ArchiveTypeOK, places
    <2>. QED BY <1>1, <2>1
  <1>5. CASE StartHelper(f, form[f].entries)
    <2>1. form[f].entries \in Seq(Entries)
      BY DEF MainTypeOK, Forms
    <2>. QED BY <1>5, <2>1, WalkTypes DEF StartHelper, ArchiveTypeOK
  <1>6. CASE ReadMember(f) \/ Acknowledge(f)
    <2>1. scanned[f] + 1 \in Nat
      BY DEF ArchiveTypeOK
    <2>. QED BY <1>0, <1>6, <2>1 DEF ReadMember, Acknowledge, ArchiveTypeOK, places
  <1>7. CASE ReadDone(f)
    <2>1. message[f][2] \in Nat
      BY <1>7 DEF ReadDone, ArchiveTypeOK, Messages
    <2>. QED BY <1>0, <1>7, <2>1 DEF ReadDone, ArchiveTypeOK, places
  <1>8. CASE CloseHelper(f)
    BY <1>0, <1>8, WalkTypes, EmptySeq DEF CloseHelper, ArchiveTypeOK
  <1>. QED BY <1>1, <1>2, <1>3, <1>4, <1>5, <1>6, <1>7, <1>8 DEF HelperStep, HelperDies

LEMMA ScansAreFiles == FileAssumption => Scans = Files
  BY DEF FileAssumption

LEMMA TypesKept ==
  ASSUME WindowAssumption, ArchiveAssumption, FileAssumption,
         WindowTypeOK, ArchiveTypeOK, MainTypeOK, [FileNext]_fileVars
  PROVE  MainTypeOK' /\ ArchiveTypeOK'
  <1>1. CASE UNCHANGED fileVars
    BY <1>1 DEF MainTypeOK, ArchiveTypeOK, fileVars, mainVars, archiveVars, places
  <1>2. ASSUME NEW f \in Files, MainStep(f)
        PROVE  MainTypeOK' /\ ArchiveTypeOK'
    <2>1. MainTypeOK'
      BY <1>2, MainTypes
    <2>2. CASE UNCHANGED archiveVars
      BY <2>1, <2>2 DEF ArchiveTypeOK, archiveVars, places
    <2>3. CASE ~UNCHANGED archiveVars
      BY <1>2, <2>1, <2>3, ArchiveTypes
         DEF MainStep, Open, Route, NativeAnswer, JudgeNative, Probe, ExtractAttachment,
             AttachmentAnswer, JudgeAttachment, SubmitWindows, WindowsEnd, Unpack, InspectMember,
             ReadManifest, HelperIsGone, CheckActive, Confirm, Close, Verify
    <2>. QED BY <2>2, <2>3
  <1>3. ASSUME NEW f \in Files, HelpStep(f) \/ (HelperDies(f) /\ UNCHANGED <<windowVars, mainVars>>)
        PROVE  MainTypeOK' /\ ArchiveTypeOK'
    BY <1>3, ArchiveTypes DEF HelpStep, MainTypeOK, mainVars
  <1>4. ASSUME NEW f \in Files, NEW w \in Workers, WorkStep(f, w)
        PROVE  MainTypeOK' /\ ArchiveTypeOK'
    BY <1>4 DEF WorkStep, MainTypeOK, ArchiveTypeOK, mainVars, archiveVars, places
  <1>5. ASSUME NEW f \in Files, TouchFile(f)
        PROVE  MainTypeOK' /\ ArchiveTypeOK'
    <2>1. CASE Inside(f)
      <3>1. outer[f] \in Outers /\ outer \in [Files -> Outers \cup {None}]
        BY <2>1 DEF Inside, MainTypeOK
      <3>2. [outer[f].object EXCEPT !.touched = TRUE] \in Objects
        BY <3>1 DEF Outers, Objects
      <3>3. [outer[f] EXCEPT !.object = [outer[f].object EXCEPT !.touched = TRUE]] \in Outers
        BY <3>1, <3>2 DEF Outers
      <3>4. outer' = [outer EXCEPT ![f] = [outer[f] EXCEPT !.object = [outer[f].object EXCEPT !.touched = TRUE]]]
        BY <1>5, <2>1 DEF TouchFile
      <3>5. outer' \in [Files -> Outers \cup {None}]
        BY <3>1, <3>3, <3>4
      <3>. QED BY <1>5, <2>1, <3>5 DEF TouchFile, MainTypeOK, ArchiveTypeOK, archiveVars, places
    <2>2. CASE ~Inside(f)
      BY <1>5, <2>2 DEF TouchFile, MainTypeOK, ArchiveTypeOK, archiveVars, places
    <2>. QED BY <2>1, <2>2
  <1>6. ASSUME NEW f \in Files, StopScan(f)
        PROVE  MainTypeOK' /\ ArchiveTypeOK'
    BY <1>6 DEF StopScan, MainTypeOK, ArchiveTypeOK, mainVars, archiveVars, places
  <1>7. CASE Clear
    <2>1. workspace' \in [Files -> BOOLEAN] /\ clearing' \in BOOLEAN
      BY <1>7, ScansAreFiles DEF Clear, StartClearing, EndClearing, ArchiveTypeOK
    <2>. QED BY <1>7, <2>1 DEF Clear, StartClearing, EndClearing, MainTypeOK, ArchiveTypeOK, mainVars
  <1>8. CASE Crash
    <2>1. stage' \in [Files -> Stages]
      BY <1>8 DEF Crash, Stages
    <2>2. /\ locked' \in [Files -> BOOLEAN] /\ ack' \in [Files -> BOOLEAN]
          /\ message' \in [Files -> Messages]
      BY <1>8, ScansAreFiles DEF Crash, Orphan, ArchiveTypeOK, Messages
    <2>. QED BY <1>8, <2>1, <2>2 DEF Crash, Orphan, MainTypeOK, ArchiveTypeOK
  <1>. QED BY <1>1, <1>2, <1>3, <1>4, <1>5, <1>6, <1>7, <1>8 DEF FileNext

(***************************************************************************)
(* A step of a scan is a step of its requests and windows, or none.        *)
(***************************************************************************)
LEMMA MainStepIsWindowStep ==
  ASSUME WindowAssumption, FileAssumption, WindowTypeOK, ArchiveTypeOK, MainTypeOK,
         \A g \in Files : ScanInv(g),
         NEW f \in Files, MainStep(f)
  PROVE  WindowNext \/ UNCHANGED windowVars
  <1>1. Main \in Threads
    BY DEF Threads
  <1>2. CASE Open(f)
    BY <1>2, MainValues DEF Open, WindowNext
  <1>3. CASE Route(f)
    BY <1>3 DEF Route, WindowNext
  <1>4. CASE NativeAnswer(f) \/ AttachmentAnswer(f)
    <2>1. \E reply \in Replies : Answer(f, Main, reply)
      BY <1>4 DEF NativeAnswer, NativeAnswers, AttachmentAnswer, Replies
    <2>. QED BY <2>1 DEF WindowNext
  <1>5. CASE JudgeNative(f) \/ JudgeAttachment(f)
    BY <1>5 DEF JudgeNative, JudgeAttachment, WindowNext
  <1>6. CASE ExtractAttachment(f) \/ SubmitWindows(f)
    BY <1>6 DEF ExtractAttachment, SubmitWindows, WindowNext
  <1>7. CASE InspectMember(f)
    <2>1. CASE UNCHANGED windowVars
      BY <2>1
    <2>2. CASE ~UNCHANGED windowVars
      <3>1. Load(f, Member(listed[f][message[f][2]]))
        BY <1>7, <2>2 DEF InspectMember
      <3>2. message[f] # Nil /\ message[f][1] = "member" /\ stage[f] = "unpack"
        BY <1>7 DEF InspectMember, ReadMember, At
      <3>3. message[f][2] \in DOMAIN listed[f] /\ listed[f] \in Seq(Entries)
        BY <1>7, <3>2 DEF InspectMember, ScanInv, Acknowledged, Alive, ArchiveTypeOK
      <3>4. listed[f][message[f][2]] \in Entries
        BY <3>3
      <3>. QED BY <3>1, <3>4, MemberFits DEF WindowNext
    <2>. QED BY <2>1, <2>2
  <1>8. CASE Verify(f)
    <2>1. CASE Inside(f)
      <3>1. outer[f].object \in Objects
        BY <2>1 DEF Inside, MainTypeOK, Outers
      <3>. QED BY <1>8, <2>1, <3>1 DEF Verify, WindowNext
    <2>2. CASE ~Inside(f)
      BY <1>8, <2>2 DEF Verify
    <2>. QED BY <2>1, <2>2
  <1>9. CASE Collect(f) \/ Conclude(f) \/ RequestStep(f, Main)
    BY <1>1, <1>9 DEF WindowNext
  <1>. QED BY <1>2, <1>3, <1>4, <1>5, <1>6, <1>7, <1>8, <1>9
           DEF MainStep, Probe, WindowsEnd, Unpack, ReadManifest, HelperIsGone, CheckActive,
               Confirm, Close

LEMMA StepIsWindowStep ==
  ASSUME WindowAssumption, FileAssumption, WindowTypeOK, ArchiveTypeOK, MainTypeOK,
         \A g \in Files : ScanInv(g),
         [FileNext]_fileVars
  PROVE  [WindowNext]_windowVars
  <1>1. CASE UNCHANGED fileVars
    BY <1>1 DEF fileVars, windowVars, requestVars, poolVars
  <1>2. ASSUME NEW f \in Files, MainStep(f)
        PROVE  [WindowNext]_windowVars
    BY <1>2, MainStepIsWindowStep
  <1>3. ASSUME NEW f \in Files, NEW w \in Workers, WorkStep(f, w)
        PROVE  [WindowNext]_windowVars
    BY <1>3 DEF WorkStep, WindowNext, Threads
  <1>4. ASSUME NEW f \in Files, TouchFile(f)
        PROVE  [WindowNext]_windowVars
    <2>1. CASE Inside(f)
      BY <1>4, <2>1 DEF TouchFile, windowVars
    <2>2. CASE ~Inside(f)
      BY <1>4, <2>2 DEF TouchFile, WindowNext
    <2>. QED BY <2>1, <2>2
  <1>5. ASSUME NEW f \in Files, StopScan(f)
        PROVE  [WindowNext]_windowVars
    BY <1>5 DEF StopScan, WindowNext
  <1>6. CASE Crash
    BY <1>6 DEF Crash, WindowNext
  <1>. QED BY <1>1, <1>2, <1>3, <1>4, <1>5, <1>6 DEF FileNext, HelpStep, Clear

(***************************************************************************)
(* A workspace in use is kept.                                             *)
(***************************************************************************)
LEMMA MainStepOfArchive ==
  ASSUME NEW f \in Files, MainStep(f)
  PROVE  \/ StartHelper(f, form[f].entries) \/ ReadMember(f) \/ Acknowledge(f) \/ ReadDone(f)
         \/ CloseHelper(f) \/ UNCHANGED archiveVars
  BY DEF MainStep, Open, Route, NativeAnswer, JudgeNative, Probe, ExtractAttachment,
         AttachmentAnswer, JudgeAttachment, SubmitWindows, WindowsEnd, Unpack, InspectMember,
         ReadManifest, HelperIsGone, CheckActive, Confirm, Close, Verify

LEMMA KeepsWorkspaces ==
  ASSUME FileAssumption, ArchiveTypeOK, WorkspacesAreKept, [FileNext]_fileVars
  PROVE  WorkspacesAreKept'
  <1>. USE ScansAreFiles DEF WorkspacesAreKept, places
  <1>1. CASE UNCHANGED archiveVars
    BY <1>1 DEF archiveVars
  <1>2. ASSUME NEW f \in Files, MainStep(f)
        PROVE  WorkspacesAreKept'
    BY <1>1, <1>2, MainStepOfArchive
       DEF StartHelper, ReadMember, Acknowledge, ReadDone, CloseHelper, ArchiveTypeOK
  <1>3. ASSUME NEW f \in Files, HelperStep(f) \/ HelperDies(f)
        PROVE  WorkspacesAreKept'
    BY <1>3 DEF HelperStep, HelperDies, Dies, Extract, SkipDirectory, Descend, Present, ReadAck, EndOfWalk
  <1>4. CASE StartClearing \/ EndClearing
    BY <1>4 DEF StartClearing, EndClearing
  <1>5. CASE Crash
    BY <1>5 DEF Crash, Orphan, ArchiveTypeOK
  <1>. QED BY <1>1, <1>2, <1>3, <1>4, <1>5
           DEF FileNext, fileVars, HelpStep, WorkStep, Clear, TouchFile, StopScan

(***************************************************************************)
(* What a step leaves alone.                                               *)
(***************************************************************************)
Typed == WindowTypeOK /\ MainTypeOK /\ ArchiveTypeOK

\* What the main thread of a file sees of its window scan.
SameSight(f) == object'[f] = object[f] /\ thread'[f][Main] = thread[f][Main]
SameMain(f) ==
  /\ stage'[f] = stage[f] /\ form'[f] = form[f] /\ outer'[f] = outer[f]
  /\ passed'[f] = passed[f] /\ next'[f] = next[f] /\ outcome'[f] = outcome[f]
SameArchive(f) ==
  /\ walk'[f] = walk[f] /\ listed'[f] = listed[f] /\ message'[f] = message[f]
  /\ ack'[f] = ack[f] /\ workspace'[f] = workspace[f] /\ locked'[f] = locked[f]
SameScan(f) == SameSight(f) /\ SameMain(f) /\ SameArchive(f)

LEMMA ScanFrame ==
  ASSUME NEW f \in Files, ScanInv(f), SameScan(f)
  PROVE  ScanInv(f)'
  <1>. USE DEF ScanInv, SameScan, SameSight, SameMain, SameArchive
  <1>1. Shaped(f)'
    BY DEF Shaped, TopForm, TopObject, Inside, FormOK
  <1>2. Placed(f)'
    BY DEF Placed, TopForm, Inside, Alive
  <1>3. Acknowledged(f)'
    BY DEF Acknowledged, TopForm, Inside, Alive
  <1>4. Justified(f)'
    BY DEF Justified, Approved, AttachmentsAreDone, Bare, NoAttachment, NoEntry, Said
  <1>. QED BY <1>1, <1>2, <1>3, <1>4

\* The main thread sees nothing of what is done for another file.
LEMMA WindowOthers ==
  ASSUME Typed, NEW f \in Files, NEW g \in Files, g # f,
         \/ \E o : Load(f, o)
         \/ \E t \in Threads : \E reply : Answer(f, t, reply)
         \/ \E t \in Threads : RequestStep(f, t)
         \/ \E w \in Workers : WorkerStep(f, w)
         \/ \E m \in Places(object[f].size) : Touch(f, m)
         \/ Request(f) \/ Return(f) \/ Submit(f) \/ Collect(f) \/ Conclude(f) \/ Stop(f)
         \/ UNCHANGED windowVars
  PROVE  SameSight(g)
  <1>1. object \in [Files -> Objects] /\ thread \in [Files -> [Threads -> ThreadState]]
    BY Types DEF Typed
  <1>2. ASSUME NEW o, Load(f, o)
        PROVE  SameSight(g)
    BY <1>1, <1>2 DEF Load, SameSight, requestVars
  <1>3. ASSUME NEW t \in Threads, NEW reply, Answer(f, t, reply)
        PROVE  SameSight(g)
    BY <1>1, <1>3 DEF Answer, SameSight
  <1>4. ASSUME NEW t \in Threads, RequestStep(f, t)
        PROVE  SameSight(g)
    BY <1>1, <1>3, <1>4 DEF RequestStep, Acquire, Interrupted, GiveUp, SameSight
  <1>5. ASSUME NEW w \in Workers, WorkerStep(f, w)
        PROVE  SameSight(g)
    BY <1>1, <1>3, <1>5 DEF WorkerStep, Take, Judge, WorkerAnswer, Proceed, Finish, SameSight, Threads
  <1>6. ASSUME NEW m \in Places(object[f].size), Touch(f, m)
        PROVE  SameSight(g)
    BY <1>1, <1>6 DEF Touch, SameSight, requestVars
  <1>7. CASE Request(f) \/ Return(f)
    BY <1>1, <1>7 DEF Request, Return, SameSight
  <1>8. CASE Submit(f) \/ Collect(f) \/ Conclude(f) \/ Stop(f) \/ UNCHANGED windowVars
    BY <1>8 DEF Submit, Collect, Conclude, Stop, windowVars, requestVars, SameSight
  <1>. QED BY <1>2, <1>3, <1>4, <1>5, <1>6, <1>7, <1>8

LEMMA MainStepOfWindows ==
  ASSUME NEW f \in Files, MainStep(f)
  PROVE  \/ \E o : Load(f, o)
         \/ \E reply : Answer(f, Main, reply)
         \/ RequestStep(f, Main)
         \/ Request(f) \/ Return(f) \/ Submit(f) \/ Collect(f) \/ Conclude(f)
         \/ UNCHANGED windowVars
  BY DEF MainStep, Open, Route, NativeAnswer, JudgeNative, Probe, ExtractAttachment,
         AttachmentAnswer, JudgeAttachment, SubmitWindows, WindowsEnd, Unpack, InspectMember,
         ReadManifest, HelperIsGone, CheckActive, Confirm, Close, Verify

LEMMA ArchiveOthers ==
  ASSUME FileAssumption, ArchiveTypeOK, NEW f \in Files, NEW g \in Files, g # f,
         \/ HelperStep(f) \/ HelperDies(f)
         \/ StartHelper(f, form[f].entries) \/ ReadMember(f) \/ Acknowledge(f) \/ ReadDone(f)
         \/ CloseHelper(f) \/ UNCHANGED archiveVars
  PROVE  SameArchive(g)
  <1>. USE DEF SameArchive, ArchiveTypeOK, places
  <1>1. CASE HelperStep(f) \/ HelperDies(f)
    BY <1>1 DEF HelperStep, HelperDies, Dies, Extract, SkipDirectory, Descend, Present, ReadAck, EndOfWalk
  <1>2. CASE StartHelper(f, form[f].entries) \/ ReadMember(f) \/ Acknowledge(f) \/ ReadDone(f)
    BY <1>2 DEF StartHelper, ReadMember, Acknowledge, ReadDone
  <1>3. CASE CloseHelper(f) \/ UNCHANGED archiveVars
    BY <1>3 DEF CloseHelper, archiveVars
  <1>. QED BY <1>1, <1>2, <1>3

LEMMA MainOthers ==
  ASSUME MainTypeOK, NEW f \in Files, NEW g \in Files, g # f, MainStep(f)
  PROVE  SameMain(g)
  <1>. USE DEF SameMain, MainTypeOK, Goto, Leave, Break
  <1>1. CASE Open(f) \/ Route(f) \/ JudgeNative(f) \/ Probe(f)
    BY <1>1 DEF Open, Route, JudgeNative, Probe, ToolFails
  <1>2. CASE ExtractAttachment(f) \/ JudgeAttachment(f) \/ SubmitWindows(f) \/ WindowsEnd(f)
    BY <1>2 DEF ExtractAttachment, JudgeAttachment, SubmitWindows, WindowsEnd, ToolFails
  <1>3. CASE Unpack(f) \/ CheckActive(f) \/ InspectMember(f) \/ HelperIsGone(f)
    BY <1>3 DEF Unpack, CheckActive, InspectMember, HelperIsGone
  <1>4. CASE Confirm(f) \/ Close(f) \/ Verify(f)
    BY <1>4 DEF Confirm, Close, Verify
  <1>5. CASE UNCHANGED mainVars
    BY <1>5 DEF mainVars
  <1>. QED BY <1>1, <1>2, <1>3, <1>4, <1>5 DEF MainStep, NativeAnswer, AttachmentAnswer, ReadManifest

\* The steps that belong to one scan.
OwnStep(f) ==
  \/ MainStep(f) \/ HelpStep(f) \/ TouchFile(f) \/ StopScan(f)
  \/ \E w \in Workers : WorkStep(f, w)
  \/ HelperDies(f) /\ UNCHANGED <<windowVars, mainVars>>

\* A step of one scan leaves the others as they are.
LEMMA Others ==
  ASSUME FileAssumption, Typed, NEW f \in Files, NEW g \in Files, g # f, OwnStep(f)
  PROVE  SameScan(g)
  <1>. USE DEF SameScan
  <1>1. CASE MainStep(f)
    <2>1. SameSight(g)
      BY <1>1, MainStepOfWindows, WindowOthers DEF Threads
    <2>2. SameMain(g)
      BY <1>1, MainOthers DEF Typed
    <2>3. SameArchive(g)
      BY <1>1, MainStepOfArchive, ArchiveOthers DEF Typed
    <2>. QED BY <2>1, <2>2, <2>3
  <1>2. CASE UNCHANGED <<windowVars, mainVars>> /\ (HelperStep(f) \/ HelperDies(f))
    BY <1>2, WindowOthers, ArchiveOthers DEF SameMain, mainVars, Typed
  <1>3. ASSUME NEW w \in Workers, WorkStep(f, w)
        PROVE  SameScan(g)
    BY <1>3, WindowOthers, ArchiveOthers DEF WorkStep, SameMain, mainVars, Typed, Threads
  <1>4. CASE StopScan(f)
    BY <1>4, WindowOthers, ArchiveOthers DEF StopScan, SameMain, mainVars, Typed
  <1>5. CASE TouchFile(f)
    <2>1. SameSight(g)
      <3>1. CASE Inside(f)
        BY <1>5, <3>1, WindowOthers DEF TouchFile, windowVars
      <3>2. CASE ~Inside(f)
        BY <1>5, <3>2, WindowOthers DEF TouchFile
      <3>. QED BY <3>1, <3>2
    <2>2. SameMain(g) /\ SameArchive(g)
      BY <1>5, ArchiveOthers DEF TouchFile, SameMain, MainTypeOK, Typed
    <2>. QED BY <2>1, <2>2
  <1>. QED BY <1>1, <1>2, <1>3, <1>4, <1>5 DEF OwnStep, HelpStep

(***************************************************************************)
(* The steps of the main thread before an archive is opened.               *)
(***************************************************************************)
\* While a file, or a member, is scanned its archive waits.
LEMMA ScanMoves ==
  ASSUME NEW f \in Files, ScanInv(f), SameArchive(f),
         form'[f] = form[f], outer'[f] = outer[f], object'[f] = object[f],
         stage[f] \in Scanning,
         stage'[f] \in Scanning \/ (stage'[f] = "unpack" /\ IsArchive(f)),
         Justified(f)'
  PROVE  ScanInv(f)'
  <1>. USE DEF ScanInv, SameArchive
  <1>1. Shaped(f)'
    BY DEF Shaped, TopForm, TopObject, Inside, FormOK
  <1>2. Placed(f)'
    BY DEF Placed, TopForm, Inside, Alive, Scanning, IsArchive
  <1>3. Acknowledged(f)'
    BY DEF Acknowledged, Placed, TopForm, Inside, Alive, Scanning, IsArchive
  <1>. QED BY <1>1, <1>2, <1>3

LEMMA ArchiveSame ==
  ASSUME NEW f, UNCHANGED archiveVars
  PROVE  SameArchive(f)
  BY DEF SameArchive, archiveVars, places

\* What the main thread sees of its own requests.
LEMMA Sights ==
  ASSUME Typed, NEW f \in Files
  PROVE  /\ \A o : Load(f, o) => object'[f] = o /\ thread'[f][Main] = thread[f][Main]
         /\ \A reply : Answer(f, Main, reply) =>
              /\ object'[f] = object[f] /\ thread'[f][Main].reply = reply
         /\ Request(f) => object'[f] = object[f] /\ thread'[f][Main].phase = "ask"
         /\ Return(f) => object'[f] = object[f] /\ thread[f][Main].phase = "judge"
         /\ Submit(f) \/ Collect(f) \/ Conclude(f) \/ UNCHANGED windowVars => SameSight(f)
         /\ RequestStep(f, Main) => object'[f] = object[f] /\ ~Said(f, "ok")'
  <1>1. object \in [Files -> Objects] /\ thread \in [Files -> [Threads -> ThreadState]]
    BY Types DEF Typed
  <1>2. Main \in Threads /\ thread[f] \in [Threads -> ThreadState] /\ thread[f][Main] \in ThreadState
    BY <1>1 DEF Threads
  <1>3. ASSUME NEW reply, Answer(f, Main, reply)
        PROVE  object'[f] = object[f] /\ thread'[f][Main].reply = reply
    BY <1>1, <1>2, <1>3 DEF Answer, ThreadState
  <1>4. ASSUME RequestStep(f, Main)
        PROVE  object'[f] = object[f] /\ ~Said(f, "ok")'
    <2>1. CASE Acquire(f, Main)
      BY <1>1, <1>2, <2>1 DEF Acquire, Said, ThreadState
    <2>2. CASE Interrupted(f, Main)
      BY <1>3, <2>2 DEF Interrupted, Said
    <2>3. CASE GiveUp(f, Main)
      BY <1>1, <1>2, <2>3 DEF GiveUp, Said, ThreadState
    <2>. QED BY <1>4, <2>1, <2>2, <2>3 DEF RequestStep
  <1>5. \A o : Load(f, o) => object'[f] = o /\ thread'[f][Main] = thread[f][Main]
    BY <1>1 DEF Load, requestVars
  <1>6. Request(f) => object'[f] = object[f] /\ thread'[f][Main].phase = "ask"
    BY <1>1, <1>2 DEF Request, Asking
  <1>7. Return(f) => object'[f] = object[f] /\ thread[f][Main].phase = "judge"
    BY DEF Return
  <1>8. Submit(f) \/ Collect(f) \/ Conclude(f) \/ UNCHANGED windowVars => SameSight(f)
    BY DEF Submit, Collect, Conclude, windowVars, requestVars, SameSight
  <1>. QED BY <1>3, <1>4, <1>5, <1>6, <1>7, <1>8

\* The words for the end of a scan are not None.
LEMMA Words ==
  ASSUME WindowAssumption, NEW f
  PROVE  /\ None \notin {"clean", "infected", "failed", "interrupted", "ok", "stopped"}
         /\ Raised(f) # "clean"
         /\ Raised(f) = None /\ thread[f][Main].reply = "ok" => ~object[f].touched
  BY DEF WindowAssumption, Raised

LEMMA RouteKeeps ==
  ASSUME WindowAssumption, Typed, NEW f \in Files, ScanInv(f), Route(f)
  PROVE  ScanInv(f)'
  <1>1. /\ SameArchive(f) /\ form'[f] = form[f] /\ outer'[f] = outer[f]
        /\ stage[f] = "new" /\ next'[f] = 1 /\ passed'[f] = FALSE
    BY ArchiveSame DEF Route, At, Typed, MainTypeOK
  <1>2. \/ /\ stage'[f] = "verify" /\ outcome'[f] # "clean" /\ SameSight(f)
        \/ /\ stage'[f] = "native" /\ object'[f] = object[f] /\ thread'[f][Main].phase = "ask"
        \/ /\ stage'[f] = "probe" /\ SameSight(f)
        \/ /\ stage'[f] = "unpack" /\ IsArchive(f) /\ SameSight(f)
    BY Sights DEF Route, Goto, Leave, Typed, MainTypeOK
  <1>3. Justified(f)'
    BY <1>1, <1>2 DEF Justified, Said
  <1>. QED BY <1>1, <1>2, <1>3, ScanMoves DEF Scanning, SameSight

LEMMA NativeAnswerKeeps ==
  ASSUME WindowAssumption, Typed, NEW f \in Files, ScanInv(f), NativeAnswer(f)
  PROVE  ScanInv(f)'
  <1>1. PICK reply \in NativeAnswers(f) : Answer(f, Main, reply)
    BY DEF NativeAnswer
  <1>2. /\ SameArchive(f) /\ SameMain(f) /\ stage[f] = "native"
        /\ object'[f] = object[f] /\ thread'[f][Main].reply = reply
    BY <1>1, ArchiveSame, Sights DEF NativeAnswer, At, SameMain, mainVars
  <1>3. reply = "ok" => Bare(f) /\ NoEntry(f)
    <2>1. object[f].size \in Nat /\ object[f].malware \in Places(object[f].size)
      BY Types DEF Typed, Objects
    <2>2. object[f].malware # None => Holds(Whole(f), object[f].malware)
      BY <2>1 DEF Holds, Whole, End, Places
    <2>. QED BY <1>1, <2>2 DEF NativeAnswers, Bare, NoEntry
  <1>4. Justified(f)'
    BY <1>2, <1>3 DEF ScanInv, Justified, Said, SameMain, Bare, NoEntry
  <1>. QED BY <1>2, <1>4, ScanMoves DEF Scanning, SameMain

LEMMA JudgeNativeKeeps ==
  ASSUME WindowAssumption, Typed, NEW f \in Files, ScanInv(f), JudgeNative(f)
  PROVE  ScanInv(f)'
  <1>1. /\ SameArchive(f) /\ form'[f] = form[f] /\ outer'[f] = outer[f] /\ next'[f] = next[f]
        /\ stage[f] = "native" /\ object'[f] = object[f] /\ thread[f][Main].phase = "judge"
    BY ArchiveSame, Sights DEF JudgeNative, At, Typed, MainTypeOK
  <1>2. next[f] = 1 /\ ~passed[f]
    BY <1>1 DEF ScanInv, Justified
  <1>3. \/ /\ stage'[f] = "verify" /\ outcome'[f] # "clean"
        \/ /\ Raised(f) = None /\ thread[f][Main].reply = "ok"
           /\ form[f].kind = "matroska" /\ stage'[f] = "probe"
        \/ /\ Raised(f) = None /\ thread[f][Main].reply = "ok"
           /\ form[f].kind # "matroska" /\ stage'[f] = "verify"
        \/ /\ stage'[f] = (IF IsArchive(f) THEN "unpack" ELSE "probe") /\ passed'[f] = passed[f]
    BY Words DEF JudgeNative, Goto, Leave, Typed, MainTypeOK
  <1>4. Raised(f) = None /\ thread[f][Main].reply = "ok" =>
          ~object[f].touched /\ Bare(f) /\ NoEntry(f)
    BY <1>1, Words DEF ScanInv, Justified, Said
  <1>5. form[f].kind # "matroska" => NoAttachment(f)
    BY DEF ScanInv, Shaped, FormOK, NoAttachment
  <1>6. Justified(f)'
    BY <1>1, <1>2, <1>3, <1>4, <1>5 DEF Justified, Bare, NoEntry, NoAttachment
  <1>. QED BY <1>1, <1>3, <1>6, ScanMoves DEF Scanning

LEMMA ProbeKeeps ==
  ASSUME WindowAssumption, Typed, NEW f \in Files, ScanInv(f), Probe(f)
  PROVE  ScanInv(f)'
  <1>1. /\ SameArchive(f) /\ form'[f] = form[f] /\ outer'[f] = outer[f] /\ next'[f] = next[f]
        /\ stage[f] = "probe" /\ SameSight(f) /\ passed'[f] = passed[f]
        /\ form[f].attachments \in Seq(BOOLEAN)
    BY ArchiveSame, Sights DEF Probe, At, Typed, MainTypeOK, Forms
  <1>2. \/ /\ stage'[f] = "verify" /\ outcome'[f] # "clean"
        \/ /\ stage'[f] = "extract" /\ Approved(f)
    BY DEF Probe, ToolFails, Goto, Leave, Typed, MainTypeOK
  <1>3. Justified(f)'
    BY <1>1, <1>2 DEF ScanInv, Justified, SameSight, Bare, Approved
  <1>. QED BY <1>1, <1>2, <1>3, ScanMoves DEF Scanning, SameSight

LEMMA ExtractAttachmentKeeps ==
  ASSUME WindowAssumption, Typed, NEW f \in Files, ScanInv(f), ExtractAttachment(f)
  PROVE  ScanInv(f)'
  <1>1. /\ SameArchive(f) /\ form'[f] = form[f] /\ outer'[f] = outer[f] /\ next'[f] = next[f]
        /\ stage[f] = "extract" /\ passed'[f] = passed[f] /\ object'[f] = object[f]
        /\ form[f].attachments \in Seq(BOOLEAN) /\ next[f] \in Nat \ {0}
    BY ArchiveSame, Sights DEF ExtractAttachment, At, Typed, MainTypeOK, Forms, SameSight
  <1>2. \/ /\ stage'[f] = "verify" /\ outcome'[f] # "clean"
        \/ /\ stage'[f] = "attachment" /\ thread'[f][Main].phase = "ask"
    BY Sights DEF ExtractAttachment, ToolFails, Goto, Leave, Typed, MainTypeOK
  <1>3. next[f] \in DOMAIN form[f].attachments
    BY <1>1 DEF ExtractAttachment, AttachmentsAreDone
  <1>4. Justified(f)'
    BY <1>1, <1>2, <1>3 DEF ScanInv, Justified, Bare, Approved, Said
  <1>. QED BY <1>1, <1>2, <1>4, ScanMoves DEF Scanning

LEMMA AttachmentAnswerKeeps ==
  ASSUME WindowAssumption, Typed, NEW f \in Files, ScanInv(f), AttachmentAnswer(f)
  PROVE  ScanInv(f)'
  <1>1. PICK reply \in {IF form[f].attachments[next[f]] THEN "found" ELSE "ok"}
                         \cup {"split", "unpack", "limit", "broken"} : Answer(f, Main, reply)
    BY DEF AttachmentAnswer
  <1>2. /\ SameArchive(f) /\ SameMain(f) /\ stage[f] = "attachment"
        /\ object'[f] = object[f] /\ thread'[f][Main].reply = reply
    BY <1>1, ArchiveSame, Sights DEF AttachmentAnswer, At, SameMain, mainVars
  <1>3. reply = "ok" => ~form[f].attachments[next[f]]
    BY <1>1
  <1>4. Justified(f)'
    BY <1>2, <1>3 DEF ScanInv, Justified, Said, SameMain, Bare, Approved
  <1>. QED BY <1>2, <1>4, ScanMoves DEF Scanning, SameMain

LEMMA JudgeAttachmentKeeps ==
  ASSUME WindowAssumption, Typed, NEW f \in Files, ScanInv(f), JudgeAttachment(f)
  PROVE  ScanInv(f)'
  <1>1. /\ SameArchive(f) /\ form'[f] = form[f] /\ outer'[f] = outer[f] /\ passed'[f] = passed[f]
        /\ stage[f] = "attachment" /\ object'[f] = object[f] /\ thread[f][Main].phase = "judge"
        /\ form[f].attachments \in Seq(BOOLEAN) /\ next[f] \in Nat \ {0}
    BY ArchiveSame, Sights DEF JudgeAttachment, At, Typed, MainTypeOK, Forms
  <1>2. \/ /\ stage'[f] = "verify" /\ outcome'[f] # "clean"
        \/ /\ stage'[f] = "extract" /\ next'[f] = next[f] + 1 /\ thread[f][Main].reply = "ok"
    BY Words DEF JudgeAttachment, Goto, Leave, Typed, MainTypeOK
  <1>3. Justified(f)'
    BY <1>1, <1>2 DEF ScanInv, Justified, Said, Bare, Approved
  <1>. QED BY <1>1, <1>2, <1>3, ScanMoves DEF Scanning

LEMMA SubmitWindowsKeeps ==
  ASSUME WindowAssumption, Typed, NEW f \in Files, ScanInv(f), SubmitWindows(f)
  PROVE  ScanInv(f)'
  <1>1. /\ SameArchive(f) /\ form'[f] = form[f] /\ outer'[f] = outer[f] /\ passed'[f] = passed[f]
        /\ stage[f] = "extract" /\ SameSight(f) /\ next'[f] = next[f]
        /\ form[f].attachments \in Seq(BOOLEAN) /\ next[f] \in Nat \ {0} /\ AttachmentsAreDone(f)
    BY ArchiveSame, Sights DEF SubmitWindows, At, Typed, MainTypeOK, Forms
  <1>2. \/ /\ stage'[f] = "verify" /\ passed[f]
        \/ /\ stage'[f] = "windows"
    BY DEF SubmitWindows, Goto, Leave, Typed, MainTypeOK
  <1>3. NoAttachment(f) /\ NoEntry(f)
    <2>1. \A i \in DOMAIN form[f].attachments : i < next[f]
      BY <1>1 DEF AttachmentsAreDone
    <2>2. NoAttachment(f)
      BY <1>1, <2>1 DEF ScanInv, Justified, NoAttachment
    <2>3. form[f].kind # "archive"
      BY <1>1 DEF ScanInv, Justified, Approved
    <2>. QED BY <2>2, <2>3 DEF ScanInv, Shaped, FormOK, NoEntry
  <1>4. Justified(f)'
    BY <1>1, <1>2, <1>3
       DEF ScanInv, Justified, Bare, NoAttachment, NoEntry, Approved, AttachmentsAreDone, SameSight
  <1>. QED BY <1>1, <1>2, <1>4, ScanMoves DEF Scanning, SameSight

LEMMA WindowsEndKeeps ==
  ASSUME WindowAssumption, Typed, WindowInv, NEW f \in Files, ScanInv(f), WindowsEnd(f)
  PROVE  ScanInv(f)'
  <1>1. /\ SameArchive(f) /\ form'[f] = form[f] /\ outer'[f] = outer[f]
        /\ stage[f] = "windows" /\ SameSight(f)
        /\ form[f].attachments \in Seq(BOOLEAN) /\ next[f] \in Nat \ {0}
        /\ stage'[f] = "verify" /\ outcome'[f] = result[f]
    BY ArchiveSame, Sights DEF WindowsEnd, At, Goto, Leave, Typed, MainTypeOK, Forms
  <1>2. AttachmentsAreDone(f) /\ Approved(f)
    BY <1>1 DEF ScanInv, Justified
  <1>3. NoAttachment(f) /\ NoEntry(f)
    <2>1. \A i \in DOMAIN form[f].attachments : i < next[f]
      BY <1>1, <1>2 DEF AttachmentsAreDone
    <2>2. NoAttachment(f)
      BY <1>1, <2>1 DEF ScanInv, Justified, NoAttachment
    <2>. QED BY <1>2, <2>2 DEF ScanInv, Shaped, FormOK, NoEntry, Approved
  <1>4. result[f] = "clean" /\ ~object[f].touched => Bare(f)
    BY DEF WindowInv, FileInv, Ended, Bare
  <1>5. Justified(f)'
    BY <1>1, <1>3, <1>4 DEF Justified, Bare, NoAttachment, NoEntry, SameSight
  <1>. QED BY <1>1, <1>5, ScanMoves DEF Scanning, SameSight

(***************************************************************************)
(* The steps that open an archive, read its helper and close it.           *)
(***************************************************************************)
LEMMA OpenKeeps ==
  ASSUME FileAssumption, Typed, NEW f \in Files, ScanInv(f), Open(f)
  PROVE  ScanInv(f)'
  <1>1. PICK input \in Inputs[f] : Load(f, input.object) /\ form' = [form EXCEPT ![f] = input.form]
    BY DEF Open
  <1>2. InputOK(input)
    BY DEF FileAssumption
  <1>3. /\ SameArchive(f) /\ outer'[f] = outer[f] /\ stage[f] = "idle" /\ stage'[f] = "new"
        /\ form'[f] = input.form /\ object'[f] = input.object
    BY <1>1, ArchiveSame, Sights DEF Open, At, Goto, Typed, MainTypeOK
  <1>4. ~Inside(f) /\ ~Inside(f)' /\ walk[f].state = "none"
    BY <1>3 DEF ScanInv, Placed, Alive, Scanning, Inside
  <1>5. Shaped(f)'
    BY <1>2, <1>3, <1>4 DEF Shaped, FormOK, TopForm, TopObject, InputOK
  <1>6. Placed(f)' /\ Acknowledged(f)' /\ Justified(f)'
    BY <1>3, <1>4 DEF ScanInv, Placed, Acknowledged, Justified, Alive, Scanning, SameArchive
  <1>. QED BY <1>5, <1>6 DEF ScanInv

\* What is known while an archive is read.
LEMMA AtArchive ==
  ASSUME NEW f \in Files, ScanInv(f), stage[f] \in {"unpack", "confirm", "close"}
  PROVE  /\ ~Inside(f) /\ Alive(f) /\ form[f].kind = "archive"
         /\ TopForm(f) = form[f] /\ TopObject(f) = object[f]
         /\ NoAttachment(f)
         /\ ~object[f].touched => Bare(f)
         /\ stage[f] = "confirm" =>
              walk[f].state \in {"wait", "died"} /\ message[f] = Nil /\ ~ack[f]
  <1>1. ~Inside(f) /\ Alive(f)
    BY DEF ScanInv, Placed, Alive, Scanning
  <1>2. TopForm(f) = form[f] /\ TopObject(f) = object[f]
    BY <1>1 DEF TopForm, TopObject
  <1>3. form[f].kind = "archive"
    BY <1>1, <1>2 DEF ScanInv, Placed
  <1>4. NoAttachment(f)
    BY <1>3 DEF ScanInv, Shaped, FormOK, NoAttachment
  <1>5. ~object[f].touched => Bare(f)
    BY <1>2, <1>3 DEF ScanInv, Shaped, Bare
  <1>. QED BY <1>1, <1>2, <1>3, <1>4, <1>5 DEF ScanInv, Placed

\* The parent goes on to another step of the same archive.
LEMMA ArchiveMoves ==
  ASSUME NEW f \in Files, ScanInv(f), SameArchive(f), SameSight(f),
         form'[f] = form[f], outer'[f] = outer[f],
         \/ stage[f] \in {"unpack", "confirm"} /\ stage'[f] = "close"
         \/ stage[f] = "unpack" /\ walk[f].state = "none" /\ stage'[f] = "verify",
         Justified(f)'
  PROVE  ScanInv(f)'
  <1>. USE DEF ScanInv, SameArchive, SameSight
  <1>1. Shaped(f)'
    BY DEF Shaped, TopForm, TopObject, Inside, FormOK
  <1>2. Placed(f)'
    BY AtArchive DEF Placed, TopForm, Inside, Alive, Scanning
  <1>3. Acknowledged(f)'
    BY AtArchive DEF Acknowledged, TopForm, Inside, Alive
  <1>. QED BY <1>1, <1>2, <1>3

LEMMA BreakKeeps ==
  ASSUME WindowAssumption, Typed, NEW f \in Files, ScanInv(f),
         \/ HelperIsGone(f) \/ CheckActive(f)
         \/ Confirm(f) /\ UNCHANGED archiveVars
         \/ Unpack(f) /\ UNCHANGED archiveVars /\ stage'[f] = "verify" /\ outcome'[f] # "clean"
  PROVE  ScanInv(f)'
  <1>1. /\ SameArchive(f) /\ SameSight(f) /\ form'[f] = form[f] /\ outer'[f] = outer[f]
    BY ArchiveSame, Sights DEF HelperIsGone, CheckActive, Confirm, Unpack, Typed, MainTypeOK
  <1>2. CASE Unpack(f) /\ stage'[f] = "verify" /\ outcome'[f] # "clean"
    <2>1. stage[f] = "unpack" /\ walk[f].state = "none"
      BY <1>2 DEF Unpack, At
    <2>2. Justified(f)'
      BY <1>2 DEF Justified
    <2>. QED BY <1>1, <1>2, <2>1, <2>2, ArchiveMoves
  <1>3. CASE CheckActive(f) \/ (Confirm(f) /\ stage'[f] = "close")
    <2>1. stage[f] \in {"unpack", "confirm"} /\ stage'[f] = "close" /\ outcome'[f] # "clean"
      BY <1>3 DEF CheckActive, Confirm, Break, At, Goto, Typed, MainTypeOK
    <2>2. Justified(f)'
      BY <2>1 DEF Justified
    <2>. QED BY <1>1, <2>1, <2>2, ArchiveMoves
  <1>4. CASE HelperIsGone(f)
    <2>1. stage[f] = "unpack" /\ stage'[f] = "close" /\ (outcome'[f] = "clean" => Complete(f))
      BY <1>4, Words DEF HelperIsGone, Break, At, Goto, Typed, MainTypeOK
    <2>2. Complete(f) => NoEntry(f)
      <3>1. ASSUME Complete(f)
            PROVE  /\ listed[f] = form[f].entries /\ walk[f].at > Len(listed[f])
                   /\ \A i \in DOMAIN listed[f] : i < walk[f].at => ~listed[f][i].infected
        BY <2>1, <3>1, AtArchive DEF Complete, ScanInv, Acknowledged
      <3>2. listed[f] \in Seq(Entries) /\ walk[f].at \in Nat
        BY WalkTypes DEF Typed, ArchiveTypeOK
      <3>. QED BY <3>1, <3>2 DEF NoEntry
    <2>3. Justified(f)'
      BY <1>1, <2>1, <2>2, AtArchive DEF Justified, Bare, NoAttachment, NoEntry, SameSight
    <2>. QED BY <1>1, <2>1, <2>3, ArchiveMoves
  <1>5. Confirm(f) /\ UNCHANGED archiveVars => stage'[f] = "close" \/ ack'[f]
    BY DEF Confirm, Acknowledge, Break, Goto, Typed, MainTypeOK, ArchiveTypeOK
  <1>6. CASE Confirm(f) /\ UNCHANGED archiveVars /\ stage'[f] # "close"
    <2>1. ~ack[f]
      BY <1>6, AtArchive DEF Confirm, At
    <2>. QED BY <1>1, <1>5, <1>6, <2>1 DEF SameArchive
  <1>. QED BY <1>2, <1>3, <1>4, <1>6

LEMMA StartHelperKeeps ==
  ASSUME FileAssumption, Typed, NEW f \in Files, ScanInv(f), Unpack(f),
         StartHelper(f, form[f].entries), UNCHANGED <<stage, outcome>>
  PROVE  ScanInv(f)'
  <1>1. /\ SameSight(f) /\ SameMain(f) /\ stage[f] = "unpack" /\ walk[f].state = "none"
    BY Sights DEF Unpack, At, SameMain
  <1>2. /\ walk'[f].state = "walk" /\ walk'[f].at = 1 /\ listed'[f] = form[f].entries
        /\ message'[f] = message[f] /\ ack'[f] = ack[f]
    BY DEF StartHelper, Typed, ArchiveTypeOK, NoHelper
  <1>3. ~Inside(f) /\ form[f].kind = "archive" /\ TopForm(f) = form[f] /\ message[f] = Nil /\ ~ack[f]
    BY <1>1, AtArchive DEF ScanInv, Placed
  <1>4. ~Inside(f)' /\ TopForm(f)' = form[f]
    BY <1>1, <1>3 DEF Inside, TopForm, SameMain
  <1>5. Shaped(f)'
    BY <1>1 DEF ScanInv, SameMain, SameSight, Shaped, FormOK, TopForm, TopObject, Inside
  <1>6. Placed(f)'
    BY <1>1, <1>2, <1>3, <1>4 DEF Placed, Alive, Scanning, SameMain
  <1>7. Acknowledged(f)'
    <2>1. form[f].entries \in Seq(Entries)
      BY DEF Typed, MainTypeOK, Forms
    <2>. QED BY <1>1, <1>2, <1>3, <1>4, <2>1 DEF Acknowledged, Alive, SameMain
  <1>8. Justified(f)'
    BY <1>1 DEF Justified, SameMain
  <1>. QED BY <1>5, <1>6, <1>7, <1>8 DEF ScanInv

LEMMA InspectMemberKeeps ==
  ASSUME WindowAssumption, FileAssumption, Typed, NEW f \in Files, ScanInv(f), InspectMember(f)
  PROVE  ScanInv(f)'
  <1>1. /\ stage[f] = "unpack" /\ message[f] # Nil /\ message[f][1] = "member"
        /\ walk'[f] = walk[f] /\ listed'[f] = listed[f] /\ message'[f] = Nil /\ ack'[f] = ack[f]
        /\ workspace'[f] = workspace[f] /\ locked'[f] = locked[f] /\ walk[f].state # "none"
    BY DEF InspectMember, ReadMember, At, places, Typed, ArchiveTypeOK
  <1>2. /\ ~Inside(f) /\ Alive(f) /\ form[f].kind = "archive"
        /\ TopForm(f) = form[f] /\ TopObject(f) = object[f]
    BY <1>1, AtArchive
  <1>3. /\ walk[f].state \in {"wait", "died"} /\ message[f][2] = walk[f].at /\ ~ack[f]
        /\ walk[f].at \in DOMAIN listed[f]
        /\ listed[f] = form[f].entries
        /\ \A i \in DOMAIN listed[f] : i < walk[f].at => ~listed[f][i].infected
    BY <1>1, <1>2 DEF ScanInv, Acknowledged
  <1>4. CASE stage'[f] = "close"
    <2>1. /\ form'[f] = form[f] /\ outer'[f] = outer[f] /\ SameSight(f) /\ outcome'[f] # "clean"
      BY <1>4, Sights DEF InspectMember, Break, Goto, Typed, MainTypeOK
    <2>2. ~Inside(f)' /\ TopForm(f)' = form[f] /\ TopObject(f)' = object[f]
      BY <1>2, <2>1 DEF Inside, TopForm, TopObject, SameSight
    <2>3. Shaped(f)'
      BY <1>2, <2>1, <2>2 DEF ScanInv, Shaped, FormOK, SameSight
    <2>4. Placed(f)'
      BY <1>1, <1>2, <1>4, <2>2 DEF Placed, Alive, Scanning
    <2>5. Acknowledged(f)'
      BY <1>1, <1>3, <1>4, <2>2 DEF Acknowledged, Alive
    <2>6. Justified(f)'
      BY <1>4, <2>1 DEF Justified
    <2>. QED BY <2>3, <2>4, <2>5, <2>6 DEF ScanInv
  <1>5. CASE stage'[f] # "close"
    <2>. DEFINE e == listed[f][walk[f].at]
    <2>1. /\ stage'[f] = "new" /\ form'[f] = MemberForm /\ object'[f] = Member(e)
          /\ outer'[f] = [object |-> object[f], form |-> form[f]]
      BY <1>3, <1>5, Sights DEF InspectMember, Break, Goto, Typed, MainTypeOK
    <2>2. outer'[f] # None
      BY <2>1, Types DEF Typed, MainTypeOK, FileAssumption
    <2>3. Inside(f)' /\ TopForm(f)' = form[f] /\ TopObject(f)' = object[f]
      BY <2>1, <2>2 DEF Inside, TopForm, TopObject
    <2>4. Shaped(f)'
      <3>1. FormOK(MemberForm)
        BY DEF FormOK, MemberForm
      <3>2. FormOK(form[f]) /\ (form[f].kind = "archive" /\ ~object[f].touched => object[f].malware = None)
        BY <1>2 DEF ScanInv, Shaped
      <3>3. ~Member(e).touched
        BY DEF Member
      <3>. QED BY <2>1, <2>3, <3>1, <3>2, <3>3 DEF Shaped, FormOK
    <2>5. Placed(f)'
      BY <1>1, <1>2, <1>3, <2>1, <2>3 DEF Placed, Alive, Scanning
    <2>6. Acknowledged(f)'
      BY <1>1, <1>3, <2>1, <2>3 DEF Acknowledged, Alive
    <2>7. Justified(f)'
      BY <2>1 DEF Justified
    <2>. QED BY <2>4, <2>5, <2>6, <2>7 DEF ScanInv
  <1>. QED BY <1>4, <1>5

LEMMA ReadManifestKeeps ==
  ASSUME Typed, NEW f \in Files, ScanInv(f), ReadManifest(f)
  PROVE  ScanInv(f)'
  <1>1. /\ SameMain(f) /\ SameSight(f) /\ stage[f] = "unpack"
        /\ walk'[f] = walk[f] /\ listed'[f] = listed[f] /\ message'[f] = Nil /\ ack'[f] = ack[f]
        /\ workspace'[f] = workspace[f] /\ locked'[f] = locked[f]
    BY Sights DEF ReadManifest, ReadDone, At, SameMain, mainVars, places, Typed, ArchiveTypeOK
  <1>2. Shaped(f)'
    BY <1>1 DEF ScanInv, SameMain, SameSight, Shaped, FormOK, TopForm, TopObject, Inside
  <1>3. Placed(f)'
    BY <1>1 DEF ScanInv, Placed, Alive, TopForm, Inside, SameMain
  <1>4. Acknowledged(f)'
    BY <1>1 DEF ScanInv, Acknowledged, Alive, TopForm, Inside, SameMain, SameSight
  <1>5. Justified(f)'
    BY <1>1 DEF Justified, SameMain
  <1>. QED BY <1>2, <1>3, <1>4, <1>5 DEF ScanInv

LEMMA ConfirmKeeps ==
  ASSUME WindowAssumption, Typed, NEW f \in Files, ScanInv(f), Confirm(f)
  PROVE  ScanInv(f)'
  <1>1. CASE UNCHANGED archiveVars
    BY <1>1, BreakKeeps
  <1>2. CASE walk[f].state = "wait" /\ Acknowledge(f) /\ Goto(f, "unpack")
    <2>1. /\ SameSight(f) /\ stage[f] = "confirm" /\ stage'[f] = "unpack"
          /\ form'[f] = form[f] /\ outer'[f] = outer[f]
          /\ walk'[f] = walk[f] /\ listed'[f] = listed[f] /\ message'[f] = message[f] /\ ack'[f]
          /\ workspace'[f] = workspace[f] /\ locked'[f] = locked[f]
      BY <1>2, Sights DEF Confirm, At, Goto, Acknowledge, places, Typed, MainTypeOK, ArchiveTypeOK
    <2>2. /\ ~Inside(f) /\ Alive(f) /\ form[f].kind = "archive" /\ TopForm(f) = form[f]
          /\ message[f] = Nil /\ ~Inside(f)' /\ TopForm(f)' = form[f]
      BY <2>1, AtArchive DEF Inside, TopForm
    <2>3. Shaped(f)'
      BY <2>1 DEF ScanInv, SameSight, Shaped, FormOK, TopForm, TopObject, Inside
    <2>4. Placed(f)'
      BY <1>2, <2>1, <2>2 DEF Placed, Alive, Scanning
    <2>5. Acknowledged(f)'
      BY <1>2, <2>1, <2>2 DEF ScanInv, Acknowledged, Alive
    <2>6. Justified(f)'
      BY <2>1 DEF Justified
    <2>. QED BY <2>3, <2>4, <2>5, <2>6 DEF ScanInv
  <1>. QED BY <1>1, <1>2 DEF Confirm

LEMMA CloseKeeps ==
  ASSUME FileAssumption, Typed, NEW f \in Files, ScanInv(f), Close(f)
  PROVE  ScanInv(f)'
  <1>1. /\ SameSight(f) /\ stage[f] = "close" /\ stage'[f] = "verify"
        /\ form'[f] = form[f] /\ outer'[f] = outer[f] /\ outcome'[f] = outcome[f]
        /\ walk'[f].state = "none" /\ message'[f] = Nil /\ ~ack'[f]
        /\ ~workspace'[f] /\ ~locked'[f]
    BY Sights DEF Close, CloseHelper, At, Goto, NoHelper, Typed, MainTypeOK, ArchiveTypeOK
  <1>2. ~Inside(f)'
    BY <1>1, AtArchive DEF Inside
  <1>3. Shaped(f)'
    BY <1>1 DEF ScanInv, SameSight, Shaped, FormOK, TopForm, TopObject, Inside
  <1>4. Placed(f)' /\ Acknowledged(f)'
    BY <1>1, <1>2 DEF Placed, Acknowledged
  <1>5. Justified(f)'
    BY <1>1 DEF ScanInv, Justified, Bare, NoAttachment, NoEntry, SameSight
  <1>. QED BY <1>3, <1>4, <1>5 DEF ScanInv

\* A file is left for good, or a member for its archive.
LEMMA VerifyKeeps ==
  ASSUME WindowAssumption, FileAssumption, Typed, NEW f \in Files, ScanInv(f), Verify(f)
  PROVE  ScanInv(f)'
  <1>1. /\ SameArchive(f) /\ stage[f] = "verify" /\ outcome'[f] = Verified(f)
        /\ Verified(f) = "clean" => outcome[f] = "clean" /\ ~object[f].touched
    BY ArchiveSame DEF Verify, At, Verified, Typed, MainTypeOK
  <1>2. Verified(f) = "clean" => Bare(f) /\ NoAttachment(f) /\ NoEntry(f)
    BY <1>1 DEF ScanInv, Justified
  <1>3. CASE ~Inside(f)
    <2>1. SameSight(f) /\ form'[f] = form[f] /\ outer'[f] = outer[f] /\ stage'[f] = "done"
      BY <1>3, Sights DEF Verify, Goto, Typed, MainTypeOK
    <2>2. Shaped(f)'
      BY <2>1 DEF ScanInv, SameSight, Shaped, FormOK, TopForm, TopObject, Inside
    <2>3. ~Inside(f)' /\ walk[f].state = "none"
      BY <1>1, <1>3, <2>1 DEF Inside, ScanInv, Placed, Alive, Scanning
    <2>4. Placed(f)' /\ Acknowledged(f)'
      BY <1>1, <2>1, <2>3 DEF ScanInv, Placed, Acknowledged, Scanning, SameArchive
    <2>5. Justified(f)'
      BY <1>1, <1>2, <2>1 DEF Justified, Bare, NoAttachment, NoEntry, SameSight
    <2>. QED BY <2>2, <2>4, <2>5 DEF ScanInv
  <1>4. CASE Inside(f)
    <2>1. /\ object'[f] = outer[f].object /\ form'[f] = outer[f].form /\ outer'[f] = None
          /\ stage'[f] = (IF Verified(f) = "clean" THEN "confirm" ELSE "close")
      BY <1>4, Sights DEF Verify, Goto, Typed, MainTypeOK
    <2>2. /\ ~Inside(f)' /\ TopForm(f)' = TopForm(f) /\ TopObject(f)' = TopObject(f)
          /\ form'[f] = TopForm(f) /\ TopForm(f).kind = "archive" /\ Alive(f)
          /\ walk[f].state \in {"wait", "died"} /\ message[f] = Nil /\ ~ack[f]
      BY <1>1, <1>4, <2>1 DEF Inside, TopForm, TopObject, ScanInv, Placed, Alive
    <2>3. Shaped(f)'
      BY <2>2 DEF ScanInv, Shaped, FormOK
    <2>4. Placed(f)'
      BY <1>1, <2>1, <2>2 DEF ScanInv, Placed, Alive, Scanning, SameArchive
    <2>5. /\ listed[f] = TopForm(f).entries
          /\ \A i \in DOMAIN listed[f] : i < walk[f].at => ~listed[f][i].infected
          /\ walk[f].at \in DOMAIN listed[f] /\ object[f] = Member(listed[f][walk[f].at])
      BY <1>4, <2>2 DEF ScanInv, Acknowledged
    <2>6. Bare(f) => ~listed[f][walk[f].at].infected
      <3>1. [from |-> 0, to |-> 1] # None
        BY DEF FileAssumption
      <3>. QED BY <2>5, <3>1 DEF Bare, Member
    <2>7. Acknowledged(f)'
      BY <1>1, <1>2, <2>1, <2>2, <2>5, <2>6 DEF Acknowledged, Alive, SameArchive
    <2>8. Justified(f)'
      BY <1>1, <2>1 DEF Justified
    <2>. QED BY <2>3, <2>4, <2>7, <2>8 DEF ScanInv
  <1>. QED BY <1>3, <1>4

(***************************************************************************)
(* Requests, workers, the helper and what others do.                       *)
(***************************************************************************)
\* Nothing of the scan changes but its requests.
LEMMA RequestsMove ==
  ASSUME NEW f \in Files, ScanInv(f), SameMain(f), SameArchive(f), object'[f] = object[f],
         SameSight(f) \/ ~Said(f, "ok")'
  PROVE  ScanInv(f)'
  <1>. USE DEF ScanInv, SameMain, SameArchive
  <1>1. Shaped(f)'
    BY DEF Shaped, TopForm, TopObject, Inside, FormOK
  <1>2. Placed(f)'
    BY DEF Placed, TopForm, Inside, Alive
  <1>3. Acknowledged(f)'
    BY DEF Acknowledged, TopForm, Inside, Alive
  <1>4. Justified(f)'
    BY DEF Justified, Approved, AttachmentsAreDone, Bare, NoAttachment, NoEntry, Said, SameSight
  <1>. QED BY <1>1, <1>2, <1>3, <1>4

LEMMA MainKeepsScan ==
  ASSUME WindowAssumption, FileAssumption, Typed, WindowInv, NEW f \in Files, ScanInv(f), MainStep(f)
  PROVE  ScanInv(f)'
  <1>1. CASE Open(f) \/ Route(f) \/ NativeAnswer(f) \/ JudgeNative(f) \/ Probe(f)
    BY <1>1, OpenKeeps, RouteKeeps, NativeAnswerKeeps, JudgeNativeKeeps, ProbeKeeps
  <1>2. CASE ExtractAttachment(f) \/ AttachmentAnswer(f) \/ JudgeAttachment(f) \/ SubmitWindows(f) \/ WindowsEnd(f)
    BY <1>2, ExtractAttachmentKeeps, AttachmentAnswerKeeps, JudgeAttachmentKeeps,
       SubmitWindowsKeeps, WindowsEndKeeps
  <1>3. CASE Unpack(f)
    <2>1. \/ UNCHANGED archiveVars /\ stage'[f] = "verify" /\ outcome'[f] # "clean"
          \/ StartHelper(f, form[f].entries) /\ UNCHANGED <<stage, outcome>>
      BY <1>3 DEF Unpack, Leave, Goto, Typed, MainTypeOK
    <2>. QED BY <1>3, <2>1, BreakKeeps, StartHelperKeeps
  <1>4. CASE InspectMember(f) \/ ReadManifest(f) \/ HelperIsGone(f) \/ CheckActive(f)
    BY <1>4, InspectMemberKeeps, ReadManifestKeeps, BreakKeeps
  <1>5. CASE Confirm(f) \/ Close(f) \/ Verify(f)
    BY <1>5, ConfirmKeeps, CloseKeeps, VerifyKeeps
  <1>6. CASE (Collect(f) \/ Conclude(f) \/ RequestStep(f, Main)) /\ UNCHANGED <<archiveVars, mainVars>>
    <2>1. SameMain(f) /\ SameArchive(f)
      BY <1>6, ArchiveSame DEF SameMain, mainVars
    <2>2. object'[f] = object[f] /\ (SameSight(f) \/ ~Said(f, "ok")')
      BY <1>6, Sights DEF SameSight
    <2>. QED BY <2>1, <2>2, RequestsMove
  <1>. QED BY <1>1, <1>2, <1>3, <1>4, <1>5, <1>6 DEF MainStep

\* A worker changes neither what is scanned nor the main thread's request.
LEMMA WorkKeepsScan ==
  ASSUME WindowAssumption, Typed, NEW f \in Files, ScanInv(f), NEW w \in Workers, WorkStep(f, w)
  PROVE  ScanInv(f)'
  <1>1. thread \in [Files -> [Threads -> ThreadState]] /\ thread[f] \in [Threads -> ThreadState]
    BY Types DEF Typed
  <1>2. w # Main /\ Main \in Threads /\ w \in Threads
    BY DEF WindowAssumption, Threads
  <1>3. ASSUME NEW reply, Answer(f, w, reply)
        PROVE  SameSight(f)
    BY <1>1, <1>2, <1>3 DEF Answer, SameSight
  <1>4. ASSUME RequestStep(f, w)
        PROVE  SameSight(f)
    <2>1. CASE Acquire(f, w)
      BY <1>1, <1>2, <2>1 DEF Acquire, SameSight
    <2>2. CASE Interrupted(f, w)
      BY <1>3, <2>2 DEF Interrupted
    <2>3. CASE GiveUp(f, w)
      BY <1>1, <1>2, <2>3 DEF GiveUp, SameSight
    <2>. QED BY <1>4, <2>1, <2>2, <2>3 DEF RequestStep
  <1>5. ASSUME WorkerStep(f, w)
        PROVE  SameSight(f)
    <2>1. ASSUME NEW new, thread' = [thread EXCEPT ![f][w] = new]
          PROVE  thread'[f][Main] = thread[f][Main]
      BY <1>1, <1>2, <2>1
    <2>2. CASE Take(f, w)
      BY <2>1, <2>2 DEF Take, Proceed, SameSight
    <2>3. CASE Judge(f, w)
      BY <2>1, <2>3 DEF Judge, Proceed, Finish, SameSight
    <2>4. CASE WorkerAnswer(f, w)
      BY <1>3, <2>4 DEF WorkerAnswer
    <2>. QED BY <1>5, <2>2, <2>3, <2>4 DEF WorkerStep
  <1>6. SameMain(f) /\ SameArchive(f) /\ SameSight(f)
    BY <1>4, <1>5, ArchiveSame DEF WorkStep, SameMain, mainVars
  <1>. QED BY <1>6, ScanFrame DEF SameScan

\* A step of the helper touches neither content nor verdicts.
LEMMA HelperMoves ==
  ASSUME Typed, NEW f \in Files, ScanInv(f), SameMain(f), SameSight(f),
         walk[f].state \in {"walk", "wait"}, walk'[f].state # "none",
         Placed(f)', Acknowledged(f)'
  PROVE  ScanInv(f)'
  <1>1. Shaped(f)'
    BY DEF ScanInv, SameMain, SameSight, Shaped, FormOK, TopForm, TopObject, Inside
  <1>2. Justified(f)'
    BY DEF ScanInv, SameMain, SameSight, Justified, Approved, AttachmentsAreDone, Bare,
           NoAttachment, NoEntry, Said
  <1>. QED BY <1>1, <1>2 DEF ScanInv

LEMMA DiesKeeps ==
  ASSUME FileAssumption, Typed, NEW f \in Files, ScanInv(f), SameMain(f), SameSight(f),
         walk[f].state \in {"walk", "wait"}, Dies(f)
  PROVE  ScanInv(f)'
  <1>1. walk \in [Files -> Walks] /\ walk[f] \in Walks
    BY DEF Typed, ArchiveTypeOK
  <1>2. /\ walk'[f].state = "died" /\ walk'[f].at = walk[f].at
        /\ listed'[f] = listed[f] /\ message'[f] = message[f] /\ ack'[f] = ack[f]
    BY <1>1 DEF Dies, Walks
  <1>3. Placed(f)'
    BY <1>2 DEF ScanInv, Placed, Alive, TopForm, Inside, SameMain
  <1>4. Acknowledged(f)'
    BY <1>2 DEF ScanInv, Acknowledged, Alive, TopForm, Inside, SameMain, SameSight
  <1>. QED BY <1>2, <1>3, <1>4, HelperMoves

LEMMA HelpKeepsScan ==
  ASSUME FileAssumption, Typed, NEW f \in Files, ScanInv(f), HelpStep(f)
  PROVE  ScanInv(f)'
  <1>1. walk \in [Files -> Walks] /\ walk[f] \in Walks /\ walk[f].at \in Nat \ {0} /\ walk[f].expanded \in Nat
    BY WalkTypes DEF Typed, ArchiveTypeOK
  <1>2. SameMain(f) /\ SameSight(f)
    BY Sights DEF HelpStep, SameMain, mainVars
  <1>3. listed[f] \in Seq(Entries) /\ Len(listed[f]) \in Nat /\ DOMAIN listed[f] = 1 .. Len(listed[f])
    BY DEF Typed, ArchiveTypeOK
  <1>4. ASSUME walk[f].state = "walk", Alive(f)
        PROVE  /\ ~Inside(f) /\ stage[f] # "confirm" /\ ~ack[f]
               /\ ~(message[f] # Nil /\ message[f][1] = "member")
               /\ listed[f] = TopForm(f).entries
               /\ \A i \in DOMAIN listed[f] : listed[f][i].infected => listed[f][i].kind = "leaf"
    BY <1>4 DEF ScanInv, Placed, Acknowledged, Shaped, FormOK
  <1>5. CASE Extract(f)
    <2>1. walk[f].state = "walk" /\ walk[f].at <= Len(listed[f]) /\ walk[f].at \in DOMAIN listed[f]
      BY <1>1, <1>3, <1>5 DEF Extract, WalkIsOver
    <2>2. CASE SkipDirectory(f) \/ Descend(f)
      <3>1. walk'[f].at = walk[f].at + 1 /\ walk'[f].state = "walk"
        BY <1>1, <2>1, <2>2 DEF SkipDirectory, Descend, Walks
      <3>2. /\ listed'[f] = listed[f] /\ message'[f] = message[f] /\ ack'[f] = ack[f]
            /\ listed[f][walk[f].at].kind # "leaf"
        BY <2>2 DEF SkipDirectory, Descend, Entry
      <3>3. Placed(f)'
        BY <1>2, <1>4, <2>1, <3>1, <3>2 DEF ScanInv, Placed, Alive, TopForm, Inside, SameMain
      <3>4. Acknowledged(f)'
        <4>1. CASE Alive(f)
          <5>1. \A i \in DOMAIN listed[f] : i < walk[f].at + 1 => i < walk[f].at \/ i = walk[f].at
            BY <1>1, <1>3
          <5>2. \A i \in DOMAIN listed[f] : i < walk[f].at + 1 => ~listed[f][i].infected
            BY <1>4, <2>1, <3>2, <4>1, <5>1 DEF ScanInv, Acknowledged
          <5>. QED BY <1>2, <1>4, <2>1, <3>1, <3>2, <4>1, <5>2
                   DEF Acknowledged, Alive, TopForm, Inside, SameMain
        <4>2. CASE ~Alive(f)
          BY <1>2, <4>2 DEF Acknowledged, Alive, SameMain
        <4>. QED BY <4>1, <4>2
      <3>. QED BY <1>2, <2>1, <3>1, <3>3, <3>4, HelperMoves
    <2>3. CASE Present(f)
      <3>1. walk'[f].at = walk[f].at /\ walk'[f].state = "wait"
        BY <1>1, <2>3 DEF Present, Walks
      <3>2. listed'[f] = listed[f] /\ message'[f] = <<"member", walk[f].at>> /\ ack'[f] = ack[f]
        BY <2>3 DEF Present, Typed, ArchiveTypeOK
      <3>3. Placed(f)'
        BY <1>2, <1>4, <2>1, <3>1, <3>2 DEF ScanInv, Placed, Alive, TopForm, Inside, SameMain
      <3>4. Acknowledged(f)'
        BY <1>2, <1>4, <2>1, <3>1, <3>2 DEF ScanInv, Acknowledged, Alive, TopForm, Inside, SameMain
      <3>. QED BY <1>2, <2>1, <3>1, <3>3, <3>4, HelperMoves
    <2>. QED BY <1>2, <1>5, <2>1, <2>2, <2>3, DiesKeeps DEF Extract
  <1>6. CASE ReadAck(f)
    <2>1. CASE Dies(f)
      BY <1>2, <1>6, <2>1, DiesKeeps DEF ReadAck
    <2>2. CASE ~Dies(f)
      <3>1. walk[f].state = "wait" /\ ack[f] /\ ~ack'[f] /\ listed'[f] = listed[f] /\ message'[f] = message[f]
        BY <1>6, <2>2 DEF ReadAck, Typed, ArchiveTypeOK
      <3>2. walk'[f].at = walk[f].at + 1 /\ walk'[f].state = "walk"
        <4>1. walk' = [walk EXCEPT ![f].state = "walk", ![f].at = @ + 1, ![f].scanned = @ + 1]
          BY <1>6, <2>2 DEF ReadAck
        <4>. QED BY <1>1, <4>1 DEF Walks
      <3>3. Alive(f) => /\ message[f] = Nil /\ stage[f] \in {"unpack", "close"} /\ ~Inside(f)
                        /\ walk[f].at \in DOMAIN listed[f] /\ ~listed[f][walk[f].at].infected
        BY <3>1 DEF ScanInv, Acknowledged, Placed
      <3>4. Placed(f)'
        BY <1>2, <3>1, <3>2, <3>3 DEF ScanInv, Placed, Alive, TopForm, Inside, SameMain
      <3>5. Acknowledged(f)'
        <4>1. CASE Alive(f)
          <5>1. \A i \in DOMAIN listed[f] : i < walk[f].at + 1 => i < walk[f].at \/ i = walk[f].at
            BY <1>1, <1>3
          <5>2. /\ listed[f] = TopForm(f).entries
                /\ \A i \in DOMAIN listed[f] : i < walk[f].at + 1 => ~listed[f][i].infected
            BY <3>1, <3>3, <4>1, <5>1 DEF ScanInv, Acknowledged
          <5>. QED BY <1>2, <3>1, <3>2, <3>3, <4>1, <5>2
                   DEF Acknowledged, Alive, TopForm, Inside, SameMain
        <4>2. CASE ~Alive(f)
          BY <1>2, <4>2 DEF Acknowledged, Alive, SameMain
        <4>. QED BY <4>1, <4>2
      <3>. QED BY <1>2, <3>1, <3>2, <3>4, <3>5, HelperMoves
    <2>. QED BY <2>1, <2>2
  <1>7. CASE EndOfWalk(f)
    <2>1. CASE Dies(f)
      BY <1>2, <1>7, <2>1, DiesKeeps DEF EndOfWalk
    <2>2. CASE ~Dies(f)
      <3>1. /\ walk[f].state = "walk" /\ walk[f].at > Len(listed[f])
            /\ listed'[f] = listed[f] /\ ack'[f] = ack[f] /\ message'[f] = <<"done", walk[f].scanned>>
        BY <1>7, <2>2 DEF EndOfWalk, WalkIsOver, Typed, ArchiveTypeOK
      <3>2. walk'[f].at = walk[f].at /\ walk'[f].state = "done"
        BY <1>1, <1>7, <2>2 DEF EndOfWalk, Walks
      <3>3. Placed(f)'
        BY <1>2, <1>4, <3>1, <3>2 DEF ScanInv, Placed, Alive, TopForm, Inside, SameMain
      <3>4. Acknowledged(f)'
        BY <1>2, <1>4, <3>1, <3>2 DEF ScanInv, Acknowledged, Alive, TopForm, Inside, SameMain
      <3>. QED BY <1>2, <3>1, <3>2, <3>3, <3>4, HelperMoves
    <2>. QED BY <2>1, <2>2
  <1>. QED BY <1>5, <1>6, <1>7 DEF HelpStep, HelperStep

LEMMA TouchKeepsScan ==
  ASSUME WindowAssumption, FileAssumption, Typed, NEW f \in Files, ScanInv(f), TouchFile(f)
  PROVE  ScanInv(f)'
  <1>1. /\ stage'[f] = stage[f] /\ form'[f] = form[f] /\ passed'[f] = passed[f]
        /\ next'[f] = next[f] /\ outcome'[f] = outcome[f] /\ stage[f] # "done"
        /\ SameArchive(f) /\ thread'[f][Main] = thread[f][Main]
    BY ArchiveSame DEF TouchFile, Underway, requestVars
  <1>2. CASE Inside(f)
    <2>1. object'[f] = object[f]
      BY <1>2 DEF TouchFile
    <2>2. outer[f] \in Outers /\ outer \in [Files -> Outers \cup {None}]
      BY <1>2 DEF Inside, Typed, MainTypeOK
    <2>3. outer'[f] = [outer[f] EXCEPT !.object = [outer[f].object EXCEPT !.touched = TRUE]]
      BY <1>2, <2>2 DEF TouchFile
    <2>4. [outer[f].object EXCEPT !.touched = TRUE] \in Objects
      BY <2>2 DEF Outers, Objects
    <2>5. outer'[f] \in Outers /\ outer'[f].form = outer[f].form
          /\ outer'[f].object = [outer[f].object EXCEPT !.touched = TRUE]
      BY <2>2, <2>3, <2>4 DEF Outers
    <2>6. outer'[f] # None
      BY <2>5 DEF Outers, FileAssumption
    <2>7. outer'[f].object.touched
      BY <2>2, <2>5 DEF Outers, Objects
    <2>8. Inside(f)' /\ TopForm(f)' = TopForm(f) /\ TopObject(f)'.touched
      BY <1>2, <2>5, <2>6, <2>7 DEF Inside, TopForm, TopObject
    <2>9. Shaped(f)'
      BY <1>1, <1>2, <2>1, <2>8 DEF ScanInv, Shaped, FormOK
    <2>10. Placed(f)'
      BY <1>1, <1>2, <2>8 DEF ScanInv, Placed, Alive, SameArchive
    <2>11. Acknowledged(f)'
      BY <1>1, <1>2, <2>1, <2>8 DEF ScanInv, Acknowledged, Alive, SameArchive
    <2>12. Justified(f)'
      BY <1>1, <2>1 DEF ScanInv, Justified, Approved, AttachmentsAreDone, Bare, NoAttachment, NoEntry, Said
    <2>. QED BY <2>9, <2>10, <2>11, <2>12 DEF ScanInv
  <1>3. CASE ~Inside(f)
    <2>1. outer'[f] = outer[f]
      BY <1>3 DEF TouchFile
    <2>2. object \in [Files -> Objects]
      BY Types DEF Typed
    <2>3. object'[f].touched
      <3>1. PICK malware : object' = [object EXCEPT ![f] = [@ EXCEPT !.malware = malware, !.touched = TRUE]]
        BY <1>3 DEF TouchFile, Touch
      <3>2. object[f] \in [size : Nat, malware : Malware, touched : BOOLEAN]
        BY <2>2 DEF Objects
      <3>. QED BY <2>2, <3>1, <3>2
    <2>4. ~Inside(f)' /\ TopForm(f)' = TopForm(f) /\ TopForm(f) = form[f] /\ TopObject(f)'.touched
      BY <1>1, <1>3, <2>1, <2>3 DEF Inside, TopForm, TopObject
    <2>5. Shaped(f)'
      BY <1>1, <2>4 DEF ScanInv, Shaped, FormOK
    <2>6. Placed(f)'
      BY <1>1, <1>3, <2>4 DEF ScanInv, Placed, Alive, SameArchive
    <2>7. Acknowledged(f)'
      BY <1>1, <2>4 DEF ScanInv, Acknowledged, Alive, SameArchive
    <2>8. Justified(f)'
      BY <1>1, <2>3 DEF ScanInv, Justified, Approved, AttachmentsAreDone, Bare, NoAttachment, NoEntry, Said
    <2>. QED BY <2>5, <2>6, <2>7, <2>8 DEF ScanInv
  <1>. QED BY <1>2, <1>3

LEMMA StopKeepsScan ==
  ASSUME NEW f \in Files, ScanInv(f), StopScan(f)
  PROVE  ScanInv(f)'
  <1>1. SameScan(f)
    BY ArchiveSame DEF StopScan, Stop, SameScan, SameSight, SameMain, mainVars, requestVars
  <1>. QED BY <1>1, ScanFrame

\* A controller that clears the mount removes workspaces and nothing else.
LEMMA ClearKeepsScan ==
  ASSUME FileAssumption, NEW f \in Files, ScanInv(f), Clear
  PROVE  ScanInv(f)'
  <1>1. /\ SameSight(f) /\ SameMain(f)
        /\ walk'[f] = walk[f] /\ listed'[f] = listed[f] /\ message'[f] = message[f]
        /\ ack'[f] = ack[f] /\ locked'[f] = locked[f]
        /\ workspace'[f] = workspace[f] \/ ~workspace'[f]
    BY ScansAreFiles
       DEF Clear, StartClearing, EndClearing, SameSight, SameMain, windowVars, mainVars, requestVars
  <1>2. Shaped(f)'
    BY <1>1 DEF ScanInv, SameMain, SameSight, Shaped, FormOK, TopForm, TopObject, Inside
  <1>3. Placed(f)'
    BY <1>1 DEF ScanInv, Placed, Alive, TopForm, Inside, SameMain
  <1>4. Acknowledged(f)'
    BY <1>1 DEF ScanInv, Acknowledged, Alive, TopForm, Inside, SameMain, SameSight
  <1>5. Justified(f)'
    BY <1>1 DEF ScanInv, SameMain, SameSight, Justified, Approved, AttachmentsAreDone, Bare,
                NoAttachment, NoEntry, Said
  <1>. QED BY <1>2, <1>3, <1>4, <1>5 DEF ScanInv

\* A scan that is dead promises nothing but to be forgotten.
LEMMA CrashKeepsScan ==
  ASSUME FileAssumption, NEW f \in Files, ScanInv(f), Crash
  PROVE  ScanInv(f)'
  <1>1. /\ stage'[f] = "dead" /\ object'[f] = object[f] /\ form'[f] = form[f] /\ outer'[f] = outer[f]
        /\ walk'[f] = walk[f] /\ workspace'[f] = workspace[f]
        /\ ~locked'[f] /\ message'[f] = Nil /\ ~ack'[f]
    BY ScansAreFiles DEF Crash, Die, Orphan
  <1>2. Shaped(f)'
    BY <1>1 DEF ScanInv, Shaped, FormOK, TopForm, TopObject, Inside
  <1>3. Placed(f)' /\ Acknowledged(f)' /\ Justified(f)'
    BY <1>1 DEF ScanInv, Placed, Acknowledged, Justified, Alive
  <1>. QED BY <1>2, <1>3 DEF ScanInv

(***************************************************************************)
(* The theorems.                                                           *)
(***************************************************************************)
LEMMA FileInitInv ==
  ASSUME WindowAssumption, ArchiveAssumption, FileAssumption, FileInit
  PROVE  FileScanInv
  <1>1. WindowInv
    BY InitInv DEF FileInit
  <1>2. MemberForm \in Forms
    BY EmptySeq DEF MemberForm, Forms, Kinds
  <1>3. MainTypeOK
    BY <1>2 DEF FileInit, MainTypeOK, Stages, Results
  <1>4. NoHelper \in Walks /\ << >> \in Seq(Entries) /\ Nil \in Messages
    BY EmptySeq DEF NoHelper, Walks, Messages
  <1>5. ArchiveTypeOK /\ WorkspacesAreKept
    BY <1>4, ScansAreFiles DEF FileInit, ArchiveInit, ArchiveTypeOK, WorkspacesAreKept
  <1>6. ASSUME NEW f \in Files
        PROVE  ScanInv(f)
    <2>1. /\ stage[f] = "idle" /\ form[f] = MemberForm /\ outer[f] = None
          /\ walk[f].state = "none" /\ message[f] = Nil /\ ~ack[f] /\ ~workspace[f] /\ ~locked[f]
      BY ScansAreFiles DEF FileInit, ArchiveInit, NoHelper
    <2>2. ~Inside(f) /\ TopForm(f) = MemberForm
      BY <2>1 DEF Inside, TopForm
    <2>3. Shaped(f)
      BY <2>1, <2>2 DEF Shaped, FormOK, MemberForm
    <2>4. Placed(f) /\ Acknowledged(f) /\ Justified(f)
      BY <2>1, <2>2 DEF Placed, Acknowledged, Justified, Scanning
    <2>. QED BY <2>3, <2>4 DEF ScanInv
  <1>. QED BY <1>1, <1>3, <1>5, <1>6 DEF FileScanInv

LEMMA FileStepKeeps ==
  ASSUME WindowAssumption, ArchiveAssumption, FileAssumption, FileScanInv, [FileNext]_fileVars
  PROVE  FileScanInv'
  <1>1. Typed /\ WindowInv /\ WorkspacesAreKept /\ \A f \in Files : ScanInv(f)
    BY DEF FileScanInv, Typed, WindowInv
  <1>2. MainTypeOK' /\ ArchiveTypeOK'
    BY <1>1, TypesKept DEF Typed
  <1>3. [WindowNext]_windowVars
    BY <1>1, StepIsWindowStep DEF Typed
  <1>4. WindowInv'
    BY <1>1, <1>3, StepKeeps
  <1>5. WorkspacesAreKept'
    BY <1>1, KeepsWorkspaces DEF Typed
  <1>6. ASSUME NEW g \in Files
        PROVE  ScanInv(g)'
    <2>1. CASE UNCHANGED fileVars
      <3>1. SameScan(g)
        BY <2>1, ArchiveSame
           DEF fileVars, windowVars, requestVars, mainVars, SameScan, SameSight, SameMain
      <3>. QED BY <1>1, <3>1, ScanFrame
    <2>2. ASSUME NEW f \in Files, OwnStep(f)
          PROVE  ScanInv(g)'
      <3>1. CASE f # g
        BY <1>1, <2>2, <3>1, Others, ScanFrame
      <3>2. CASE f = g
        <4>1. CASE MainStep(g)
          BY <1>1, <4>1, MainKeepsScan
        <4>2. CASE HelpStep(g)
          BY <1>1, <4>2, HelpKeepsScan
        <4>3. CASE TouchFile(g) \/ StopScan(g)
          BY <1>1, <4>3, TouchKeepsScan, StopKeepsScan
        <4>4. ASSUME NEW w \in Workers, WorkStep(g, w)
              PROVE  ScanInv(g)'
          BY <1>1, <4>4, WorkKeepsScan
        <4>5. CASE HelperDies(g) /\ UNCHANGED <<windowVars, mainVars>>
          <5>1. SameMain(g) /\ SameSight(g)
            BY <1>1, <4>5, Sights DEF SameMain, mainVars
          <5>. QED BY <1>1, <4>5, <5>1, DiesKeeps DEF HelperDies
        <4>. QED BY <2>2, <3>2, <4>1, <4>2, <4>3, <4>4, <4>5 DEF OwnStep
      <3>. QED BY <3>1, <3>2
    <2>3. CASE Clear
      BY <1>1, <2>3, ClearKeepsScan
    <2>4. CASE Crash
      BY <1>1, <2>4, CrashKeepsScan
    <2>. QED BY <2>1, <2>2, <2>3, <2>4 DEF FileNext, OwnStep
  <1>. QED BY <1>2, <1>4, <1>5, <1>6 DEF FileScanInv

\* Between any two steps of any thread, helper or bystander, what was answered,
\* acknowledged and still has to be scanned together cover the file
\* (scan_path, scan_archive).
THEOREM FileScanInvariant == FileSpec => []FileScanInv
  <1>1. FileInit => FileScanInv
    BY WindowAssumption, ArchiveAssumption, FileAssumption, FileInitInv
  <1>2. FileScanInv /\ [FileNext]_fileVars => FileScanInv'
    BY WindowAssumption, ArchiveAssumption, FileAssumption, FileStepKeeps
  <1>. QED BY <1>1, <1>2, PTL DEF FileSpec

\* The scan of files is an implementation of the window scan: whatever it asks of
\* it, and when, was allowed (_scan_descriptor_window, _scan_large_media_descriptor).
THEOREM ScansWindows == FileSpec => WindowSpec
  <1>1. FileInit => WindowInit
    BY DEF FileInit
  <1>2. FileScanInv /\ [FileNext]_fileVars => [WindowNext]_windowVars
    BY WindowAssumption, FileAssumption, StepIsWindowStep DEF FileScanInv, WindowInv
  <1>. QED BY <1>1, <1>2, FileScanInvariant, PTL DEF FileSpec, WindowSpec

\* So no window, slot or reason is lost in it either.
THEOREM WindowsInFiles ==
  FileSpec => [](WindowsMissNothing /\ SlotsAccounted /\ CancellationIsExplained)
  BY ScansWindows, CleanMeansCovered, SlotsAreKept, CancellationExplained, PTL

\* No file is found clean that holds malware ClamD would find, in its bytes, in an
\* attachment or in a member of its archive at any depth: for any number of files,
\* workers and slots, any sizes, limits and archives, and however ClamD, the
\* helpers, the file system and the operator act meanwhile (scan_path).
THEOREM NothingMissed == FileSpec => []NothingIsMissed
  <1>1. FileScanInv => NothingIsMissed
    BY DEF FileScanInv, ScanInv, Justified, Bare, NoAttachment, NoEntry, NothingIsMissed
  <1>. QED BY <1>1, FileScanInvariant, PTL

\* A scan that is over has given back its helper, its workspace and its lock
\* (scan_archive's finally).
THEOREM NothingLeft == FileSpec => []NothingIsLeft
  <1>1. FileScanInv => NothingIsLeft
    BY DEF FileScanInv, ScanInv, Placed, Alive, Scanning, NothingIsLeft
  <1>. QED BY <1>1, FileScanInvariant, PTL

\* No controller that starts removes a workspace that a scan uses
\* (cleanup_archive_workspaces).
THEOREM WorkspacesKept == FileSpec => []WorkspacesAreKept
  BY FileScanInvariant, PTL DEF FileScanInv
=============================================================================
