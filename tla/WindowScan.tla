------------------------------ MODULE WindowScan ------------------------------
(***************************************************************************)
(* The requests the scanner client sends to ClamD, and the scan of a large *)
(* file in overlapping windows (app/scanner.py).                           *)
(*                                                                         *)
(* A file above ClamD's stream limit is sent in windows by a pool of       *)
(* worker threads; a window in which ClamD reaches a limit is split in two *)
(* and both halves are sent.  All requests of all files share one counting *)
(* semaphore.  Malware is found only in a window that contains it whole.   *)
(*                                                                         *)
(* Content is a size and the place of malware, if there is any.  Each file *)
(* has a main thread, which sends whole files by itself and starts and     *)
(* collects the workers; what it scans, and why, is FileScan.              *)
(***************************************************************************)
EXTENDS Naturals, Sequences, FiniteSets

CONSTANTS
  Files,                      \* files scanned at the same time
  Workers, Main,              \* the threads of a file
  Slots,                      \* clamd_max_inflight_requests
  Window, Overlap, Minimum,   \* the large_media_* settings, in bytes
  None

Threads == Workers \cup {Main}

\* _validate_policy_configuration refuses other settings.
ASSUME WindowAssumption ==
  /\ Window \in Nat /\ Overlap \in Nat /\ Minimum \in Nat
  /\ Overlap < Minimum /\ Minimum <= Window
  /\ Slots \in Nat \ {0}
  /\ IsFiniteSet(Files) /\ IsFiniteSet(Threads) /\ Main \notin Workers
  /\ None \notin {"clean", "infected", "failed", "interrupted", "ok", "stopped"}

VARIABLES
  object,     \* what is scanned of each file: size, malware, touched since it was opened
  stopping,   \* a stop was asked for, or the lease of the scan was lost
  free,       \* _clamd_scan_slots
  thread,     \* each thread's request: its window, the ranges it still has to send
  futures,    \* the windows of the pool: waiting, running, or how they ended
  cancelled,  \* the event that tells the workers of a file to stop
  found,      \* infection # None
  failure,    \* first_error
  result      \* how the last window scan ended

requestVars == <<free, thread>>
poolVars == <<futures, cancelled, found, failure, result>>
windowVars == <<object, stopping, requestVars, poolVars>>

(***************************************************************************)
(* The windows of a file and the halves of a window.                       *)
(***************************************************************************)
Ranges == [offset : Nat, length : Nat]
End(r) == r.offset + r.length
Step == Window - Overlap
Smaller(a, b) == IF a <= b THEN a ELSE b

\* Mutant: the last, shorter window is left out.
WholeWindows(total) ==
  {[offset |-> k * Step, length |-> Smaller(Window, total)] :
     k \in {j \in 0 .. total : j = 0 \/ j * Step + Window <= total}}

\* A window starts at every multiple of the step until one reaches the end.
WindowRanges(total) ==
  {[offset |-> k * Step, length |-> Smaller(Window, total - k * Step)] :
     k \in {j \in 0 .. total : j = 0 \/ (j - 1) * Step + Window < total}}

\* Mutant: a window may be split without getting smaller.
SplitAnyWindow(r) ==
  LET left  == (r.length + Overlap) \div 2
      right == r.offset + left - Overlap
  IN <<[offset |-> r.offset, length |-> left], [offset |-> right, length |-> End(r) - right]>>

\* Empty when a half would be shorter than the minimum.
SplitWindow(r) ==
  LET left  == (r.length + Overlap) \div 2
      right == r.offset + left - Overlap
  IN IF left < Minimum \/ End(r) - right < Minimum \/ left >= r.length \/ End(r) - right >= r.length
       THEN << >>
       ELSE <<[offset |-> r.offset, length |-> left], [offset |-> right, length |-> End(r) - right]>>

(***************************************************************************)
(* Content and the engine.                                                 *)
(***************************************************************************)
Malware == {None} \cup [from : Nat, to : Nat]

\* Malware of at most Overlap + 1 bytes; nothing is promised about longer pieces.
Places(size) ==
  {None} \cup {p \in [from : 0 .. size, to : 0 .. size] : p.from < p.to /\ p.to - p.from <= Overlap + 1}

Objects == {o \in [size : Nat, malware : Malware, touched : BOOLEAN] : o.malware \in Places(o.size)}

Holds(r, malware) == malware # None /\ r.offset <= malware.from /\ malware.to <= End(r)

Whole(f) == [offset |-> 0, length |-> object[f].size]

\* A limit is one that splitting may avoid, one that only unpacking may avoid,
\* or another; a broken answer is a lost connection, an error or a passed deadline.
Answers(r, malware) ==
  {IF Holds(r, malware) THEN "found" ELSE "ok"} \cup {"split", "unpack", "limit", "broken"}

Replies == {"ok", "found", "split", "unpack", "limit", "broken", "stopped"}

(***************************************************************************)
(* Requests.                                                               *)
(***************************************************************************)
Idle == [phase |-> "idle", window |-> None, todo |-> << >>, reply |-> None]
Asking(window, ranges) == [phase |-> "ask", window |-> window, todo |-> ranges, reply |-> None]

\* The recursion sends the left half with all its parts first.
Current(f, t) == Head(thread[f][t].todo)

WindowInit ==
  /\ object = [f \in Files |-> [size |-> 0, malware |-> None, touched |-> FALSE]]
  /\ stopping = [f \in Files |-> FALSE]
  /\ free = Slots
  /\ thread = [f \in Files |-> [t \in Threads |-> Idle]]
  /\ futures = [f \in Files |-> [w \in {} |-> "queued"]]
  /\ cancelled = [f \in Files |-> FALSE]
  /\ found = [f \in Files |-> FALSE]
  /\ failure = [f \in Files |-> None]
  /\ result = [f \in Files |-> None]

Acquire(f, t) ==
  /\ thread[f][t].phase = "ask" /\ free > 0
  /\ free' = free - 1
  /\ thread' = [thread EXCEPT ![f][t].phase = "send"]
  /\ UNCHANGED <<object, stopping, poolVars>>

\* Mutant of Answer: a request that is refused keeps its slot.
AnswerAndKeep(f, t, reply) ==
  /\ thread[f][t].phase = "send"
  /\ free' = IF reply = "split" THEN free ELSE free + 1
  /\ thread' = [thread EXCEPT ![f][t].phase = "judge", ![f][t].reply = reply]
  /\ UNCHANGED <<object, stopping, poolVars>>

\* The slot is given back however the request ends.
Answer(f, t, reply) ==
  /\ thread[f][t].phase = "send"
  /\ free' = free + 1
  /\ thread' = [thread EXCEPT ![f][t].phase = "judge", ![f][t].reply = reply]
  /\ UNCHANGED <<object, stopping, poolVars>>

\* Looked at between two blocks and while waiting for the answer.
Interrupted(f, t) == (cancelled[f] \/ stopping[f]) /\ Answer(f, t, "stopped")

\* A thread that waits for a slot looks at the same things and at its deadline.
GiveUp(f, t) ==
  /\ thread[f][t].phase = "ask" /\ free = 0
  /\ \E reply \in (IF cancelled[f] \/ stopping[f] THEN {"stopped"} ELSE {}) \cup {"broken"} :
       thread' = [thread EXCEPT ![f][t].phase = "judge", ![f][t].reply = reply]
  /\ UNCHANGED <<object, stopping, free, poolVars>>

(***************************************************************************)
(* The worker threads.                                                     *)
(***************************************************************************)
\* A future ends; its thread is free for the next one.
Finish(f, t, ending) ==
  /\ futures' = [futures EXCEPT ![f][thread[f][t].window] = ending]
  /\ thread' = [thread EXCEPT ![f][t] = Idle]

\* Every range begins with a look at the event.
Proceed(f, t, window, ranges) ==
  IF cancelled[f]
    THEN /\ futures' = [futures EXCEPT ![f][window] = "cancelled"]
         /\ thread' = [thread EXCEPT ![f][t] = Idle]
    ELSE /\ futures' = [futures EXCEPT ![f][window] = "running"]
         /\ thread' = [thread EXCEPT ![f][t] = Asking(window, ranges)]

\* The executor hands the windows out in their order.
Take(f, w) ==
  /\ thread[f][w].phase = "idle"
  /\ \E r \in DOMAIN futures[f] :
       /\ futures[f][r] = "queued"
       /\ \A s \in DOMAIN futures[f] : futures[f][s] = "queued" => r.offset <= s.offset
       /\ Proceed(f, w, r, <<r>>)
  /\ UNCHANGED <<object, stopping, free, cancelled, found, failure, result>>

\* The answer about the current range; the identity of the file is checked first.
Judge(f, w) ==
  LET current == Current(f, w)
      window  == thread[f][w].window
      rest    == Tail(thread[f][w].todo)
      reply   == thread[f][w].reply
      halves  == SplitWindow(current)
      refused == \/ reply \in {"unpack", "limit", "broken"}
                 \/ (reply = "split" /\ halves = << >>)
                 \/ object[f].touched
  IN /\ thread[f][w].phase = "judge"
     /\ cancelled' = [cancelled EXCEPT ![f] = @ \/ (reply = "found" /\ ~refused)]
     /\ IF reply = "stopped" THEN \/ /\ cancelled[f]
                                    /\ Finish(f, w, "cancelled")
                                 \/ /\ stopping[f] \/ ~cancelled[f]
                                    /\ Finish(f, w, "interrupted")
        ELSE IF refused THEN Finish(f, w, "failed")
        ELSE IF reply = "found" THEN Finish(f, w, "infected")
        ELSE IF reply = "split" THEN Proceed(f, w, window, halves \o rest)
        ELSE IF rest = << >> THEN Finish(f, w, "clean")
        ELSE Proceed(f, w, window, rest)
     /\ UNCHANGED <<object, stopping, free, found, failure, result>>

(***************************************************************************)
(* The main thread: _scan_large_media_descriptor.                          *)
(***************************************************************************)
Submit(f) ==
  /\ thread[f][Main] = Idle /\ DOMAIN futures[f] = {}
  /\ futures' = [futures EXCEPT ![f] = [r \in WindowRanges(object[f].size) |-> "queued"]]
  /\ result' = [result EXCEPT ![f] = None]
  /\ UNCHANGED <<object, stopping, requestVars, cancelled, found, failure>>

\* as_completed, in any order.
Collect(f) ==
  \E r \in DOMAIN futures[f] :
    LET ending == futures[f][r]
    IN /\ ending \in {"clean", "infected", "failed", "interrupted", "cancelled"}
       /\ futures' = [futures EXCEPT ![f][r] =
                        IF ending \in {"clean", "infected"} THEN "counted" ELSE "dropped"]
       /\ found' = [found EXCEPT ![f] = @ \/ ending = "infected"]
       /\ failure' = [failure EXCEPT ![f] =
                        IF ending \in {"failed", "interrupted"} /\ @ = None THEN ending ELSE @]
       /\ cancelled' = [cancelled EXCEPT ![f] =
                        @ \/ ending \in {"infected", "failed", "interrupted"}]
       /\ UNCHANGED <<object, stopping, requestVars, result>>

\* Mutant: cancelled siblings are looked at before the infection that cancelled them.
HastyOutcome(f) ==
  IF object[f].touched THEN "failed"
  ELSE IF \E r \in DOMAIN futures[f] : futures[f][r] # "counted" THEN "interrupted"
  ELSE IF found[f] THEN "infected"
  ELSE "clean"

Outcome(f) ==
  IF object[f].touched THEN "failed"
  ELSE IF found[f] THEN "infected"
  ELSE IF failure[f] # None THEN failure[f]
  ELSE IF \E r \in DOMAIN futures[f] : futures[f][r] # "counted" THEN "interrupted"
  ELSE "clean"

\* The executor is left when every future has been seen.
AllSeen(f) == \A r \in DOMAIN futures[f] : futures[f][r] \in {"counted", "dropped"}

Conclude(f) ==
  /\ DOMAIN futures[f] # {} /\ AllSeen(f)
  /\ result' = [result EXCEPT ![f] = Outcome(f)]
  /\ futures' = [futures EXCEPT ![f] = [w \in {} |-> "queued"]]
  /\ cancelled' = [cancelled EXCEPT ![f] = FALSE]
  /\ found' = [found EXCEPT ![f] = FALSE]
  /\ failure' = [failure EXCEPT ![f] = None]
  /\ UNCHANGED <<object, stopping, requestVars>>

\* A file that ClamD takes whole, or an attachment, is sent by the main thread.
Request(f) ==
  /\ thread[f][Main] = Idle /\ DOMAIN futures[f] = {}
  /\ thread' = [thread EXCEPT ![f][Main] = Asking(None, <<Whole(f)>>)]
  /\ result' = [result EXCEPT ![f] = None]
  /\ UNCHANGED <<object, stopping, free, futures, cancelled, found, failure>>

Return(f) ==
  /\ thread[f][Main].phase = "judge"
  /\ thread' = [thread EXCEPT ![f][Main] = Idle]
  /\ UNCHANGED <<object, stopping, free, poolVars>>

\* The main thread turns to other content.
Load(f, o) ==
  /\ thread[f][Main] = Idle /\ DOMAIN futures[f] = {}
  /\ object' = [object EXCEPT ![f] = o]
  /\ result' = [result EXCEPT ![f] = None]
  /\ UNCHANGED <<stopping, requestVars, futures, cancelled, found, failure>>

(***************************************************************************)
(* Others.                                                                 *)
(***************************************************************************)
\* The file is written, replaced or renamed; its identity is another from then on.
Touch(f, malware) ==
  /\ object' = [object EXCEPT ![f] = [@ EXCEPT !.malware = malware, !.touched = TRUE]]
  /\ UNCHANGED <<stopping, requestVars, poolVars>>

Stop(f) ==
  /\ stopping' = [stopping EXCEPT ![f] = TRUE]
  /\ UNCHANGED <<object, requestVars, poolVars>>

WorkerAnswer(f, w) ==
  /\ thread[f][w].phase = "send"
  /\ \E reply \in Answers(Current(f, w), object[f].malware) : Answer(f, w, reply)

WorkerStep(f, w) == Take(f, w) \/ Judge(f, w) \/ WorkerAnswer(f, w)
RequestStep(f, t) == Acquire(f, t) \/ Interrupted(f, t) \/ GiveUp(f, t)

\* The controller dies and nothing of a scan is left.
Die ==
  /\ free' = Slots
  /\ thread' = [f \in Files |-> [t \in Threads |-> Idle]]
  /\ futures' = [f \in Files |-> [w \in {} |-> "queued"]]
  /\ cancelled' = [f \in Files |-> FALSE]
  /\ found' = [f \in Files |-> FALSE]
  /\ failure' = [f \in Files |-> None]
  /\ result' = [f \in Files |-> None]
  /\ UNCHANGED <<object, stopping>>

WindowNext ==
  \/ Die
  \/ \E f \in Files :
      \/ \E w \in Workers : WorkerStep(f, w)
      \/ \E t \in Threads : RequestStep(f, t)
      \/ \E reply \in Replies : Answer(f, Main, reply)
      \/ Submit(f) \/ Collect(f) \/ Conclude(f) \/ Request(f) \/ Return(f)
      \/ \E o \in Objects : Load(f, o)
      \/ \E malware \in Places(object[f].size) : Touch(f, malware)
      \/ Stop(f)

WindowSpec == WindowInit /\ [][WindowNext]_windowVars

(***************************************************************************)
(* Properties.                                                             *)
(***************************************************************************)
Endings == {"clean", "infected", "failed", "interrupted", "cancelled"}
Results == {None, "clean", "infected", "failed", "interrupted"}
\* Types of the variables.
WindowTypeOK ==
  /\ object \in [Files -> Objects]
  /\ stopping \in [Files -> BOOLEAN]
  /\ free \in 0 .. Slots
  /\ thread \in [Files -> [Threads ->
                  [phase : {"idle", "ask", "send", "judge"}, window : {None} \cup Ranges,
                   todo : Seq(Ranges), reply : {None} \cup Replies]]]
  /\ futures = [f \in Files |-> futures[f]]
  /\ \A f \in Files :
       /\ futures[f] \in [DOMAIN futures[f] ->
                            {"queued", "running", "counted", "dropped"} \cup Endings]
       /\ DOMAIN futures[f] \in {{}, WindowRanges(object[f].size)}
  /\ cancelled \in [Files -> BOOLEAN]
  /\ found \in [Files -> BOOLEAN]
  /\ failure \in [Files -> {None, "failed", "interrupted"}]
  /\ result \in [Files -> Results]

\* A file whose windows were all found clean holds no malware of up to one
\* byte more than the overlap, wherever it lies and however ClamD's limits
\* made the windows split (large_media_window_ranges, split_large_media_window).
WindowsMissNothing ==
  \A f \in Files :
    result[f] = "clean" /\ ~object[f].touched => object[f].malware = None

\* The slots that are not free are held by the requests ClamD is working on:
\* no more than the limit, and none is lost when a request is refused,
\* interrupted or cancelled (_scan_descriptor_window).
SlotsAccounted ==
  free + Cardinality({p \in Files \X Threads : thread[p[1]][p[2]].phase = "send"}) = Slots

\* Cancellation is an internal matter of the pool: a scan that nobody stopped
\* never ends as interrupted (_ParallelWindowCancelled).
CancellationIsExplained ==
  \A f \in Files : result[f] = "interrupted" => stopping[f]
=============================================================================
