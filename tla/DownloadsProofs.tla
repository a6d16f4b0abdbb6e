--------------------------- MODULE DownloadsProofs ---------------------------
(***************************************************************************)
(* Proofs about Downloads: the types of its variables; that a job that     *)
(* says it is on the NAS has its torrent there; that only a complete       *)
(* download is queued for its scan.                                        *)
(***************************************************************************)
EXTENDS Downloads, WellFoundedInduction, TLAPS

(***************************************************************************)
(* Rows, and what may be written over them.                                *)
(***************************************************************************)
Fields == {"state", "bound", "actual", "complete"}
Rows == [state : States, bound : BOOLEAN, actual : {None, "local", "nas"}, complete : BOOLEAN]
IsLive(r) == r \in Rows /\ r.state \notin {"none", "removed"}

\* What a write may name, and with which values.
WellWritten(w) ==
  /\ "state" \in DOMAIN w => w["state"] \in States \ {"none", "removed"}
  /\ "bound" \in DOMAIN w => w["bound"] \in BOOLEAN
  /\ "actual" \in DOMAIN w => w["actual"] \in {"local", "nas"}
  /\ "complete" \in DOMAIN w => w["complete"] \in BOOLEAN
IsWrite(w) == DOMAIN w \subseteq Fields /\ w = [a \in DOMAIN w |-> w[a]] /\ WellWritten(w)

Values == States \cup BOOLEAN \cup {"local", "nas"}
Writes == {w \in UNION {[F -> Values] : F \in SUBSET Fields} : WellWritten(w)}

\* The set of the writes is what IsWrite says.
LEMMA WritesAre == ASSUME NEW w PROVE w \in Writes <=> IsWrite(w)
<1>1. ASSUME w \in Writes PROVE IsWrite(w)
  <2>1. PICK F \in SUBSET Fields : w \in [F -> Values] BY <1>1 DEF Writes
  <2> QED BY <1>1, <2>1 DEF Writes, IsWrite
<1>2. ASSUME IsWrite(w) PROVE w \in Writes
  <2>1. ASSUME NEW a \in DOMAIN w PROVE w[a] \in Values
    BY <1>2, <2>1 DEF IsWrite, WellWritten, Fields, Values
  <2>2. w \in [DOMAIN w -> Values] /\ DOMAIN w \in SUBSET Fields BY <1>2, <2>1 DEF IsWrite
  <2> QED BY <1>2, <2>2 DEF Writes, IsWrite
<1> QED BY <1>1, <1>2

\* What a write says.
WritesNas(w) == "actual" \in DOMAIN w /\ w["actual"] = "nas"
NamesBound(w) == "bound" \in DOMAIN w
Binds(w) == "bound" \in DOMAIN w /\ w["bound"]
Unbinds(w) == "bound" \in DOMAIN w /\ ~w["bound"]
SaysComplete(w) == \/ "complete" \in DOMAIN w /\ w["complete"]
                   \/ "state" \in DOMAIN w /\ w["state"] \in {"scan_queued", "download_complete"}

\* A write on top of another is a write, and says no more than the two.
LEMMA OverWrites ==
  ASSUME NEW v, NEW w, IsWrite(v), IsWrite(w)
  PROVE  /\ IsWrite(Over(v, w))
         /\ WritesNas(Over(v, w)) => WritesNas(v) \/ WritesNas(w)
         /\ NamesBound(Over(v, w)) => NamesBound(v) \/ NamesBound(w)
         /\ Binds(Over(v, w)) => Binds(v) \/ Binds(w)
         /\ Unbinds(Over(v, w)) => Unbinds(v) \/ Unbinds(w)
         /\ SaysComplete(Over(v, w)) => SaysComplete(v) \/ SaysComplete(w)
<1>1. /\ DOMAIN Over(v, w) = DOMAIN v \cup DOMAIN w
      /\ \A a \in DOMAIN v : Over(v, w)[a] = v[a]
      /\ \A a \in DOMAIN w \ DOMAIN v : Over(v, w)[a] = w[a]
  BY DEF Over
<1>2. IsWrite(Over(v, w)) BY DEF Over, IsWrite, WellWritten, Fields
<1>3. QED BY <1>1, <1>2 DEF WritesNas, NamesBound, Binds, Unbinds, SaysComplete

\* A write on a row of a job gives a row of a job.
LEMMA OverRow ==
  ASSUME NEW w, NEW r, IsWrite(w), IsLive(r)
  PROVE  /\ IsLive(Over(w, r))
         /\ WritesNas(Over(w, r)) => WritesNas(w) \/ WritesNas(r)
         /\ r.bound => Unbinds(w) \/ Over(w, r).bound
         /\ Over(w, r).bound => Binds(w) \/ r.bound
         /\ SaysComplete(Over(w, r)) => SaysComplete(w) \/ SaysComplete(r)
         /\ Over(w, r).state = "scan_queued" => SaysComplete(w) \/ r.state = "scan_queued"
<1>1. r = [a \in Fields |-> r[a]] /\ DOMAIN r = Fields BY DEF IsLive, Rows, Fields
<1>2. DOMAIN w \subseteq Fields BY DEF IsWrite
<1>3. Over(w, r) = [a \in Fields |-> IF a \in DOMAIN w THEN w[a] ELSE r[a]] BY <1>1, <1>2 DEF Over
<1>4. /\ Over(w, r)["state"] \in States \ {"none", "removed"}
      /\ Over(w, r)["bound"] \in BOOLEAN
      /\ Over(w, r)["actual"] \in {None, "local", "nas"}
      /\ Over(w, r)["complete"] \in BOOLEAN
  BY <1>3 DEF IsWrite, WellWritten, IsLive, Rows, Fields
<1>5. Over(w, r) = [state |-> Over(w, r)["state"], bound |-> Over(w, r)["bound"],
                    actual |-> Over(w, r)["actual"], complete |-> Over(w, r)["complete"]]
  BY <1>3 DEF Fields
<1>6. IsLive(Over(w, r)) BY <1>4, <1>5 DEF IsLive, Rows
<1>7. /\ \A a \in DOMAIN w : Over(w, r)[a] = w[a]
      /\ \A a \in Fields \ DOMAIN w : Over(w, r)[a] = r[a]
      /\ DOMAIN Over(w, r) = Fields
  BY <1>2, <1>3
<1>8. WritesNas(Over(w, r)) => WritesNas(w) \/ WritesNas(r) BY <1>1, <1>7 DEF WritesNas, Fields
<1>9. r.bound => Unbinds(w) \/ Over(w, r).bound BY <1>7 DEF Unbinds, Fields
<1>10. Over(w, r).bound => Binds(w) \/ r.bound BY <1>7 DEF Binds, Fields
<1>11. SaysComplete(Over(w, r)) => SaysComplete(w) \/ SaysComplete(r)
  BY <1>1, <1>7 DEF SaysComplete, Fields
<1>12. Over(w, r).state = "scan_queued" => SaysComplete(w) \/ r.state = "scan_queued"
  BY <1>7 DEF SaysComplete, Fields
<1> QED BY <1>6, <1>8, <1>9, <1>10, <1>11, <1>12

\* An UPDATE writes no more than the session meant to write.
LEMMA ChangedIs ==
  ASSUME NEW w, NEW r, IsWrite(w)
  PROVE  /\ IsWrite(Changed(r, w))
         /\ WritesNas(Changed(r, w)) => WritesNas(w)
         /\ NamesBound(Changed(r, w)) => NamesBound(w)
         /\ Binds(Changed(r, w)) => Binds(w)
         /\ Unbinds(Changed(r, w)) => Unbinds(w)
         /\ SaysComplete(Changed(r, w)) => SaysComplete(w)
<1>1. \A a \in DOMAIN Changed(r, w) : a \in DOMAIN w /\ Changed(r, w)[a] = w[a] BY DEF Changed
<1>2. IsWrite(Changed(r, w)) BY DEF Changed, IsWrite, WellWritten, Fields
<1> QED BY <1>1, <1>2 DEF WritesNas, NamesBound, Binds, Unbinds, SaysComplete

LEMMA EmptyWrite == IsWrite(<< >>) /\ DOMAIN << >> = {}
BY DEF IsWrite, WellWritten, Fields

Plans == {"queue", "resume", "back", "hold", "move"}

LEMMA FailedIs ==
  ASSUME NEW op
  PROVE  /\ IsWrite(Failed(op))
         /\ DOMAIN Failed(op) \cap {"bound", "actual"} = {}
         /\ Failed(op)["state"] = "error"
         /\ "complete" \in DOMAIN Failed(op) => Failed(op)["complete"] = FALSE
BY DEF Failed, IsWrite, WellWritten, Fields, States

LEMMA ForgottenIs ==
  ASSUME NEW op
  PROVE  /\ IsWrite(Forgotten(op))
         /\ DOMAIN Forgotten(op) \cap {"state", "actual"} = {}
         /\ op # "retry" => DOMAIN Forgotten(op) = {}
         /\ "bound" \in DOMAIN Forgotten(op) => Forgotten(op)["bound"] = FALSE
         /\ "complete" \in DOMAIN Forgotten(op) => Forgotten(op)["complete"] = FALSE
BY EmptyWrite DEF Forgotten, IsWrite, WellWritten, Fields, States

\* The calls of a plan write a state or the place, and say "nas" only after a move.
LEMMA CallsAre ==
  ASSUME NEW plan \in Plans \cup {"keep"}
  PROVE  /\ IsWrite(Calls(plan))
         /\ DOMAIN Calls(plan) \cap {"bound", "complete"} = {}
         /\ "state" \in DOMAIN Calls(plan) => Calls(plan)["state"] \notin {"scan_queued", "download_complete"}
         /\ ("actual" \in DOMAIN Calls(plan) /\ Calls(plan)["actual"] = "nas") => (plan = "move" /\ nas)
<1>1. CASE plan = "queue" BY <1>1 DEF Calls, IsWrite, WellWritten, Fields, States
<1>2. CASE plan \in {"resume", "back"} BY <1>2 DEF Calls, IsWrite, WellWritten, Fields, States
<1>3. CASE plan = "hold" BY <1>3 DEF Calls, IsWrite, WellWritten, Fields, States
<1>4. CASE plan = "move" BY <1>4 DEF Calls, IsWrite, WellWritten, Fields, States
<1>5. CASE plan = "keep" BY <1>5, EmptyWrite DEF Calls
<1> QED BY <1>1, <1>2, <1>3, <1>4, <1>5 DEF Plans

LEMMA MinIs ==
  ASSUME NEW S, S \subseteq Nat, S # {} PROVE Min(S) \in S
<1> DEFINE R == OpToRel(<, Nat)
<1>1. IsWellFoundedOn(R, Nat) BY NatLessThanWellFounded
<1>2. \A x, y \in Nat : <<y, x>> \in R <=> y < x BY DEF OpToRel
<1> HIDE DEF R
<1>3. PICK x \in S : \A y \in S : ~(<<y, x>> \in R) BY <1>1, WFMin
<1>4. \A y \in S : x <= y
  <2> SUFFICES ASSUME NEW y \in S PROVE x <= y OBVIOUS
  <2>1. ~(y < x) BY <1>2, <1>3
  <2> QED BY <2>1
<1>5. QED BY <1>4 DEF Min

\* A session may write what is so on the row and in what it did.
MayWrite(w, op, row, moved, seen) ==
  /\ IsWrite(w)
  /\ WritesNas(w) => moved
  /\ NamesBound(w) => op \in {"retry", "adopt"}
  /\ SaysComplete(w) => seen \/ SaysComplete(row)

\* What a session writes when its calls went well.  It says "nas" only after a move, binds the
\* job only for a retry, and speaks of a complete download only if it saw one or read of one.
LEMMA OutcomeIs ==
  ASSUME NEW op, NEW plan \in Plans \cup {"keep"}, NEW row, IsLive(row), NEW seen \in BOOLEAN
  PROVE  MayWrite(Outcome(op, plan, row, seen), op, row, plan = "move" /\ nas, seen)
<1> DEFINE calls == Calls(plan)
           state == IF "state" \in DOMAIN calls THEN calls.state
                    ELSE IF op \in {"retry", "adopt"} THEN "retrying" ELSE row.state
           done  == [state |-> QueueComplete(row, seen, state), complete |-> row.complete \/ seen]
           waits == [bound |-> TRUE, complete |-> FALSE]
           runs  == [state |-> IF seen THEN "download_complete" ELSE "downloading",
                     bound |-> TRUE, complete |-> seen]
           w     == Outcome(op, plan, row, seen)
           May(v) == MayWrite(v, op, row, plan = "move" /\ nas, seen)
<1>1. /\ IsWrite(calls) /\ ~NamesBound(calls) /\ ~SaysComplete(calls)
      /\ WritesNas(calls) => (plan = "move" /\ nas)
  BY CallsAre DEF WritesNas, NamesBound, SaysComplete
<1>2. ASSUME NEW v, IsWrite(v), ~WritesNas(v), NamesBound(v) => op \in {"retry", "adopt"},
             SaysComplete(v) => seen \/ SaysComplete(row)
      PROVE  May(Over(v, calls))
  <2>1. /\ IsWrite(Over(v, calls))
        /\ WritesNas(Over(v, calls)) => WritesNas(v) \/ WritesNas(calls)
        /\ NamesBound(Over(v, calls)) => NamesBound(v) \/ NamesBound(calls)
        /\ SaysComplete(Over(v, calls)) => SaysComplete(v) \/ SaysComplete(calls)
    BY <1>1, <1>2, OverWrites
  <2> QED BY <1>1, <1>2, <2>1 DEF MayWrite
<1>3. May(calls) BY <1>1 DEF MayWrite
<1>4. ASSUME op = "pass" PROVE May(Over(done, calls))
  <2>1. row.complete \in BOOLEAN /\ row.state \in States \ {"none", "removed"} BY DEF IsLive, Rows
  <2>2. state \in States \ {"none", "removed"} BY <1>1, <1>4, <2>1 DEF IsWrite, WellWritten
  <2>3. IsWrite(done) BY <2>1, <2>2 DEF IsWrite, WellWritten, Fields, States, QueueComplete
  <2>4. (done["complete"] => (seen \/ SaysComplete(row))) /\ DOMAIN done = {"state", "complete"}
    BY <2>1 DEF SaysComplete, IsLive, Rows
  <2>5. done["state"] \in {"scan_queued", "download_complete"} => (seen \/ SaysComplete(row))
    BY <1>1, <1>4, <2>1 DEF QueueComplete, SaysComplete, IsLive, Rows
  <2>6. ~WritesNas(done) /\ ~NamesBound(done) BY <2>4 DEF WritesNas, NamesBound
  <2>7. SaysComplete(done) => seen \/ SaysComplete(row)
    BY <2>4, <2>5 DEF SaysComplete
  <2> HIDE DEF done, calls
  <2> QED BY <1>2, <2>3, <2>6, <2>7
<1>5. ASSUME op \in {"retry", "adopt"} PROVE May(Over(waits, calls))
  <2>1. IsWrite(waits) /\ ~WritesNas(waits) /\ ~SaysComplete(waits)
    BY DEF IsWrite, WellWritten, Fields, States, WritesNas, SaysComplete
  <2> HIDE DEF waits, calls
  <2> QED BY <1>2, <1>5, <2>1
<1>6. ASSUME op \in {"retry", "adopt"} PROVE May(Over(runs, calls))
  <2>1. IsWrite(runs) /\ ~WritesNas(runs)
    BY DEF IsWrite, WellWritten, Fields, States, WritesNas
  <2>2. SaysComplete(runs) => seen BY DEF SaysComplete
  <2> HIDE DEF runs, calls
  <2> QED BY <1>2, <1>6, <2>1, <2>2
<1>7. w = calls \/ (op = "pass" /\ w = Over(done, calls))
      \/ (op \in {"retry", "adopt"} /\ (w = Over(waits, calls) \/ w = Over(runs, calls)))
  BY DEF Outcome
<1> HIDE DEF calls, done, waits, runs, w
<1>8. May(w) BY <1>3, <1>4, <1>5, <1>6, <1>7
<1> QED BY <1>8 DEF w

(***************************************************************************)
(* Sessions.                                                               *)
(***************************************************************************)
Phases == {"idle", "next", "look", "call", "commit", "requeue", "add", "resolve"}
Ops == {None, "pass", "hash", "submit", "retry", "adopt", "evaluate", "move"}
Cycles == {None, "pass", "hash"}
SessionRecs ==
  [phase : Phases, op : Ops, todo : SUBSET Jobs, job : Jobs \cup {None}, row : Rows \cup {None},
   plan : Plans \cup {None}, seen : BOOLEAN, write : Writes]

\* What a session knows in each phase.  Only a cycle has more than one job to do.
SessionOK(x) ==
  /\ IF x.phase \in {"idle", "next"} THEN x.job = None ELSE x.job \in Jobs
  /\ x.phase = "next" => x.todo # {} /\ x.op \in {"pass", "hash"}
  /\ x.op \notin {"pass", "hash"} => x.todo \subseteq {x.job}
  /\ x.phase = "look" => x.op \in {"retry", "adopt", "evaluate"}
  /\ x.phase = "call" => x.op \in {"pass", "retry", "adopt", "evaluate", "move"} /\ x.plan \in Plans
  /\ x.phase = "add" => x.op \in {"pass", "submit", "retry"}
  /\ x.phase = "resolve" => x.op \in {"pass", "hash", "submit", "retry"}
  /\ x.phase \in {"call", "add", "resolve"} => IsLive(x.row)
  /\ x.phase = "commit" /\ NamesBound(x.write) => x.op \in {"retry", "adopt"}
IsSession(x) == x \in SessionRecs /\ SessionOK(x)

TorrentRecs(t) ==
  [phase : {"absent", "added", "metadata", "known"}, on : {"on", "off", "broken"},
   left : 0 .. Size[t], place : {None, "local", "nas", "library"}, tag : {None} \cup Jobs]

\* The types, with those of the sessions.
TypeInv ==
  /\ setup \in Setups
  /\ removal \in [Torrents -> {"never", "idle", "busy"}]
  /\ job \in [Jobs -> Rows]
  /\ torrent = [t \in Torrents |-> torrent[t]] /\ \A t \in Torrents : torrent[t] \in TorrentRecs(t)
  /\ session \in [Sessions -> SessionRecs] /\ \A s \in Sessions : SessionOK(session[s])
  /\ session["manager"].op \in Cycles

(***************************************************************************)
(* The invariant.                                                          *)
(***************************************************************************)
Quiet(j) == removal[T(j)] # "busy"
Never(j) == removal[T(j)] = "never"
There(j) == torrent[T(j)].phase # "absent"
HoldsLocal(j) == There(j) /\ torrent[T(j)].tag = j /\ torrent[T(j)].place = "local"

\* A session is about to move the torrent, or to write that it did.
Moves(x) == \/ x.phase = "call" /\ x.plan = "move"
            \/ x.phase = "commit" /\ WritesNas(x.write)

\* What it is about to do takes the torrent for granted.
Relies(x) == \/ Moves(x) /\ x.op # "move"
             \/ x.phase \in {"look", "call"} /\ x.op \in {"retry", "adopt"}
             \/ x.phase = "commit" /\ Binds(x.write)

\* It saw a complete download, or read of one, and may write so.
Claims(x) == \/ x.phase = "call" /\ (x.seen \/ SaysComplete(x.row))
             \/ x.phase = "commit" /\ SaysComplete(x.write)
             \/ x.phase = "requeue"

\* What is so of a session at job j.
SessionGood(x, j) ==
  /\ job[j].state # "none"
  /\ Moves(x) /\ x.op = "move" /\ Present(j) => job[j].bound
  /\ Never(j) /\ Claims(x) => Complete(T(j))
  /\ Quiet(j) =>
       /\ x.phase = "commit" /\ WritesNas(x.write) /\ Present(j) => ~HoldsLocal(j)
       /\ Relies(x) => There(j)
       /\ x.phase = "add" /\ ~There(j) /\ x.op = "pass" => ~job[j].bound
       /\ x.phase = "add" /\ ~There(j) /\ x.row.actual = "local" => job[j].actual # "nas"

JobGood(j) ==
  /\ Never(j) /\ SaysComplete(job[j]) => Complete(T(j))
  /\ HoldsLocal(j) => job[j].state # "none"
  /\ Quiet(j) /\ HoldsLocal(j) => job[j].actual # "nas"

Good == /\ \A j \in Jobs : JobGood(j)
        /\ \A x \in {session[s] : s \in Sessions} : x.job \in Jobs => SessionGood(x, x.job)

TrackInv == TypeInv /\ Good

(***************************************************************************)
(* The records sessions are made of.                                       *)
(***************************************************************************)
LEMMA WritesTyped == \A w \in Writes : IsWrite(w)
BY WritesAre

LEMMA IdleIs == IsSession(Idle) /\ Idle.job = None /\ Idle.op = None /\ Idle.phase = "idle"
<1>1. << >> \in Writes BY EmptyWrite, WritesAre
<1>2. Idle \in SessionRecs
  BY <1>1 DEF Idle, SessionRecs, Phases, Ops
<1>3. SessionOK(Idle) BY DEF Idle, SessionOK
<1> QED BY <1>2, <1>3 DEF IsSession, Idle

\* The next job of a cycle.
LEMMA NextIs ==
  ASSUME NEW op \in {"pass", "hash"}, NEW todo, todo \subseteq Jobs, todo # {}
  PROVE  LET x == [Idle EXCEPT !.phase = "next", !.op = op, !.todo = todo]
         IN IsSession(x) /\ x.job = None /\ x.op = op
<1> DEFINE x == [Idle EXCEPT !.phase = "next", !.op = op, !.todo = todo]
<1>2. Idle \in SessionRecs BY IdleIs DEF IsSession
<1>3. x \in SessionRecs BY <1>2 DEF SessionRecs, Phases, Ops
<1>4. x.phase = "next" /\ x.op = op /\ x.todo = todo /\ x.job = None BY <1>2 DEF SessionRecs, Idle
<1> HIDE DEF x
<1>5. SessionOK(x) BY <1>4 DEF SessionOK
<1> QED BY <1>3, <1>4, <1>5 DEF IsSession, x

LEMMA RestIs ==
  ASSUME NEW x \in SessionRecs, SessionOK(x), NEW j, x.op \in {"pass", "hash"} \/ j = x.job
  PROVE  /\ IsSession(Rest(x, j)) /\ Rest(x, j).job = None
         /\ Rest(x, j).op \in {None, x.op}
<1>1. CASE x.todo \subseteq {j} BY <1>1, IdleIs DEF Rest
<1>2. CASE ~(x.todo \subseteq {j})
  <2>1. x.op \in {"pass", "hash"} BY <1>2 DEF SessionOK
  <2>2. x.todo \ {j} \subseteq Jobs /\ x.todo \ {j} # {} BY <1>2 DEF SessionRecs
  <2> DEFINE y == [Idle EXCEPT !.phase = "next", !.op = x.op, !.todo = x.todo \ {j}]
  <2>3. Rest(x, j) = y BY <1>2 DEF Rest
  <2>4. IsSession(y) /\ y.job = None /\ y.op = x.op BY <2>1, <2>2, NextIs
  <2> HIDE DEF y
  <2> QED BY <2>3, <2>4
<1> QED BY <1>1, <1>2

LEMMA OpenedIs ==
  ASSUME NEW op \in Ops, NEW j \in Jobs, NEW phase \in Phases, job[j] \in Rows
  PROVE  LET x == Opened(op, j, phase)
         IN /\ x \in SessionRecs /\ x.phase = phase /\ x.op = op /\ x.todo = {j}
            /\ x.job = j /\ x.row = job[j] /\ x.write = << >>
<1>1. Idle \in SessionRecs /\ Idle.write = << >> BY IdleIs DEF IsSession, Idle
<1> HIDE DEF Idle
<1> QED BY <1>1 DEF Opened, SessionRecs

LEMMA CommittingIs ==
  ASSUME NEW s \in Sessions, session[s].todo \subseteq Jobs,
         NEW op \in Ops, NEW j \in Jobs, NEW row, NEW write, IsWrite(write),
         op \notin {"pass", "hash"} => session[s].todo \subseteq {j},
         NamesBound(write) => op \in {"retry", "adopt"}
  PROVE  LET x == Committing(s, op, j, row, write)
         IN /\ IsSession(x) /\ x.job = j /\ x.op = op /\ x.phase = "commit"
            /\ WritesNas(x.write) => WritesNas(write)
            /\ Binds(x.write) => Binds(write)
            /\ SaysComplete(x.write) => SaysComplete(write)
<1> DEFINE w == Changed(row, write)
           x == Committing(s, op, j, row, write)
<1>1. /\ IsWrite(w) /\ (WritesNas(w) => WritesNas(write)) /\ (NamesBound(w) => NamesBound(write))
      /\ (Binds(w) => Binds(write)) /\ (SaysComplete(w) => SaysComplete(write))
  BY ChangedIs
<1>2. w \in Writes BY <1>1, WritesAre
<1>3. Idle \in SessionRecs BY IdleIs DEF IsSession
<1>4. x = [Idle EXCEPT !.phase = "commit", !.op = op, !.todo = session[s].todo, !.job = j, !.write = w]
  BY DEF Committing
<1> HIDE DEF x, w
<1>5. /\ x \in SessionRecs /\ x.job = j /\ x.op = op /\ x.phase = "commit"
      /\ x.todo = session[s].todo /\ x.write = w
  BY <1>2, <1>3, <1>4 DEF SessionRecs, Phases
<1>6. IsSession(x) BY <1>1, <1>5 DEF SessionOK, IsSession
<1> QED BY <1>1, <1>5, <1>6 DEF x

LEMMA NoneIsNoName == None \notin Jobs /\ None \notin {"nas", "retry", "adopt", "evaluate", "submit", "move"}
BY DownloadsAssumption

LEMMA TorrentOfJob ==
  ASSUME TypeInv, NEW j \in Jobs
  PROVE  T(j) \in Torrents /\ torrent[T(j)] \in TorrentRecs(T(j))
BY DownloadsAssumption DEF TypeInv, T

\* Where a session is after it looked at job j.
Looked(x, op, j) ==
  /\ IsSession(x) /\ x.op \in Cycles \cup {op}
  /\ \/ x.job = None
     \/ /\ x.phase = "call" /\ x.job = j /\ x.op = op /\ x.row = job[j]
        /\ x.seen => Complete(T(j))
     \/ /\ x.phase = "commit" /\ x.job = j /\ x.op = op
        /\ ~WritesNas(x.write) /\ (Binds(x.write) => op \in {"retry", "adopt"})
        /\ SaysComplete(x.write) => Complete(T(j)) \/ SaysComplete(job[j])

LEMMA DecideIs ==
  ASSUME TypeInv, NEW s \in Sessions, NEW op \in {"pass", "retry", "adopt", "evaluate"}, NEW j \in Jobs,
         NEW plan \in Plans \cup {"keep", "fail"}, Decide(s, op, j, plan), Present(j),
         session[s].op = op, op = "pass" \/ session[s].job = j
  PROVE  \E x : /\ session' = [session EXCEPT ![s] = x] /\ Looked(x, op, j)
                /\ x.phase = "call" => plan \notin {"keep", "fail"}
<1> DEFINE seen == Complete(T(j))
           write == IF plan = "fail" THEN Failed(op) ELSE Outcome(op, plan, job[j], seen)
           here == session[s]
<1>1. /\ here \in SessionRecs /\ SessionOK(here) /\ here.todo \subseteq Jobs
      /\ job[j] \in Rows /\ IsLive(job[j]) /\ seen \in BOOLEAN
  BY DEF TypeInv, SessionRecs, Present, IsLive, Complete
<1>2. op \notin {"pass", "hash"} => here.todo \subseteq {j} BY <1>1 DEF SessionOK
<1>3. CASE plan = "fail" /\ op = "adopt"
  <2>1. session' = [session EXCEPT ![s] = Idle] BY <1>3 DEF Decide, Set
  <2> QED BY <2>1, IdleIs DEF Looked, Cycles
<1>4. CASE plan \notin {"fail", "keep"}
  <2> DEFINE x == [here EXCEPT !.phase = "call", !.op = op, !.job = j, !.row = job[j],
                               !.plan = plan, !.seen = seen]
  <2>1. session' = [session EXCEPT ![s] = x] BY <1>4 DEF Decide, Set
  <2>2. /\ x \in SessionRecs /\ x.phase = "call" /\ x.op = op /\ x.job = j /\ x.row = job[j]
        /\ x.plan = plan /\ x.seen = seen /\ x.todo = here.todo
    BY <1>1, <1>4 DEF SessionRecs, Phases, Ops
  <2> HIDE DEF x, seen
  <2>3. SessionOK(x) BY <1>1, <1>2, <1>4, <2>2 DEF SessionOK
  <2>4. Looked(x, op, j) BY <2>2, <2>3 DEF Looked, IsSession, seen
  <2> QED BY <1>4, <2>1, <2>4
<1>5. ASSUME plan \in {"fail", "keep"}, ~(plan = "fail" /\ op = "adopt")
      PROVE  /\ IsWrite(write) /\ ~WritesNas(write) /\ (NamesBound(write) => op \in {"retry", "adopt"})
             /\ SaysComplete(write) => seen \/ SaysComplete(job[j])
  <2>1. CASE plan = "fail"
    <3>1. write = Failed(op) BY <2>1
    <3>2. /\ IsWrite(Failed(op)) /\ DOMAIN Failed(op) \cap {"bound", "actual"} = {}
          /\ Failed(op)["state"] = "error"
          /\ "complete" \in DOMAIN Failed(op) => Failed(op)["complete"] = FALSE
      BY FailedIs
    <3> HIDE DEF write
    <3> QED BY <3>1, <3>2 DEF WritesNas, NamesBound, SaysComplete
  <2>2. CASE plan = "keep"
    <3>1. write = Outcome(op, plan, job[j], seen) BY <2>2
    <3> HIDE DEF write, seen
    <3>2. MayWrite(write, op, job[j], plan = "move" /\ nas, seen) BY <1>1, <2>2, <3>1, OutcomeIs
    <3> QED BY <2>2, <3>2 DEF MayWrite
  <2> QED BY <1>5, <2>1, <2>2
<1>6. CASE plan \in {"fail", "keep"} /\ ~(plan = "fail" /\ op = "adopt") /\ Changed(job[j], write) = << >>
  <2>1. session' = [session EXCEPT ![s] = Rest(here, j)] BY <1>6 DEF Decide, Set
  <2>2. IsSession(Rest(here, j)) /\ Rest(here, j).job = None /\ Rest(here, j).op \in {None, op}
    BY <1>1, RestIs
  <2>3. Looked(Rest(here, j), op, j) BY <2>2 DEF Looked, Cycles
  <2>4. Rest(here, j).phase # "call" BY <2>2, DownloadsAssumption DEF IsSession, SessionOK
  <2> QED BY <2>1, <2>3, <2>4
<1>7. CASE plan \in {"fail", "keep"} /\ ~(plan = "fail" /\ op = "adopt") /\ Changed(job[j], write) # << >>
  <2> DEFINE x == Committing(s, op, j, job[j], write)
  <2>1. session' = [session EXCEPT ![s] = x] BY <1>7 DEF Decide, Set
  <2>2. op \in Ops BY DEF Ops
  <2> HIDE DEF write, seen
  <2>3. /\ IsSession(x) /\ x.job = j /\ x.op = op /\ x.phase = "commit"
        /\ WritesNas(x.write) => WritesNas(write)
        /\ Binds(x.write) => Binds(write)
        /\ SaysComplete(x.write) => SaysComplete(write)
    BY <1>1, <1>2, <1>5, <1>7, <2>2, CommittingIs
  <2> HIDE DEF x
  <2>4. Looked(x, op, j) BY <1>5, <1>7, <2>3 DEF Looked, Binds, NamesBound, seen
  <2> QED BY <2>1, <2>3, <2>4
<1> QED BY <1>3, <1>4, <1>6, <1>7

(***************************************************************************)
(* Steps of a session that change nothing but the session.                 *)
(***************************************************************************)
LEMMA SessionMoves ==
  ASSUME TrackInv, NEW s \in Sessions, NEW x, session' = [session EXCEPT ![s] = x],
         UNCHANGED <<setup, job, torrent, removal>>, IsSession(x), s = "manager" => x.op \in Cycles,
         x.job \in Jobs => SessionGood(x, x.job)
  PROVE  TrackInv'
<1>1. TypeInv' BY DEF TrackInv, TypeInv, IsSession, Sessions
<1>2. \A z \in Sessions : session'[z] = IF z = s THEN x ELSE session[z]
  BY DEF TrackInv, TypeInv
<1>3. \A j \in Jobs : JobGood(j)'
  BY DEF TrackInv, Good, JobGood, Never, Quiet, HoldsLocal, There, Complete, T
<1>4. ASSUME NEW z \in {session'[r] : r \in Sessions}, z.job \in Jobs
      PROVE  SessionGood(z, z.job)'
  <2>1. SessionGood(z, z.job) BY <1>2, <1>4 DEF TrackInv, Good
  <2> QED BY <2>1 DEF SessionGood, Never, Quiet, HoldsLocal, There, Complete, T, Present
<1> QED BY <1>1, <1>3, <1>4 DEF TrackInv, Good

LEMMA LookedGood ==
  ASSUME TrackInv, NEW op \in {"pass", "retry", "adopt", "evaluate"}, NEW j \in Jobs, NEW x,
         Looked(x, op, j), Present(j),
         op \in {"retry", "adopt"} /\ Quiet(j) => There(j),
         op \in {"pass", "evaluate"} /\ x.phase = "call" => There(j)
  PROVE  IsSession(x) /\ x.op \in Cycles \cup {op} /\ (x.job \in Jobs => SessionGood(x, x.job))
<1>1. SaysComplete(job[j]) /\ Never(j) => Complete(T(j)) BY DEF TrackInv, Good, JobGood
<1>2. job[j].state # "none" BY DEF Present
<1>3. None \notin Jobs BY DownloadsAssumption
<1>4. CASE x.job = None BY <1>3, <1>4 DEF Looked
<1>5. CASE x.phase = "call" /\ x.job = j /\ x.op = op /\ x.row = job[j] /\ (x.seen => Complete(T(j)))
  BY <1>1, <1>2, <1>5 DEF Looked, SessionGood, Moves, Relies, Claims
<1>6. CASE /\ x.phase = "commit" /\ x.job = j /\ x.op = op
           /\ ~WritesNas(x.write) /\ (Binds(x.write) => op \in {"retry", "adopt"})
           /\ SaysComplete(x.write) => Complete(T(j)) \/ SaysComplete(job[j])
  BY <1>1, <1>2, <1>6 DEF Looked, SessionGood, Moves, Relies, Claims
<1> QED BY <1>4, <1>5, <1>6 DEF Looked

\* What is planned is a plan; a pass calls only for a torrent that is there.
LEMMA PolicyIs == ASSUME NEW j, NEW state PROVE Policy(j, state) \in Plans \cup {"keep", "fail"}
BY DEF Policy, Plans

LEMMA PassPlanIs ==
  ASSUME NEW j
  PROVE  /\ PassPlan(j) \in Plans \cup {"keep", "fail"}
         /\ PassPlan(j) \notin {"keep", "fail"} => There(j)
BY PolicyIs DEF PassPlan, Plans, Listed, There

LEMMA TakeNextKeeps ==
  ASSUME TrackInv, NEW s \in Sessions, TakeNext(s)
  PROVE  TrackInv'
<1> DEFINE here == session[s]
           j    == Min(here.todo)
<1>1. /\ here \in SessionRecs /\ SessionOK(here) /\ here.phase = "next" /\ here.todo # {}
      /\ here.todo \subseteq Jobs /\ here.op \in {"pass", "hash"}
  BY DEF TakeNext, TrackInv, TypeInv, SessionRecs, SessionOK
<1>2. Jobs \subseteq Nat BY DownloadsAssumption
<1>3. here.todo \subseteq Nat BY <1>1, <1>2
<1>4. j \in Jobs BY <1>1, <1>3, MinIs
<1>5. job[j] \in Rows BY <1>4 DEF TrackInv, TypeInv
<1>6. UNCHANGED <<setup, job, torrent, removal>> BY DEF TakeNext, world
<1> DEFINE x == [here EXCEPT !.job = j, !.row = job[j]]
           y(phase) == [x EXCEPT !.phase = phase]
<1>7. \/ ~Present(j) /\ Set(s, Idle)
      \/ Present(j) /\ here.op = "hash" /\ Set(s, y("resolve"))
      \/ Set(s, Rest(here, j))
      \/ /\ Present(j) /\ here.op = "pass" /\ ~job[j].bound
         /\ \E phase \in {"add", "resolve"} : Set(s, y(phase))
      \/ Present(j) /\ here.op = "pass" /\ Decide(s, "pass", j, PassPlan(j))
  BY <1>1 DEF TakeNext
<1>8. ASSUME NEW phase \in {"add", "resolve"}, Present(j), Set(s, y(phase)),
             phase = "add" => ~job[j].bound, here.op = "pass" \/ phase = "resolve"
      PROVE  TrackInv'
  <2> DEFINE z == y(phase)
  <2>1. /\ z \in SessionRecs /\ z.phase = phase /\ z.op = here.op /\ z.job = j /\ z.row = job[j]
    BY <1>1, <1>4, <1>5 DEF SessionRecs, Phases
  <2>2. IsLive(z.row) BY <1>5, <1>8, <2>1 DEF IsLive, Present
  <2> HIDE DEF z
  <2>3. SessionOK(z) BY <1>1, <1>4, <1>8, <2>1, <2>2 DEF SessionOK
  <2>4. SessionGood(z, j)
    BY <1>8, <2>1 DEF SessionGood, Moves, Relies, Claims, Present
  <2>5. session' = [session EXCEPT ![s] = z] BY <1>8 DEF Set, z
  <2>6. IsSession(z) /\ z.op \in Cycles BY <1>1, <2>1, <2>3 DEF IsSession, Cycles
  <2> QED BY <1>6, <2>1, <2>4, <2>5, <2>6, SessionMoves
<1>9. CASE Set(s, Idle)
  BY <1>6, <1>9, IdleIs, SessionMoves, DownloadsAssumption DEF Set, Cycles
<1>10. CASE Set(s, Rest(here, j))
  <2>1. /\ IsSession(Rest(here, j)) /\ Rest(here, j).job = None /\ Rest(here, j).op \in {None, here.op}
    BY <1>1, RestIs
  <2>2. session' = [session EXCEPT ![s] = Rest(here, j)] BY <1>10 DEF Set
  <2>3. Rest(here, j).op \in Cycles /\ Rest(here, j).job \notin Jobs
    BY <1>1, <2>1, DownloadsAssumption DEF Cycles
  <2> HIDE DEF here, j
  <2> QED BY <1>6, <2>1, <2>2, <2>3, SessionMoves
<1>11. CASE Present(j) /\ here.op = "pass" /\ Decide(s, "pass", j, PassPlan(j))
  <2> HIDE DEF j
  <2>1. PassPlan(j) \in Plans \cup {"keep", "fail"} /\ (PassPlan(j) \notin {"keep", "fail"} => There(j))
    BY PassPlanIs
  <2>2. PICK z : /\ session' = [session EXCEPT ![s] = z] /\ Looked(z, "pass", j)
                 /\ z.phase = "call" => PassPlan(j) \notin {"keep", "fail"}
    BY <1>4, <1>11, <2>1, DecideIs DEF TrackInv
  <2>3. IsSession(z) /\ z.op \in Cycles \cup {"pass"} /\ (z.job \in Jobs => SessionGood(z, z.job))
    BY <1>4, <1>11, <2>1, <2>2, LookedGood
  <2> QED BY <1>6, <2>2, <2>3, SessionMoves DEF Cycles
<1> QED BY <1>7, <1>8, <1>9, <1>10, <1>11

LEMMA LookKeeps ==
  ASSUME TrackInv, NEW s \in Sessions, Look(s)
  PROVE  TrackInv'
<1> DEFINE here == session[s]
           j    == here.job
           op   == here.op
           plan == CASE op = "evaluate" -> Policy(j, job[j].state)
                     [] op = "retry" -> RetryPlan(j)
                     [] op = "adopt" -> IF torrent[T(j)].on = "broken" THEN "fail" ELSE Policy(j, "retrying")
<1>1. /\ here \in SessionRecs /\ SessionOK(here) /\ here.phase = "look"
      /\ j \in Jobs /\ op \in {"retry", "adopt", "evaluate"}
  BY DEF Look, TrackInv, TypeInv, SessionOK
<1>2. UNCHANGED <<setup, job, torrent, removal>> BY DEF Look, world
<1>3. plan \in Plans \cup {"keep", "fail"}
  BY <1>1, PolicyIs DEF RetryPlan
<1>4. Set(s, Idle) \/ (Present(j) /\ (op = "evaluate" => Listed(T(j))) /\ Decide(s, op, j, plan))
  BY DEF Look
<1> HIDE DEF plan
<1>5. CASE Set(s, Idle)
  BY <1>2, <1>5, IdleIs, SessionMoves, DownloadsAssumption DEF Set, Cycles
<1>6. CASE Present(j) /\ (op = "evaluate" => Listed(T(j))) /\ Decide(s, op, j, plan)
  <2>1. s # "manager" BY <1>1, NoneIsNoName DEF TrackInv, TypeInv, Cycles
  <2>2. SessionGood(here, j) BY <1>1 DEF TrackInv, Good
  <2>3. op \in {"retry", "adopt"} /\ Quiet(j) => There(j) BY <1>1, <2>2 DEF SessionGood, Relies
  <2>4. op = "evaluate" => There(j) BY <1>6 DEF Listed, There
  <2> HIDE DEF here, j, op
  <2>5. session[s].op = op /\ session[s].job = j BY DEF here, j, op
  <2>6. PICK z : session' = [session EXCEPT ![s] = z] /\ Looked(z, op, j)
    BY <1>1, <1>3, <1>6, <2>5, DecideIs DEF TrackInv
  <2>7. IsSession(z) /\ (z.job \in Jobs => SessionGood(z, z.job))
    BY <1>1, <1>6, <2>3, <2>4, <2>6, LookedGood
  <2> QED BY <1>2, <2>1, <2>6, <2>7, SessionMoves
<1> QED BY <1>4, <1>5, <1>6

LEMMA BeginKeeps ==
  ASSUME TrackInv, BeginPass \/ BeginHashCycle
  PROVE  TrackInv'
<1>1. UNCHANGED <<setup, job, torrent, removal>> BY DEF BeginPass, BeginHashCycle, world
<1>2. PICK op \in {"pass", "hash"}, todo \in SUBSET Jobs :
        todo # {} /\ session' = [session EXCEPT !["manager"] = [Idle EXCEPT !.phase = "next", !.op = op, !.todo = todo]]
  <2>1. CASE BeginPass
    <3> DEFINE todo == {j \in Jobs : Nonterminal(j)}
    <3>1. todo \in SUBSET Jobs /\ todo # {} BY <2>1 DEF BeginPass
    <3>2. session' = [session EXCEPT !["manager"] = [Idle EXCEPT !.phase = "next", !.op = "pass", !.todo = todo]]
      BY <2>1 DEF BeginPass, Set
    <3> HIDE DEF todo
    <3> QED BY <3>1, <3>2
  <2>2. CASE BeginHashCycle
    <3> DEFINE todo == {j \in Jobs : job[j].state = "waiting_for_qbt_hash"}
    <3>1. todo \in SUBSET Jobs /\ todo # {} BY <2>2 DEF BeginHashCycle
    <3>2. session' = [session EXCEPT !["manager"] = [Idle EXCEPT !.phase = "next", !.op = "hash", !.todo = todo]]
      BY <2>2 DEF BeginHashCycle, Set
    <3> HIDE DEF todo
    <3> QED BY <3>1, <3>2
  <2> QED BY <2>1, <2>2
<1> DEFINE x == [Idle EXCEPT !.phase = "next", !.op = op, !.todo = todo]
<1>3. IsSession(x) /\ x.job = None /\ x.op = op BY <1>2, NextIs
<1>4. session' = [session EXCEPT !["manager"] = x] BY <1>2
<1> HIDE DEF x
<1> QED BY <1>1, <1>3, <1>4, SessionMoves, DownloadsAssumption DEF Sessions, Cycles

LEMMA CrashKeeps ==
  ASSUME TrackInv, Crash
  PROVE  TrackInv'
<1>1. UNCHANGED <<setup, job, torrent, removal>> /\ session' = [s \in Sessions |-> Idle] BY DEF Crash
<1>2. TypeInv' BY <1>1, IdleIs DEF TrackInv, TypeInv, IsSession, Cycles, Sessions
<1>3. \A j \in Jobs : JobGood(j)'
  BY <1>1 DEF TrackInv, Good, JobGood, Never, Quiet, HoldsLocal, There, Complete, T
<1>4. \A s \in Sessions : session'[s].job \notin Jobs BY <1>1, IdleIs, DownloadsAssumption
<1> QED BY <1>2, <1>3, <1>4 DEF TrackInv, Good

LEMMA RetryKeeps ==
  ASSUME TrackInv, NEW s \in Sessions, NEW j \in Jobs, Retry(s, j)
  PROVE  TrackInv'
<1> DEFINE phase == IF Listed(T(j)) THEN "look" ELSE "add"
           x == Opened("retry", j, phase)
<1>1. /\ UNCHANGED <<setup, job, torrent, removal>> /\ job[j].state = "error" /\ s # "manager"
      /\ session' = [session EXCEPT ![s] = x]
  BY DEF Retry, Free, Set
<1>2. job[j] \in Rows /\ phase \in Phases /\ "retry" \in Ops BY DEF TrackInv, TypeInv, Phases, Ops
<1>3. phase \in {"look", "add"} /\ (phase = "look" => There(j)) BY DEF Listed, There
<1> HIDE DEF phase
<1>4. /\ x \in SessionRecs /\ x.phase = phase /\ x.op = "retry" /\ x.todo = {j}
      /\ x.job = j /\ x.row = job[j] /\ x.write = << >>
  BY <1>2, OpenedIs
<1> HIDE DEF x
<1>5. SessionOK(x) BY <1>1, <1>2, <1>3, <1>4 DEF SessionOK, IsLive
<1>6. SessionGood(x, j)
  BY <1>1, <1>3, <1>4 DEF SessionGood, Moves, Relies, Claims
<1> QED BY <1>1, <1>4, <1>5, <1>6, SessionMoves DEF IsSession

LEMMA MoveToNasKeeps ==
  ASSUME TrackInv, NEW s \in Sessions, NEW j \in Jobs, MoveToNas(s, j)
  PROVE  TrackInv'
<1> DEFINE y == Opened("move", j, "call")
           x == [y EXCEPT !.plan = "move"]
<1>1. /\ UNCHANGED <<setup, job, torrent, removal>> /\ job[j].state \in Waiting /\ job[j].bound
      /\ s # "manager" /\ session' = [session EXCEPT ![s] = x]
  BY DEF MoveToNas, Free, Set
<1>2. job[j] \in Rows /\ "call" \in Phases /\ "move" \in Ops BY DEF TrackInv, TypeInv, Phases, Ops
<1>3. /\ y \in SessionRecs /\ y.phase = "call" /\ y.op = "move" /\ y.todo = {j}
      /\ y.job = j /\ y.row = job[j] /\ y.write = << >> /\ y.seen = FALSE
  BY <1>2, OpenedIs DEF Opened, Idle
<1> HIDE DEF y
<1>4. /\ x \in SessionRecs /\ x.phase = "call" /\ x.op = "move" /\ x.todo = {j} /\ x.plan = "move"
      /\ x.job = j /\ x.row = job[j] /\ x.seen = FALSE
  BY <1>3 DEF SessionRecs, Plans
<1> HIDE DEF x
<1>5. SessionOK(x) BY <1>1, <1>2, <1>4 DEF SessionOK, IsLive, Waiting, Plans
<1>6. SaysComplete(job[j]) /\ Never(j) => Complete(T(j)) BY DEF TrackInv, Good, JobGood
<1>7. SessionGood(x, j)
  BY <1>1, <1>4, <1>6 DEF SessionGood, Moves, Relies, Claims, Waiting
<1> QED BY <1>1, <1>4, <1>5, <1>7, SessionMoves DEF IsSession

(***************************************************************************)
(* What a step of somebody else leaves a session.                          *)
(***************************************************************************)
\* The step changes the job and its torrent only so far.
Spares(x, j) ==
  /\ setup' = setup
  /\ (Quiet(j)' => Quiet(j)) /\ (Never(j)' => Never(j))
  /\ job'[j].state # "none" /\ (Present(j)' => Present(j))
  /\ Quiet(j)' /\ There(j) => There(j)'
  /\ Never(j)' /\ Complete(T(j)) => Complete(T(j))'
  /\ x.op = "move" /\ Present(j)' /\ job[j].bound => job'[j].bound
  /\ Quiet(j)' /\ HoldsLocal(j)' /\ ~HoldsLocal(j) =>
       ~There(j) /\ ~(x.op = "move" /\ Present(j) /\ job[j].bound)
  /\ Quiet(j)' /\ x.phase = "add" /\ ~There(j)' /\ x.op = "pass" /\ job'[j].bound => job[j].bound
  /\ Quiet(j)' /\ x.phase = "add" /\ ~There(j)' /\ job'[j].actual = "nas" => job[j].actual = "nas"

LEMMA Bystander ==
  ASSUME NEW x, NEW j \in Jobs, SessionGood(x, j), Spares(x, j)
  PROVE  SessionGood(x, j)'
<1>1. job'[j].state # "none" BY DEF Spares
<1>2. (Moves(x) /\ x.op = "move" /\ Present(j) => job[j].bound)' BY DEF Spares, SessionGood, Moves
<1>3. (Never(j) /\ Claims(x) => Complete(T(j)))' BY DEF Spares, SessionGood, Claims
<1>4. ASSUME Quiet(j)' PROVE (x.phase = "commit" /\ WritesNas(x.write) /\ Present(j) => ~HoldsLocal(j))'
  <2> SUFFICES ASSUME x.phase = "commit", WritesNas(x.write), Present(j)', HoldsLocal(j)' PROVE FALSE
    BY DEF WritesNas
  <2>1. Present(j) /\ Quiet(j) BY <1>4 DEF Spares
  <2>2. ~HoldsLocal(j) BY <2>1 DEF SessionGood
  <2>3. ~There(j) /\ ~(x.op = "move" /\ job[j].bound) BY <1>4, <2>1, <2>2 DEF Spares
  <2>4. x.op = "move" BY <2>1, <2>3 DEF SessionGood, Relies, Moves
  <2>5. job[j].bound BY <2>1, <2>4 DEF SessionGood, Moves
  <2> QED BY <2>3, <2>4, <2>5
<1>5. ASSUME Quiet(j)' PROVE (Relies(x) => There(j))'
  BY <1>5 DEF Spares, SessionGood, Relies, Moves
<1>6. ASSUME Quiet(j)' PROVE (x.phase = "add" /\ ~There(j) /\ x.op = "pass" => ~job[j].bound)'
  BY <1>6 DEF Spares, SessionGood
<1>7. ASSUME Quiet(j)'
      PROVE  (x.phase = "add" /\ ~There(j) /\ x.row.actual = "local" => job[j].actual # "nas")'
  BY <1>7 DEF Spares, SessionGood
<1> HIDE DEF Quiet, There, HoldsLocal, Present, Relies, Moves, Claims, Never
<1> QED BY <1>1, <1>2, <1>3, <1>4, <1>5, <1>6, <1>7 DEF SessionGood

(***************************************************************************)
(* Steps of a torrent.                                                     *)
(***************************************************************************)
\* It stays as it was added, and goes only to the NAS or the library.
Gentle(t, y) ==
  /\ y \in TorrentRecs(t)
  /\ (y.phase = "absent") = (torrent[t].phase = "absent")
  /\ y.tag = torrent[t].tag /\ (y.place = "local" => torrent[t].place = "local")
  /\ Complete(t) => y.phase = "known" /\ y.left = 0

\* No torrent goes, comes or comes back to local staging, and what is complete stays so.
Calm ==
  \A j \in Jobs :
    /\ T(j)' = T(j) /\ Quiet(j)' = Quiet(j) /\ Never(j)' = Never(j) /\ There(j)' = There(j)
    /\ HoldsLocal(j)' => HoldsLocal(j)
    /\ Complete(T(j)) => Complete(T(j))'

LEMMA SameIsCalm == ASSUME UNCHANGED <<setup, torrent, removal>> PROVE Calm
BY DEF Calm, T, Quiet, Never, There, HoldsLocal, Complete

LEMMA GentleIsCalm ==
  ASSUME TypeInv, NEW t \in Torrents, NEW y, Gentle(t, y), torrent' = [torrent EXCEPT ![t] = y],
         UNCHANGED <<setup, removal>>
  PROVE  /\ torrent' = [u \in Torrents |-> torrent'[u]] /\ \A u \in Torrents : torrent'[u] \in TorrentRecs(u)
         /\ Calm
<1>1. /\ torrent = [u \in Torrents |-> torrent[u]]
      /\ \A u \in Torrents : torrent[u] \in TorrentRecs(u)
  BY DEF TypeInv
<1>2. \A u \in Torrents : torrent'[u] = IF u = t THEN y ELSE torrent[u] BY <1>1
<1>3. torrent' = [u \in Torrents |-> torrent'[u]] BY <1>1
<1>4. \A u \in Torrents : torrent'[u] \in TorrentRecs(u) BY <1>1, <1>2 DEF Gentle
<1>5. ASSUME NEW j \in Jobs
      PROVE  /\ T(j)' = T(j) /\ Quiet(j)' = Quiet(j) /\ Never(j)' = Never(j) /\ There(j)' = There(j)
             /\ HoldsLocal(j)' => HoldsLocal(j)
             /\ Complete(T(j)) => Complete(T(j))'
  <2>1. T(j) \in Torrents /\ T(j)' = T(j) BY TorrentOfJob DEF T
  <2>2. Quiet(j)' = Quiet(j) /\ Never(j)' = Never(j) BY <2>1 DEF Quiet, Never
  <2>3. There(j)' = There(j) BY <1>2, <2>1 DEF There, Gentle
  <2>4. HoldsLocal(j)' => HoldsLocal(j) BY <1>2, <2>1, <2>3 DEF HoldsLocal, Gentle
  <2>5. Complete(T(j)) => Complete(T(j))' BY <1>2, <2>1 DEF Complete, Gentle
  <2> QED BY <2>1, <2>2, <2>3, <2>4, <2>5
<1> QED BY <1>3, <1>4, <1>5 DEF Calm

LEMMA CalmKeeps ==
  ASSUME TrackInv, Calm, UNCHANGED <<setup, job>>
  PROVE  /\ \A j \in Jobs : JobGood(j)'
         /\ \A x : \A j \in Jobs : SessionGood(x, j) => SessionGood(x, j)'
<1>1. ASSUME NEW j \in Jobs PROVE JobGood(j)'
  <2>1. JobGood(j) BY DEF TrackInv, Good
  <2> HIDE DEF Quiet, Never, There, HoldsLocal, Complete, T
  <2> QED BY <2>1 DEF JobGood, Calm
<1>2. ASSUME NEW j \in Jobs, NEW x, SessionGood(x, j) PROVE SessionGood(x, j)'
  <2>1. job'[j].state # "none" BY <1>2 DEF SessionGood
  <2>2. Present(j)' = Present(j) BY DEF Present
  <2> HIDE DEF Quiet, Never, There, HoldsLocal, Complete, T, Present
  <2>3. Spares(x, j) BY <2>1, <2>2 DEF Spares, Calm
  <2> QED BY <1>2, <2>3, Bystander
<1> QED BY <1>1, <1>2

\* A torrent moves and the sessions do not.
LEMMA TorrentKeeps ==
  ASSUME TrackInv, NEW t \in Torrents, NEW y, Gentle(t, y), torrent' = [torrent EXCEPT ![t] = y],
         UNCHANGED <<setup, job, removal, session>>
  PROVE  TrackInv'
<1>1. /\ torrent' = [u \in Torrents |-> torrent'[u]] /\ \A u \in Torrents : torrent'[u] \in TorrentRecs(u)
      /\ Calm
  BY GentleIsCalm DEF TrackInv
<1>2. ASSUME NEW x \in {session'[s] : s \in Sessions}, x.job \in Jobs
      PROVE  SessionGood(x, x.job)'
  <2>1. SessionGood(x, x.job) BY <1>2 DEF TrackInv, Good
  <2> QED BY <1>1, <1>2, <2>1, CalmKeeps
<1>3. TypeInv' BY <1>1 DEF TrackInv, TypeInv
<1>4. \A j \in Jobs : JobGood(j)' BY <1>1, CalmKeeps
<1> QED BY <1>2, <1>3, <1>4 DEF TrackInv, Good

LEMMA TorrentStepKeeps ==
  ASSUME TrackInv, NEW t \in Torrents, List(t) \/ ReadMetadata(t) \/ Download(t) \/ Repair(t)
  PROVE  TrackInv'
<1>1. torrent[t] \in TorrentRecs(t) /\ Size[t] \in Nat BY DownloadsAssumption DEF TrackInv, TypeInv
<1>2. CASE List(t)
  <2> DEFINE y == [torrent[t] EXCEPT !.phase = "metadata"]
  <2>1. torrent' = [torrent EXCEPT ![t] = y] /\ UNCHANGED <<setup, job, removal, session>>
    BY <1>2 DEF List, Becomes, world
  <2>2. Gentle(t, y) BY <1>1, <1>2 DEF List, Gentle, TorrentRecs, Complete
  <2> HIDE DEF y
  <2> QED BY <2>1, <2>2, TorrentKeeps
<1>3. CASE ReadMetadata(t)
  <2> DEFINE y == [torrent[t] EXCEPT !.phase = "known"]
  <2>1. torrent' = [torrent EXCEPT ![t] = y] /\ UNCHANGED <<setup, job, removal, session>>
    BY <1>3 DEF ReadMetadata, Becomes, world
  <2>2. Gentle(t, y) BY <1>1, <1>3 DEF ReadMetadata, Gentle, TorrentRecs, Complete
  <2> HIDE DEF y
  <2> QED BY <2>1, <2>2, TorrentKeeps
<1>4. CASE Download(t)
  <2> DEFINE y == IF torrent[t].place = "local" /\ FreeBytes = 0
                    THEN [torrent[t] EXCEPT !.on = "broken"] ELSE [torrent[t] EXCEPT !.left = @ - 1]
  <2>1. torrent' = [torrent EXCEPT ![t] = y] /\ UNCHANGED <<setup, job, removal, session>>
    BY <1>4 DEF Download, Becomes, world
  <2>2. torrent[t].phase = "known" /\ torrent[t].left > 0 BY <1>4 DEF Download
  <2>3. Gentle(t, y) BY <1>1, <2>2 DEF Gentle, TorrentRecs, Complete
  <2> HIDE DEF y
  <2> QED BY <2>1, <2>3, TorrentKeeps
<1>5. CASE Repair(t)
  <2> DEFINE y == Resumed(torrent[t])
  <2>1. torrent' = [torrent EXCEPT ![t] = y] /\ UNCHANGED <<setup, job, removal, session>>
    BY <1>5 DEF Repair, Becomes
  <2>2. Gentle(t, y) BY <1>1 DEF Resumed, Gentle, TorrentRecs, Complete
  <2> HIDE DEF y
  <2> QED BY <2>1, <2>2, TorrentKeeps
<1> QED BY <1>2, <1>3, <1>4, <1>5

\* Nothing the invariant speaks of changes.
LEMMA StutterKeeps ==
  ASSUME TrackInv, UNCHANGED <<setup, job, torrent, session, removal>>
  PROVE  TrackInv'
<1>1. TypeInv' BY DEF TrackInv, TypeInv
<1>2. \A j \in Jobs : JobGood(j)'
  BY DEF TrackInv, Good, JobGood, Never, Quiet, HoldsLocal, There, Complete, T
<1>3. ASSUME NEW z \in {session'[r] : r \in Sessions}, z.job \in Jobs
      PROVE  SessionGood(z, z.job)'
  <2>1. SessionGood(z, z.job) BY <1>3 DEF TrackInv, Good
  <2> QED BY <2>1 DEF SessionGood, Never, Quiet, HoldsLocal, There, Complete, T, Present
<1> QED BY <1>1, <1>2, <1>3 DEF TrackInv, Good

\* A torrent that is removed under a session's hands is marked as such.
LEMMA TroubleKeeps ==
  ASSUME TrackInv, Trouble
  PROVE  TrackInv'
<1>1. PICK t \in Torrents :
        /\ Listed(t)
        /\ \/ /\ Becomes(t, Absent)
              /\ removal' = [removal EXCEPT ![t] = IF InUse(t) \/ @ = "busy" THEN "busy" ELSE "idle"]
           \/ Becomes(t, [torrent[t] EXCEPT !.on = "broken"]) /\ UNCHANGED removal
  BY DEF Trouble
<1>2. UNCHANGED <<setup, job, session>> BY DEF Trouble
<1>3. torrent[t] \in TorrentRecs(t) /\ Size[t] \in Nat BY DownloadsAssumption DEF TrackInv, TypeInv
<1>4. CASE Becomes(t, [torrent[t] EXCEPT !.on = "broken"]) /\ UNCHANGED removal
  <2> DEFINE y == [torrent[t] EXCEPT !.on = "broken"]
  <2>1. torrent' = [torrent EXCEPT ![t] = y] BY <1>4 DEF Becomes
  <2>2. Gentle(t, y) BY <1>3 DEF Gentle, TorrentRecs, Complete
  <2> HIDE DEF y
  <2> QED BY <1>2, <1>4, <2>1, <2>2, TorrentKeeps
<1>5. CASE /\ Becomes(t, Absent)
           /\ removal' = [removal EXCEPT ![t] = IF InUse(t) \/ @ = "busy" THEN "busy" ELSE "idle"]
  <2>1. /\ torrent = [u \in Torrents |-> torrent[u]]
        /\ \A u \in Torrents : torrent[u] \in TorrentRecs(u)
        /\ removal \in [Torrents -> {"never", "idle", "busy"}]
    BY DEF TrackInv, TypeInv
  <2>2. \A u \in Torrents : torrent'[u] = IF u = t THEN Absent ELSE torrent[u] BY <1>5, <2>1 DEF Becomes
  <2>3. \A u \in Torrents : removal'[u] = IF u = t THEN (IF InUse(t) \/ removal[t] = "busy" THEN "busy" ELSE "idle")
                                                   ELSE removal[u]
    BY <1>5, <2>1
  <2>4. removal' \in [Torrents -> {"never", "idle", "busy"}] BY <1>5, <2>1
  <2>5. Absent \in TorrentRecs(t) /\ Absent.phase = "absent" BY <1>3 DEF Absent, TorrentRecs
  <2>6. torrent' = [u \in Torrents |-> torrent'[u]] /\ \A u \in Torrents : torrent'[u] \in TorrentRecs(u)
    BY <1>5, <2>1, <2>2, <2>5 DEF Becomes
  <2>7. TypeInv' BY <1>2, <2>4, <2>6 DEF TrackInv, TypeInv
  <2>8. ASSUME NEW j \in Jobs
        PROVE  /\ T(j) \in Torrents /\ T(j)' = T(j) /\ job'[j] = job[j]
               /\ (Quiet(j)' => Quiet(j)) /\ (Never(j)' => Never(j) /\ T(j) # t)
               /\ HoldsLocal(j)' => HoldsLocal(j)
               /\ T(j) # t => There(j)' = There(j) /\ Complete(T(j))' = Complete(T(j))
               /\ (T(j) = t /\ \E s \in Sessions : session[s].job = j) => ~Quiet(j)'
    <3>1. T(j) \in Torrents /\ T(j)' = T(j) /\ job'[j] = job[j] BY <1>2, TorrentOfJob DEF TrackInv, T
    <3>2. (Quiet(j)' => Quiet(j)) /\ (Never(j)' => Never(j) /\ T(j) # t)
      BY <2>3, <3>1 DEF Quiet, Never
    <3>3. HoldsLocal(j)' => HoldsLocal(j) BY <1>2, <2>2, <2>5, <3>1 DEF HoldsLocal, There
    <3>4. T(j) # t => There(j)' = There(j) /\ Complete(T(j))' = Complete(T(j))
      BY <2>2, <3>1 DEF There, Complete
    <3>5. (T(j) = t /\ \E s \in Sessions : session[s].job = j) => ~Quiet(j)'
      <4>1. (T(j) = t /\ \E s \in Sessions : session[s].job = j) => InUse(t)
        BY NoneIsNoName DEF InUse
      <4> QED BY <2>3, <3>1, <4>1 DEF Quiet
    <3> QED BY <3>1, <3>2, <3>3, <3>4, <3>5
  <2>9. ASSUME NEW j \in Jobs PROVE JobGood(j)'
    <3>1. JobGood(j) BY DEF TrackInv, Good
    <3> HIDE DEF Quiet, Never, There, HoldsLocal, Complete, T
    <3> QED BY <2>8, <3>1 DEF JobGood
  <2>10. ASSUME NEW x \in {session'[r] : r \in Sessions}, x.job \in Jobs
         PROVE  SessionGood(x, x.job)'
    <3> DEFINE j == x.job
    <3>1. SessionGood(x, j) /\ \E s \in Sessions : session[s].job = j BY <1>2, <2>10 DEF TrackInv, Good
    <3>2. T(j) = t => ~Quiet(j)' BY <2>8, <2>10, <3>1
    <3>3. job'[j].state # "none" /\ (Present(j)' => Present(j)) BY <2>8, <2>10, <3>1 DEF SessionGood, Present
    <3>4. Spares(x, j) BY <1>2, <2>8, <2>10, <3>2, <3>3 DEF Spares
    <3> QED BY <2>10, <3>1, <3>4, Bystander
  <2> QED BY <2>7, <2>9, <2>10 DEF TrackInv, Good
<1> QED BY <1>1, <1>4, <1>5

(***************************************************************************)
(* Steps that write a row.                                                 *)
(***************************************************************************)
\* The row r may take the place of job i's next to a session x at it.
RowSpares(x, i, r) ==
  /\ r.state \notin {"none", "removed"} => Present(i)
  /\ x.op = "move" /\ r.state # "removed" /\ job[i].bound => r.bound
  /\ Quiet(i) /\ x.phase = "add" /\ ~There(i) /\ x.op = "pass" /\ r.bound => job[i].bound
  /\ Quiet(i) /\ x.phase = "add" /\ ~There(i) /\ r.actual = "nas" => job[i].actual = "nas"

RowMay(i, r) ==
  /\ r \in Rows /\ r.state # "none"
  /\ Never(i) /\ SaysComplete(r) => Complete(T(i))
  /\ Quiet(i) /\ HoldsLocal(i) => r.actual # "nas"

\* Every session is spared, or good after the step.
LEMMA RowKeeps ==
  ASSUME TrackInv, Calm, UNCHANGED setup, TypeInv', NEW i \in Jobs, NEW r, RowMay(i, r),
         job' = [job EXCEPT ![i] = r],
         \A z \in Sessions : \A x : x = session'[z] /\ x.job \in Jobs =>
            SessionGood(x, x.job)' \/ (x = session[z] /\ (x.job = i => RowSpares(x, i, r)))
  PROVE  TrackInv'
<1>1. \A j \in Jobs : job'[j] = IF j = i THEN r ELSE job[j] BY DEF TrackInv, TypeInv
<1>2. ASSUME NEW j \in Jobs PROVE JobGood(j)'
  <2>1. JobGood(j) BY DEF TrackInv, Good
  <2> HIDE DEF Quiet, Never, There, HoldsLocal, Complete, T
  <2> QED BY <1>1, <2>1 DEF JobGood, Calm, RowMay
<1>3. ASSUME NEW z \in Sessions, NEW x, x = session'[z], x.job \in Jobs
      PROVE  SessionGood(x, x.job)'
  <2> DEFINE j == x.job
  <2> SUFFICES ASSUME x = session[z], j = i => RowSpares(x, i, r) PROVE SessionGood(x, j)' BY <1>3
  <2>1. SessionGood(x, j) BY <1>3 DEF TrackInv, Good
  <2>2. job[j].state # "none" BY <2>1 DEF SessionGood
  <2>3. job'[j].state # "none" BY <1>1, <1>3, <2>2 DEF RowMay
  <2> HIDE DEF j, Quiet, Never, There, HoldsLocal, Complete, T
  <2>4. j \in Jobs BY <1>3 DEF j
  <2>5. CASE j # i
    <3>1. job'[j] = job[j] BY <1>1, <2>4, <2>5
    <3>2. Present(j)' = Present(j) BY <3>1 DEF Present
    <3>3. Spares(x, j) BY <2>3, <2>4, <3>1, <3>2 DEF Spares, Calm
    <3> QED BY <2>1, <2>4, <3>3, Bystander
  <2>6. CASE j = i
    <3>1. job'[j] = r BY <1>1, <2>4, <2>6
    <3>2. Present(j)' => r.state # "removed" BY <3>1 DEF Present
    <3>3. Present(j)' => Present(j) BY <2>6, <3>1 DEF Present, RowSpares
    <3>4. Spares(x, j) BY <2>3, <2>4, <2>6, <3>1, <3>2, <3>3 DEF Spares, Calm, RowSpares
    <3> QED BY <2>1, <2>4, <3>4, Bystander
  <2> QED BY <2>5, <2>6
<1>4. ASSUME NEW x \in {session'[z] : z \in Sessions}, x.job \in Jobs PROVE SessionGood(x, x.job)'
  BY <1>3, <1>4
<1> QED BY <1>2, <1>4 DEF TrackInv, Good

LEMMA RemovedRow ==
  LET r == [Blank EXCEPT !.state = "removed"]
  IN r \in Rows /\ r.state = "removed" /\ r.bound = FALSE /\ r.actual = None /\ ~SaysComplete(r)
BY DEF Blank, Rows, States, SaysComplete

LEMMA DeleteKeeps ==
  ASSUME TrackInv, NEW i \in Jobs, Delete(i)
  PROVE  TrackInv'
<1> DEFINE r == [Blank EXCEPT !.state = "removed"]
<1>1. UNCHANGED <<setup, torrent, session, removal>> /\ job' = [job EXCEPT ![i] = r] BY DEF Delete
<1>2. r \in Rows /\ r.state = "removed" /\ r.bound = FALSE /\ r.actual = None /\ ~SaysComplete(r)
  BY RemovedRow
<1> HIDE DEF r
<1>3. Calm BY <1>1, SameIsCalm
<1>4. TypeInv' BY <1>1, <1>2 DEF TrackInv, TypeInv
<1>5. RowMay(i, r) BY <1>2, NoneIsNoName DEF RowMay
<1>6. ASSUME NEW z \in Sessions, NEW x, x = session'[z], x.job \in Jobs
      PROVE  x = session[z] /\ (x.job = i => RowSpares(x, i, r))
  BY <1>1, <1>2, <1>6, NoneIsNoName DEF RowSpares
<1> QED BY <1>1, <1>3, <1>4, <1>5, <1>6, RowKeeps

LEMMA FinishKeeps ==
  ASSUME TrackInv, NEW i \in Jobs, Finish(i)
  PROVE  TrackInv'
<1> DEFINE r == [job[i] EXCEPT !.state = "done"]
           t == T(i)
           y == [torrent[t] EXCEPT !.place = "library"]
<1>1. UNCHANGED <<setup, session, removal>> /\ job' = [job EXCEPT ![i] = r] /\ job[i].state = "scan_queued"
  BY DEF Finish, world, ScanStates
<1>2. /\ job[i] \in Rows /\ JobGood(i) /\ t \in Torrents /\ torrent[t] \in TorrentRecs(t)
  BY TorrentOfJob DEF TrackInv, TypeInv, Good
<1>3. /\ r \in Rows /\ r.state = "done" /\ r.bound = job[i].bound /\ r.actual = job[i].actual
      /\ r.complete = job[i].complete
  BY <1>2 DEF Rows, States
<1>4. SaysComplete(r) => SaysComplete(job[i]) BY <1>2, <1>3 DEF SaysComplete, Rows
<1>5. Calm /\ torrent' = [u \in Torrents |-> torrent'[u]] /\ \A u \in Torrents : torrent'[u] \in TorrentRecs(u)
  <2>1. CASE UNCHANGED torrent BY <1>1, <2>1, SameIsCalm DEF TrackInv, TypeInv
  <2>2. CASE torrent' = [torrent EXCEPT ![t] = y]
    <3>1. Gentle(t, y) BY <1>2 DEF Gentle, TorrentRecs, Complete
    <3> HIDE DEF y, t
    <3> QED BY <1>1, <1>2, <2>2, <3>1, GentleIsCalm DEF TrackInv
  <2> QED BY <2>1, <2>2 DEF Finish, Becomes
<1> HIDE DEF r
<1>6. TypeInv' BY <1>1, <1>3, <1>5 DEF TrackInv, TypeInv
<1>7. RowMay(i, r) BY <1>2, <1>3, <1>4 DEF RowMay, JobGood
<1>8. ASSUME NEW z \in Sessions, NEW x, x = session'[z], x.job \in Jobs
      PROVE  x = session[z] /\ (x.job = i => RowSpares(x, i, r))
  BY <1>1, <1>3, <1>8 DEF RowSpares, Present
<1> QED BY <1>1, <1>5, <1>6, <1>7, <1>8, RowKeeps

LEMMA RequeueKeeps ==
  ASSUME TrackInv, NEW s \in Sessions, Requeue(s)
  PROVE  TrackInv'
<1> DEFINE i == session[s].job
           r == [job[i] EXCEPT !.state = "scan_queued"]
<1>1. UNCHANGED <<setup, torrent, removal>> /\ session' = [session EXCEPT ![s] = Idle]
  BY DEF Requeue, world, Set
<1>2. IsSession(Idle) /\ Idle.job \notin Jobs /\ Idle.op \in Cycles
  BY IdleIs, NoneIsNoName DEF Cycles
<1>3. i \in Jobs /\ session[s].phase = "requeue" BY DEF Requeue, TrackInv, TypeInv, SessionOK
<1>4. CASE job[i].state # "download_complete"
  <2>1. UNCHANGED job BY <1>4 DEF Requeue
  <2> QED BY <1>1, <1>2, <2>1, SessionMoves
<1>5. CASE job[i].state = "download_complete"
  <2>1. job' = [job EXCEPT ![i] = r] BY <1>5 DEF Requeue
  <2>2. job[i] \in Rows /\ JobGood(i) /\ SessionGood(session[s], i)
    BY <1>3 DEF TrackInv, TypeInv, Good
  <2>3. /\ r \in Rows /\ r.state = "scan_queued" /\ r.bound = job[i].bound /\ r.actual = job[i].actual
    BY <2>2 DEF Rows, States
  <2>4. Never(i) => Complete(T(i)) BY <1>3, <2>2 DEF SessionGood, Claims
  <2> HIDE DEF r, i
  <2>5. TypeInv' BY <1>1, <1>2, <2>1, <2>3 DEF TrackInv, TypeInv, IsSession, Sessions
  <2>6. RowMay(i, r) BY <2>2, <2>3, <2>4 DEF RowMay, JobGood
  <2>7. ASSUME NEW z \in Sessions, NEW x, x = session'[z], x.job \in Jobs
        PROVE  x = session[z] /\ (x.job = i => RowSpares(x, i, r))
    <3>1. x = session[z] BY <1>1, <1>2, <2>7 DEF TrackInv, TypeInv
    <3>2. x.job = i => RowSpares(x, i, r) BY <1>5, <2>3 DEF RowSpares, Present
    <3> QED BY <3>1, <3>2
  <2>8. Calm BY <1>1, SameIsCalm
  <2> QED BY <1>1, <1>3, <2>1, <2>5, <2>6, <2>7, <2>8, RowKeeps
<1> QED BY <1>4, <1>5

LEMMA EventKeeps ==
  ASSUME TrackInv, NEW s \in Sessions, NEW i \in Jobs, Event(s, i)
  PROVE  TrackInv'
<1> DEFINE r == [job[i] EXCEPT !.state = "completion_event_received", !.bound = TRUE]
           y == [Idle EXCEPT !.phase = "next", !.op = "pass", !.todo = {i}]
<1>1. /\ UNCHANGED <<setup, torrent, removal>> /\ session' = [session EXCEPT ![s] = y]
      /\ Present(i) /\ There(i) /\ Complete(T(i)) /\ s # "manager"
  BY DEF Event, Set, Nonterminal, Tagged, Listed, There, Free
<1>2. job[i] \in Rows /\ JobGood(i) /\ job \in [Jobs -> Rows] BY DEF TrackInv, TypeInv, Good
<1>3. job' = [job EXCEPT ![i] = r] BY <1>2 DEF Event, Rows
<1>4. IsSession(y) /\ y.job = None /\ y.op = "pass" BY NextIs
<1>5. /\ r \in Rows /\ r.state = "completion_event_received" /\ r.bound = TRUE /\ r.actual = job[i].actual
  BY <1>2 DEF Rows, States
<1> HIDE DEF r, y
<1>6. TypeInv' BY <1>1, <1>3, <1>4, <1>5 DEF TrackInv, TypeInv, IsSession, Sessions, Cycles
<1>7. RowMay(i, r) BY <1>1, <1>2, <1>5 DEF RowMay, JobGood
<1>8. ASSUME NEW z \in Sessions, NEW x, x = session'[z], x.job \in Jobs
      PROVE  x = session[z] /\ (x.job = i => RowSpares(x, i, r))
  <2>1. x = session[z] BY <1>1, <1>4, <1>8, NoneIsNoName DEF TrackInv, TypeInv
  <2>2. RowSpares(x, i, r) BY <1>1, <1>5 DEF RowSpares
  <2> QED BY <2>1, <2>2
<1>9. Calm BY <1>1, SameIsCalm
<1> QED BY <1>1, <1>3, <1>6, <1>7, <1>8, <1>9, RowKeeps

LEMMA SubmitKeeps ==
  ASSUME TrackInv, NEW s \in Sessions, NEW i \in Jobs, Submit(s, i)
  PROVE  TrackInv'
<1> DEFINE r == [Blank EXCEPT !.state = "adding_to_qbt", !.actual = setup.prefers[i]]
           o == Opened("submit", i, "add")
           y == [o EXCEPT !.row = job'[i]]
<1>1. /\ UNCHANGED <<setup, torrent, removal>> /\ job' = [job EXCEPT ![i] = r]
      /\ session' = [session EXCEPT ![s] = y] /\ job[i].state = "none" /\ s # "manager"
  BY DEF Submit, world, Set, Free
<1>2. setup.prefers[i] \in {"local", "nas"} BY DownloadsAssumption DEF TrackInv, TypeInv
<1>3. job[i] \in Rows /\ JobGood(i) /\ job \in [Jobs -> Rows] BY DEF TrackInv, TypeInv, Good
<1>4. /\ r \in Rows /\ r.state = "adding_to_qbt" /\ r.bound = FALSE /\ ~SaysComplete(r) /\ IsLive(r)
  BY <1>2 DEF Blank, Rows, States, SaysComplete, IsLive
<1>5. job'[i] = r BY <1>1, <1>3
<1>6. /\ o \in SessionRecs /\ o.phase = "add" /\ o.op = "submit" /\ o.todo = {i} /\ o.job = i /\ o.write = << >>
  BY <1>3, OpenedIs DEF Ops, Phases
<1> HIDE DEF r, o
<1>7. /\ y \in SessionRecs /\ y.phase = "add" /\ y.op = "submit" /\ y.todo = {i} /\ y.job = i /\ y.row = r
  BY <1>4, <1>5, <1>6 DEF SessionRecs
<1> HIDE DEF y
<1>8. SessionOK(y) BY <1>4, <1>7 DEF SessionOK
<1>9. TypeInv' BY <1>1, <1>4, <1>7, <1>8 DEF TrackInv, TypeInv, Sessions
<1>10. RowMay(i, r) BY <1>1, <1>3, <1>4 DEF RowMay, JobGood
<1>11. Calm BY <1>1, SameIsCalm
<1>12. ASSUME NEW z \in Sessions, NEW x, x = session'[z], x.job \in Jobs
       PROVE  SessionGood(x, x.job)' \/ (x = session[z] /\ (x.job = i => RowSpares(x, i, r)))
  <2>1. CASE z = s
    <3>1. x = y BY <1>1, <2>1, <1>12 DEF TrackInv, TypeInv
    <3>2. SessionGood(x, i)'
      BY <1>4, <1>5, <1>7, <3>1 DEF SessionGood, Moves, Relies, Claims
    <3> QED BY <1>7, <3>1, <3>2
  <2>2. CASE z # s
    <3>1. x = session[z] BY <1>1, <2>2, <1>12 DEF TrackInv, TypeInv
    <3>2. SessionGood(x, x.job) BY <1>12, <3>1 DEF TrackInv, Good
    <3>3. x.job # i BY <1>1, <3>2 DEF SessionGood
    <3> QED BY <3>1, <3>3
  <2> QED BY <2>1, <2>2
<1> QED BY <1>1, <1>9, <1>10, <1>11, <1>12, RowKeeps

(***************************************************************************)
(* Calls and commits.                                                      *)
(***************************************************************************)
LEMMA StagesAre ==
  ASSUME TypeInv, NEW t \in Torrents, NEW plan \in Plans
  PROVE  LET stages == Stages(torrent[t], plan)
         IN /\ \A k \in DOMAIN stages : Gentle(t, stages[k])
            /\ Gentle(t, stages[Len(stages)])
            /\ plan = "move" /\ nas => stages[Len(stages)].phase = "absent" \/ stages[Len(stages)].place = "nas"
<1> DEFINE x == torrent[t]
           stages == Stages(x, plan)
<1>1. x \in TorrentRecs(t) BY DEF TypeInv
<1>2. /\ Gentle(t, x) /\ Gentle(t, Paused(x)) /\ Gentle(t, Resumed(x)) /\ Gentle(t, Relocated(Paused(x)))
      /\ Gentle(t, Resumed(Relocated(x))) /\ Resumed(Relocated(x)).place = "nas"
  BY <1>1 DEF Gentle, TorrentRecs, Paused, Resumed, Relocated, Complete
<1>3. \/ stages = <<x>> /\ x.phase = "absent"
      \/ stages = <<x, Paused(x)>> /\ ~(plan = "move" /\ nas)
      \/ stages = <<x, Resumed(x)>> /\ ~(plan = "move" /\ nas)
      \/ stages = <<x, Paused(x), Relocated(Paused(x)), Resumed(Relocated(x))>>
  BY DEF Stages, Plans
<1> DEFINE Goal == /\ \A k \in DOMAIN stages : Gentle(t, stages[k])
                   /\ Gentle(t, stages[Len(stages)])
                   /\ plan = "move" /\ nas => \/ stages[Len(stages)].phase = "absent"
                                              \/ stages[Len(stages)].place = "nas"
<1> HIDE DEF stages, x
<1>4. ASSUME stages = <<x>>, x.phase = "absent" PROVE Goal BY <1>2, <1>4 DEF x
<1>5. ASSUME stages = <<x, Paused(x)>>, ~(plan = "move" /\ nas) PROVE Goal BY <1>2, <1>5
<1>6. ASSUME stages = <<x, Resumed(x)>>, ~(plan = "move" /\ nas) PROVE Goal BY <1>2, <1>6
<1>7. ASSUME stages = <<x, Paused(x), Relocated(Paused(x)), Resumed(Relocated(x))>> PROVE Goal
  BY <1>2, <1>7
<1>8. Goal BY <1>3, <1>4, <1>5, <1>6, <1>7
<1> QED BY <1>8 DEF stages, x

\* A session goes on; its torrent may have moved.
LEMMA CalmStep ==
  ASSUME TrackInv, Calm, UNCHANGED <<setup, job>>, TypeInv', NEW s \in Sessions, NEW x,
         session' = [session EXCEPT ![s] = x], x.job \in Jobs => SessionGood(x, x.job)'
  PROVE  TrackInv'
<1>1. \A j \in Jobs : JobGood(j)' BY CalmKeeps
<1>2. ASSUME NEW z \in {session'[r] : r \in Sessions}, z.job \in Jobs PROVE SessionGood(z, z.job)'
  <2>1. z = x \/ z \in {session[r] : r \in Sessions} BY <1>2 DEF TrackInv, TypeInv
  <2>2. CASE z = x BY <1>2, <2>2
  <2>3. CASE z \in {session[r] : r \in Sessions}
    <3>1. SessionGood(z, z.job) BY <1>2, <2>3 DEF TrackInv, Good
    <3> QED BY <1>2, <3>1, CalmKeeps
  <2> QED BY <2>1, <2>2, <2>3
<1> QED BY <1>1, <1>2 DEF TrackInv, Good

LEMMA CallKeeps ==
  ASSUME TrackInv, NEW s \in Sessions, Call(s)
  PROVE  TrackInv'
<1>0. PICK here : here = session[s] OBVIOUS
<1> DEFINE j == here.job
           t == T(j)
           stages == Stages(torrent[t], here.plan)
           x(write) == Committing(s, here.op, j, here.row, write)
<1>1. /\ here \in SessionRecs /\ SessionOK(here) /\ here.phase = "call" /\ here.todo \subseteq Jobs
      /\ j \in Jobs /\ IsLive(here.row) /\ here.plan \in Plans /\ here.seen \in BOOLEAN
      /\ here.op \in {"pass", "retry", "adopt", "evaluate", "move"}
      /\ here.op \notin {"pass", "hash"} => here.todo \subseteq {j}
      /\ s = "manager" => here.op \in Cycles
  BY <1>0 DEF Call, TrackInv, TypeInv, SessionOK, SessionRecs
<1>2. UNCHANGED <<setup, job, removal>> BY DEF Call
<1>3. t \in Torrents /\ torrent[t] \in TorrentRecs(t) BY <1>1, TorrentOfJob DEF TrackInv
<1>4. SessionGood(here, j) BY <1>0, <1>1 DEF TrackInv, Good
<1>4a. PICK good : good = Outcome(here.op, here.plan, here.row, here.seen) OBVIOUS
<1>5. \/ /\ torrent' = [torrent EXCEPT ![t] = stages[Len(stages)]]
         /\ session' = [session EXCEPT ![s] = x(good)]
      \/ /\ \E k \in DOMAIN stages : torrent' = [torrent EXCEPT ![t] = stages[k]]
         /\ session' = [session EXCEPT ![s] = IF here.op = "adopt" THEN Idle ELSE x(Failed(here.op))]
  BY <1>0, <1>4a DEF Call, Set
<1>6. /\ \A k \in DOMAIN stages : Gentle(t, stages[k])
      /\ Gentle(t, stages[Len(stages)])
      /\ here.plan = "move" /\ nas => stages[Len(stages)].phase = "absent" \/ stages[Len(stages)].place = "nas"
  BY <1>1, <1>3, StagesAre DEF TrackInv
<1> HIDE DEF stages
<1>7. PICK y : Gentle(t, y) /\ torrent' = [torrent EXCEPT ![t] = y] BY <1>5, <1>6
<1>8. Calm /\ torrent' = [u \in Torrents |-> torrent'[u]] /\ \A u \in Torrents : torrent'[u] \in TorrentRecs(u)
  BY <1>2, <1>3, <1>7, GentleIsCalm DEF TrackInv
<1>9. ASSUME NEW z, IsSession(z), z.op \in {None, here.op}, session' = [session EXCEPT ![s] = z],
             z.job \in Jobs => SessionGood(z, z.job)'
      PROVE  TrackInv'
  <2>1. TypeInv' BY <1>1, <1>2, <1>8, <1>9 DEF TrackInv, TypeInv, IsSession, Sessions, Cycles
  <2> QED BY <1>2, <1>8, <1>9, <2>1, CalmStep
<1>10. ASSUME NEW write, IsWrite(write), NamesBound(write) => here.op \in {"retry", "adopt"},
              session' = [session EXCEPT ![s] = x(write)],
              WritesNas(write) => here.plan = "move" /\ ~HoldsLocal(j)',
              SaysComplete(write) => here.seen \/ SaysComplete(here.row)
       PROVE  TrackInv'
  <2>0. PICK z : z = x(write) OBVIOUS
  <2>1. here.op \in Ops BY <1>1 DEF SessionRecs
  <2>2. /\ IsSession(z) /\ z.job = j /\ z.op = here.op /\ z.phase = "commit"
        /\ WritesNas(z.write) => WritesNas(write)
        /\ Binds(z.write) => Binds(write)
        /\ SaysComplete(z.write) => SaysComplete(write)
    BY <1>0, <1>1, <1>10, <2>0, <2>1, CommittingIs
  <2>3. /\ Moves(z) => Moves(here)
        /\ Relies(z) => Relies(here)
        /\ Claims(z) => Claims(here)
    BY <1>1, <1>10, <2>2 DEF Moves, Relies, Claims, Binds, NamesBound
  <2>4. Present(j)' = Present(j) /\ job'[j] = job[j] BY <1>2 DEF Present
  <2>5. SessionGood(z, j)'
    <3> HIDE DEF j, t
    <3>0. j = here.job BY DEF j
    <3>1. (Never(j) /\ Claims(z) => Complete(T(j)))'
      <4>1. Claims(z)' => Claims(z) BY DEF Claims, SaysComplete
      <4>2. Never(j)' /\ Claims(z) => Complete(T(j))' BY <1>1, <1>4, <1>8, <2>3 DEF SessionGood, Calm
      <4> QED BY <4>1, <4>2
    <3>2. (Moves(z) /\ z.op = "move" /\ Present(j) => job[j].bound)'
      <4>1. Moves(z)' => Moves(z) BY DEF Moves, WritesNas
      <4> QED BY <1>4, <2>2, <2>3, <2>4, <4>1 DEF SessionGood
    <3>3. (Quiet(j) => (z.phase = "commit" /\ WritesNas(z.write) /\ Present(j) => ~HoldsLocal(j)))'
      <4>1. WritesNas(z.write)' => WritesNas(z.write) BY DEF WritesNas
      <4> QED BY <1>10, <2>2, <4>1
    <3>4. (Quiet(j) => (Relies(z) => There(j)))'
      <4>1. Relies(z)' => Relies(z) BY DEF Relies, Moves, WritesNas, Binds
      <4> QED BY <1>1, <1>4, <1>8, <2>3, <4>1 DEF SessionGood, Calm
    <3>5. job'[j].state # "none" BY <1>4, <2>4 DEF SessionGood
    <3> QED BY <2>2, <3>1, <3>2, <3>3, <3>4, <3>5 DEF SessionGood
  <2> QED BY <1>9, <1>10, <2>0, <2>2, <2>5
<1>11. CASE /\ torrent' = [torrent EXCEPT ![t] = stages[Len(stages)]]
            /\ session' = [session EXCEPT ![s] = x(good)]
  <2>1. MayWrite(good, here.op, here.row, here.plan = "move" /\ nas, here.seen)
    BY <1>1, <1>4a, OutcomeIs
  <2>2. WritesNas(good) => here.plan = "move" /\ ~HoldsLocal(j)'
    <3> SUFFICES ASSUME WritesNas(good) PROVE here.plan = "move" /\ ~HoldsLocal(j)' OBVIOUS
    <3>1. here.plan = "move" /\ nas BY <2>1 DEF MayWrite
    <3>2. torrent'[t] = stages[Len(stages)] BY <1>3, <1>11 DEF TrackInv, TypeInv
    <3>3. T(j)' = t BY <1>2 DEF T
    <3> QED BY <1>6, <3>1, <3>2, <3>3 DEF HoldsLocal, There
  <2> QED BY <1>10, <1>11, <2>1, <2>2 DEF MayWrite
<1>12. CASE session' = [session EXCEPT ![s] = IF here.op = "adopt" THEN Idle ELSE x(Failed(here.op))]
  <2>1. CASE here.op = "adopt"
    <3>1. session' = [session EXCEPT ![s] = Idle] BY <1>12, <2>1
    <3> QED BY <1>9, <3>1, IdleIs, NoneIsNoName
  <2>2. CASE here.op # "adopt"
    <3> DEFINE w == Failed(here.op)
    <3>1. /\ IsWrite(w) /\ DOMAIN w \cap {"bound", "actual"} = {} /\ w["state"] = "error"
          /\ "complete" \in DOMAIN w => w["complete"] = FALSE
      BY FailedIs
    <3>2. session' = [session EXCEPT ![s] = x(w)] BY <1>12, <2>2
    <3> HIDE DEF w
    <3>3. ~WritesNas(w) /\ ~NamesBound(w) /\ ~SaysComplete(w)
      BY <3>1 DEF WritesNas, NamesBound, SaysComplete
    <3> QED BY <1>10, <3>1, <3>2, <3>3
  <2> QED BY <2>1, <2>2
<1> QED BY <1>5, <1>11, <1>12

LEMMA RequeueIs ==
  ASSUME NEW j \in Jobs
  PROVE  LET x == [Idle EXCEPT !.phase = "requeue", !.job = j]
         IN IsSession(x) /\ x.job = j /\ x.op = None /\ x.phase = "requeue"
<1> DEFINE x == [Idle EXCEPT !.phase = "requeue", !.job = j]
<1>1. Idle \in SessionRecs /\ Idle.op = None /\ Idle.todo = {} BY IdleIs DEF IsSession, Idle
<1> HIDE DEF Idle
<1>2. x \in SessionRecs /\ x.phase = "requeue" /\ x.op = None /\ x.job = j /\ x.todo = {}
  BY <1>1 DEF SessionRecs, Phases
<1> HIDE DEF x
<1>3. SessionOK(x) BY <1>2 DEF SessionOK
<1> QED BY <1>2, <1>3 DEF IsSession, x

\* A commit tells what is so, whatever the other session does.
LEMMA CommitKeeps ==
  ASSUME TrackInv, NEW s \in Sessions, Commit(s)
  PROVE  TrackInv'
<1>0. PICK here : here = session[s] OBVIOUS
<1> DEFINE j == here.job
<1>1. /\ here \in SessionRecs /\ SessionOK(here) /\ here.phase = "commit" /\ here.todo \subseteq Jobs
      /\ j \in Jobs /\ IsWrite(here.write)
      /\ Unbinds(here.write) => here.op \in {"retry", "adopt"}
      /\ s = "manager" => here.op \in Cycles
      /\ job \in [Jobs -> Rows] /\ session \in [Sessions -> SessionRecs]
  BY <1>0, WritesTyped DEF Commit, TrackInv, TypeInv, SessionOK, SessionRecs, NamesBound, Unbinds
<1>2. UNCHANGED <<setup, torrent, removal>> BY DEF Commit, world
<1>3. SessionGood(here, j) /\ JobGood(j) BY <1>0, <1>1 DEF TrackInv, Good
<1>4. Calm BY <1>2, SameIsCalm
<1>5. CASE ~Present(j)
  <2>1. session' = [session EXCEPT ![s] = Idle] /\ UNCHANGED job
    BY <1>0, <1>5 DEF Commit, Set
  <2> QED BY <1>2, <2>1, IdleIs, NoneIsNoName, SessionMoves DEF Cycles
<1>6. CASE Present(j)
  <2>0. PICK r : r = Over(here.write, job[j]) OBVIOUS
  <2>1. job' = [job EXCEPT ![j] = r] BY <1>0, <1>1, <1>6, <2>0 DEF Commit
  <2>2. IsLive(job[j]) BY <1>1, <1>6 DEF IsLive, Present
  <2>3. /\ IsLive(r)
        /\ WritesNas(r) => WritesNas(here.write) \/ WritesNas(job[j])
        /\ job[j].bound => Unbinds(here.write) \/ r.bound
        /\ r.bound => Binds(here.write) \/ job[j].bound
        /\ SaysComplete(r) => SaysComplete(here.write) \/ SaysComplete(job[j])
    BY <1>1, <2>0, <2>2, OverRow
  <2>4. WritesNas(r) = (r.actual = "nas") /\ WritesNas(job[j]) = (job[j].actual = "nas")
    BY <2>2, <2>3 DEF WritesNas, IsLive, Rows
  <2>5. RowMay(j, r)
    <3>1. Never(j) /\ SaysComplete(r) => Complete(T(j))
      BY <1>1, <1>3, <2>3 DEF SessionGood, JobGood, Claims
    <3>2. Quiet(j) /\ HoldsLocal(j) => r.actual # "nas"
      BY <1>1, <1>3, <1>6, <2>3, <2>4 DEF SessionGood, JobGood
    <3> QED BY <2>3, <3>1, <3>2 DEF RowMay, IsLive
  <2>6. ASSUME NEW z \in Sessions, z # s, NEW x, x = session[z], x.job = j PROVE RowSpares(x, j, r)
    <3>1. SessionGood(x, j) /\ SessionOK(x) /\ (z = "manager" => x.op \in Cycles)
      BY <1>1, <2>6 DEF TrackInv, TypeInv, Good
    <3>2. x.op = "move" => ~Unbinds(here.write)
      BY <1>1, <2>6, <3>1, NoneIsNoName DEF Sessions, Cycles
    <3>3. x.op = "move" /\ job[j].bound => r.bound BY <2>3, <3>2
    <3>4. Quiet(j) /\ ~There(j) /\ r.bound => job[j].bound
      BY <1>1, <1>3, <2>3 DEF SessionGood, Relies
    <3>5. Quiet(j) /\ x.phase = "add" /\ ~There(j) => ~WritesNas(here.write)
      <4> SUFFICES ASSUME Quiet(j), x.phase = "add", ~There(j), WritesNas(here.write) PROVE FALSE OBVIOUS
      <4>1. here.op = "move" BY <1>1, <1>3 DEF SessionGood, Relies, Moves
      <4>2. job[j].bound BY <1>1, <1>3, <1>6, <4>1 DEF SessionGood, Moves
      <4>3. z = "manager" BY <1>1, <2>6, <4>1, NoneIsNoName DEF Sessions, Cycles
      <4>4. x.op = "pass" BY <3>1, <4>3, NoneIsNoName DEF SessionOK, Cycles
      <4> QED BY <3>1, <4>2, <4>4 DEF SessionGood
    <3> QED BY <1>6, <2>3, <2>4, <3>3, <3>4, <3>5 DEF RowSpares
  <2>7. ASSUME NEW y, IsSession(y), session' = [session EXCEPT ![s] = y],
               s = "manager" => y.op \in Cycles,
               y.job \in Jobs => SessionGood(y, y.job)'
        PROVE  TrackInv'
    <3>1. TypeInv' BY <1>1, <1>2, <2>1, <2>3, <2>7 DEF TrackInv, TypeInv, IsSession, IsLive, Sessions
    <3>2. ASSUME NEW z \in Sessions, NEW x, x = session'[z], x.job \in Jobs
          PROVE  SessionGood(x, x.job)' \/ (x = session[z] /\ (x.job = j => RowSpares(x, j, r)))
      <4>1. CASE z = s
        <5>1. x = y BY <1>1, <2>7, <3>2, <4>1
        <5> QED BY <2>7, <3>2, <5>1
      <4>2. CASE z # s
        <5>1. x = session[z] BY <1>1, <2>7, <3>2, <4>2
        <5> QED BY <2>6, <4>2, <5>1
      <4> QED BY <4>1, <4>2
    <3> HIDE DEF j
    <3> QED BY <1>1, <1>2, <1>4, <2>1, <2>5, <3>1, <3>2, RowKeeps
  <2>8. \/ /\ here.op \in {"retry", "adopt"} /\ "state" \in DOMAIN here.write /\ here.write["state"] = "download_complete"
           /\ session' = [session EXCEPT ![s] = [Idle EXCEPT !.phase = "requeue", !.job = j]]
        \/ here.op = "move" /\ session' = [session EXCEPT ![s] = Idle]
        \/ /\ here.op = "move"
           /\ \E todo \in (SUBSET Jobs) \ {{}} :
                session' = [session EXCEPT ![s] = [Idle EXCEPT !.phase = "next", !.op = "pass", !.todo = todo]]
        \/ session' = [session EXCEPT ![s] = Rest(here, j)]
    <3> DEFINE waiting == {i \in Jobs : job'[i].state = "waiting_for_local_space"}
    <3>1. CASE here.op = "move"
      <4>1. session' = [session EXCEPT ![s] = IF waiting = {} THEN Idle
                         ELSE [Idle EXCEPT !.phase = "next", !.op = "pass", !.todo = waiting]]
        BY <1>0, <1>6, <3>1 DEF Commit, Set
      <4>2. waiting \in SUBSET Jobs OBVIOUS
      <4> HIDE DEF waiting
      <4>3. CASE waiting = {} BY <3>1, <4>1, <4>3
      <4>4. CASE waiting # {}
        <5>1. session' = [session EXCEPT ![s] = [Idle EXCEPT !.phase = "next", !.op = "pass", !.todo = waiting]]
          BY <4>1, <4>4
        <5>2. waiting \in (SUBSET Jobs) \ {{}} BY <4>2, <4>4
        <5> QED BY <3>1, <5>1, <5>2
      <4> QED BY <4>3, <4>4
    <3>2. CASE here.op \in {"retry", "adopt"} /\ "state" \in DOMAIN here.write /\ here.write["state"] = "download_complete"
      BY <1>0, <1>6, <3>2 DEF Commit, Set
    <3>3. CASE here.op # "move" /\ ~(here.op \in {"retry", "adopt"} /\ "state" \in DOMAIN here.write /\ here.write["state"] = "download_complete")
      BY <1>0, <1>6, <3>3 DEF Commit, Set
    <3> QED BY <3>1, <3>2, <3>3
  <2>9. CASE /\ here.op \in {"retry", "adopt"} /\ "state" \in DOMAIN here.write /\ here.write["state"] = "download_complete"
             /\ session' = [session EXCEPT ![s] = [Idle EXCEPT !.phase = "requeue", !.job = j]]
    <3>0. PICK y : y = [Idle EXCEPT !.phase = "requeue", !.job = j] OBVIOUS
    <3>1. IsSession(y) /\ y.job = j /\ y.op = None /\ y.phase = "requeue" BY <1>1, <3>0, RequeueIs
    <3>2. job'[j] = r BY <1>1, <2>1
    <3>3. Never(j) => Complete(T(j)) BY <1>1, <1>3, <2>9 DEF SessionGood, Claims, SaysComplete
    <3>4. SessionGood(y, j)'
      <4>1. (Never(j) /\ Claims(y) => Complete(T(j)))' BY <1>1, <1>4, <3>3 DEF Calm
      <4> QED BY <2>3, <3>1, <3>2, <4>1 DEF SessionGood, Moves, Relies, IsLive
    <3> QED BY <2>7, <2>9, <3>0, <3>1, <3>4 DEF Cycles
  <2>10. CASE session' = [session EXCEPT ![s] = Idle]
    BY <2>7, <2>10, IdleIs, NoneIsNoName DEF Cycles
  <2>11. CASE /\ here.op = "move"
              /\ \E todo \in (SUBSET Jobs) \ {{}} :
                   session' = [session EXCEPT ![s] = [Idle EXCEPT !.phase = "next", !.op = "pass", !.todo = todo]]
    <3>1. PICK todo \in (SUBSET Jobs) \ {{}} :
            session' = [session EXCEPT ![s] = [Idle EXCEPT !.phase = "next", !.op = "pass", !.todo = todo]]
      BY <2>11
    <3>2. PICK y : y = [Idle EXCEPT !.phase = "next", !.op = "pass", !.todo = todo] OBVIOUS
    <3>3. IsSession(y) /\ y.job = None /\ y.op = "pass" BY <3>1, <3>2, NextIs
    <3> QED BY <2>7, <3>1, <3>2, <3>3, NoneIsNoName DEF Cycles
  <2>12. CASE session' = [session EXCEPT ![s] = Rest(here, j)]
    <3>1. IsSession(Rest(here, j)) /\ Rest(here, j).job = None /\ Rest(here, j).op \in {None, here.op}
      BY <1>1, RestIs
    <3>2. PICK y : y = Rest(here, j) OBVIOUS
    <3> QED BY <1>1, <2>7, <2>12, <3>1, <3>2, NoneIsNoName DEF Cycles
  <2> QED BY <2>8, <2>9, <2>10, <2>11, <2>12
<1> QED BY <1>5, <1>6

(***************************************************************************)
(* Adding a torrent and learning its hash.                                 *)
(***************************************************************************)
\* What is written after the hash was looked for, or a call failed, says nothing of the NAS
\* or of a complete download.
Modest(w, op) ==
  /\ IsWrite(w) /\ ~WritesNas(w) /\ ~SaysComplete(w)
  /\ NamesBound(w) /\ ~Binds(w) => op = "retry"

LEMMA ModestOver ==
  ASSUME NEW w, NEW op, Modest(w, op)
  PROVE  /\ Modest(Over(w, Forgotten(op)), op)
         /\ Binds(Over(w, Forgotten(op))) => Binds(w)
         /\ Unbinds(Over(w, Forgotten(op))) => op = "retry"
         /\ NamesBound(Over(w, Forgotten(op))) => NamesBound(w) \/ op = "retry"
<1>1. /\ IsWrite(Forgotten(op)) /\ ~WritesNas(Forgotten(op)) /\ ~SaysComplete(Forgotten(op))
      /\ ~Binds(Forgotten(op)) /\ (NamesBound(Forgotten(op)) => op = "retry")
      /\ Unbinds(Forgotten(op)) => op = "retry"
  BY ForgottenIs DEF WritesNas, SaysComplete, Binds, Unbinds, NamesBound
<1> DEFINE o == Over(w, Forgotten(op))
<1>2. /\ IsWrite(o)
      /\ WritesNas(o) => WritesNas(w) \/ WritesNas(Forgotten(op))
      /\ NamesBound(o) => NamesBound(w) \/ NamesBound(Forgotten(op))
      /\ Binds(o) => Binds(w) \/ Binds(Forgotten(op))
      /\ Unbinds(o) => Unbinds(w) \/ Unbinds(Forgotten(op))
      /\ SaysComplete(o) => SaysComplete(w) \/ SaysComplete(Forgotten(op))
  BY <1>1, OverWrites DEF Modest
<1>3. Unbinds(w) => NamesBound(w) /\ ~Binds(w) BY DEF Unbinds, NamesBound, Binds, Modest, IsWrite, WellWritten
<1>4. NamesBound(o) /\ ~Binds(o) => Unbinds(o)
  BY <1>2 DEF NamesBound, Binds, Unbinds, IsWrite, WellWritten
<1> HIDE DEF o
<1>5. Modest(o, op) BY <1>1, <1>2, <1>3, <1>4 DEF Modest
<1> QED BY <1>1, <1>2, <1>3, <1>5 DEF o, Modest

\* A session that is about to write such a thing.
LEMMA ModestCommit ==
  ASSUME TrackInv, NEW s \in Sessions, NEW write, session[s].phase \in {"add", "resolve"},
         Modest(write, session[s].op), ~Binds(write)
  PROVE  LET x == session[s]
             y == Committing(s, x.op, x.job, x.row, write)
         IN IsSession(y) /\ y.op = x.op /\ y.job = x.job /\ y.phase = "commit"
            /\ ~Moves(y) /\ ~Relies(y) /\ ~Claims(y)
<1>0. PICK x : x = session[s] OBVIOUS
<1>1. /\ x \in SessionRecs /\ SessionOK(x) /\ x.phase \in {"add", "resolve"}
      /\ x.todo \subseteq Jobs /\ x.job \in Jobs /\ x.op \in Ops
  BY <1>0 DEF TrackInv, TypeInv, SessionOK, SessionRecs
<1>2. x.op \notin {"pass", "hash"} => x.todo \subseteq {x.job} BY <1>1 DEF SessionOK
<1>3. IsWrite(write) /\ (NamesBound(write) => x.op = "retry") BY <1>0 DEF Modest
<1>4. PICK y : y = Committing(s, x.op, x.job, x.row, write) OBVIOUS
<1>5. /\ IsSession(y) /\ y.job = x.job /\ y.op = x.op /\ y.phase = "commit"
      /\ WritesNas(y.write) => WritesNas(write)
      /\ Binds(y.write) => Binds(write)
      /\ SaysComplete(y.write) => SaysComplete(write)
  BY <1>0, <1>1, <1>2, <1>3, <1>4, CommittingIs
<1>6. ~WritesNas(write) /\ ~SaysComplete(write) BY <1>0 DEF Modest
<1>7. ~Moves(y) /\ ~Claims(y) /\ ~Relies(y) BY <1>5, <1>6 DEF Moves, Claims, Relies
<1> QED BY <1>0, <1>4, <1>5, <1>6, <1>7

LEMMA ErrorIsModest ==
  ASSUME NEW op, NEW state \in {"error", "waiting_for_nas", "waiting_for_qbt_hash"}
  PROVE  LET w == Over([state |-> state], Forgotten(op))
         IN Modest(w, op) /\ ~Binds(w) /\ (Unbinds(w) => op = "retry")
<1> DEFINE v == [state |-> state]
<1>1. Modest(v, op) /\ ~Binds(v)
  BY DEF Modest, IsWrite, WellWritten, Fields, States, WritesNas, SaysComplete, NamesBound, Binds
<1> HIDE DEF v
<1> QED BY <1>1, ModestOver DEF v

LEMMA ResolveKeeps ==
  ASSUME TrackInv, NEW s \in Sessions, Resolve(s)
  PROVE  TrackInv'
<1>0. PICK here : here = session[s] OBVIOUS
<1> DEFINE j == here.job
           found == Tagged(j)
<1>1. /\ here \in SessionRecs /\ SessionOK(here) /\ here.phase = "resolve"
      /\ j \in Jobs /\ IsLive(here.row) /\ here.op \in {"pass", "hash", "submit", "retry"}
      /\ s = "manager" => here.op \in Cycles
      /\ job \in [Jobs -> Rows] /\ session \in [Sessions -> SessionRecs]
  BY <1>0 DEF Resolve, TrackInv, TypeInv, SessionOK, SessionRecs
<1>2. UNCHANGED <<setup, torrent, removal>> BY DEF Resolve
<1>3. SessionGood(here, j) /\ JobGood(j) BY <1>0, <1>1 DEF TrackInv, Good
<1>4. Calm BY <1>2, SameIsCalm
<1>5. PICK write : write = Over(IF found THEN [state |-> "downloading", bound |-> TRUE]
                                        ELSE [state |-> "waiting_for_qbt_hash"], Forgotten(here.op))
  OBVIOUS
<1>6. /\ Modest(write, here.op) /\ (Binds(write) => There(j)) /\ (Unbinds(write) => here.op = "retry")
  <2>1. CASE ~found BY <1>5, <2>1, ErrorIsModest
  <2>2. CASE found
    <3> DEFINE v == [state |-> "downloading", bound |-> TRUE]
    <3>1. Modest(v, here.op)
      BY DEF Modest, IsWrite, WellWritten, Fields, States, WritesNas, SaysComplete, NamesBound, Binds
    <3>2. There(j) BY <2>2 DEF Tagged, Listed, There
    <3>3. write = Over(v, Forgotten(here.op)) BY <1>5, <2>2
    <3> HIDE DEF v
    <3> QED BY <3>1, <3>2, <3>3, ModestOver
  <2> QED BY <2>1, <2>2
<1>7. \/ /\ job' = IF Present(j) THEN [job EXCEPT ![j] = Over(Changed(here.row, write), @)] ELSE job
         /\ session' = [session EXCEPT ![s] =
              IF ~Present(j) THEN Idle
              ELSE IF here.op \in {"pass", "hash"} THEN Rest(here, j)
              ELSE IF found THEN [here EXCEPT !.op = "evaluate", !.phase = "look"] ELSE Idle]
      \/ /\ session' = [session EXCEPT ![s] = IF here.op = "hash" THEN Rest(here, j)
              ELSE Committing(s, here.op, j, here.row, Over([state |-> "error"], Forgotten(here.op)))]
         /\ UNCHANGED job
  <2> HIDE DEF j
  <2>1. j = session[s].job BY <1>0 DEF j
  <2> QED BY <1>0, <1>5, <2>1 DEF Resolve, Set
<1>8. IsSession(Rest(here, j)) /\ Rest(here, j).job \notin Jobs /\ Rest(here, j).op \in {None, here.op}
  BY <1>1, RestIs, NoneIsNoName
<1>9. IsSession(Idle) /\ Idle.job \notin Jobs /\ Idle.op \in Cycles BY IdleIs, NoneIsNoName DEF Cycles
<1>10. CASE /\ session' = [session EXCEPT ![s] = IF here.op = "hash" THEN Rest(here, j)
                 ELSE Committing(s, here.op, j, here.row, Over([state |-> "error"], Forgotten(here.op)))]
            /\ UNCHANGED job
  <2>1. CASE here.op = "hash"
    BY <1>1, <1>2, <1>8, <1>10, <2>1, SessionMoves DEF Cycles
  <2>2. CASE here.op # "hash"
    <3>0. PICK w : w = Over([state |-> "error"], Forgotten(here.op)) OBVIOUS
    <3>1. Modest(w, here.op) /\ ~Binds(w) BY <3>0, ErrorIsModest
    <3>2. PICK y : y = Committing(s, here.op, j, here.row, w) OBVIOUS
    <3>3. IsSession(y) /\ y.op = here.op /\ y.job = j /\ y.phase = "commit" /\ ~Moves(y) /\ ~Relies(y) /\ ~Claims(y)
      BY <1>0, <1>1, <3>1, <3>2, ModestCommit
    <3>4. SessionGood(y, j) BY <1>3, <3>3 DEF SessionGood, Moves
    <3>5. session' = [session EXCEPT ![s] = y] BY <1>10, <2>2, <3>0, <3>2
    <3> QED BY <1>1, <1>2, <1>10, <3>3, <3>4, <3>5, SessionMoves
  <2> QED BY <2>1, <2>2
<1>11. CASE /\ ~Present(j)
            /\ job' = job /\ session' = [session EXCEPT ![s] = Idle]
  BY <1>2, <1>9, <1>11, SessionMoves
<1>12. CASE /\ Present(j)
            /\ job' = [job EXCEPT ![j] = Over(Changed(here.row, write), @)]
            /\ session' = [session EXCEPT ![s] =
                 IF here.op \in {"pass", "hash"} THEN Rest(here, j)
                 ELSE IF found THEN [here EXCEPT !.op = "evaluate", !.phase = "look"] ELSE Idle]
  <2>0. PICK w : w = Changed(here.row, write) OBVIOUS
  <2>1. /\ IsWrite(w) /\ ~WritesNas(w) /\ ~SaysComplete(w) /\ (Binds(w) => There(j))
        /\ Unbinds(w) => here.op = "retry"
    BY <1>6, <2>0, ChangedIs DEF Modest
  <2>2. IsLive(job[j]) BY <1>1, <1>12 DEF IsLive, Present
  <2>3. PICK r : r = Over(w, job[j]) OBVIOUS
  <2>4. /\ IsLive(r)
        /\ WritesNas(r) => WritesNas(job[j])
        /\ job[j].bound => Unbinds(w) \/ r.bound
        /\ r.bound => Binds(w) \/ job[j].bound
        /\ SaysComplete(r) => SaysComplete(job[j])
    BY <2>1, <2>2, <2>3, OverRow
  <2>5. job' = [job EXCEPT ![j] = r] BY <1>1, <1>12, <2>0, <2>3
  <2>6. r.actual = "nas" => job[j].actual = "nas" BY <2>2, <2>4 DEF WritesNas, IsLive, Rows
  <2>7. RowMay(j, r) BY <1>3, <2>4, <2>6 DEF RowMay, JobGood, IsLive
  <2>8. ASSUME NEW z \in Sessions, z # s, NEW x, x = session[z], x.job = j PROVE RowSpares(x, j, r)
    <3>1. x.op = "move" => here.op # "retry"
      BY <1>1, <2>8, NoneIsNoName DEF TrackInv, TypeInv, Sessions, Cycles
    <3>2. x.op = "move" /\ job[j].bound => r.bound BY <2>1, <2>4, <3>1
    <3>3. ~There(j) /\ r.bound => job[j].bound BY <2>1, <2>4
    <3> QED BY <1>12, <2>4, <2>6, <3>2, <3>3 DEF RowSpares
  <2>9. ASSUME NEW y, IsSession(y), session' = [session EXCEPT ![s] = y],
               s = "manager" => y.op \in Cycles,
               y.job \in Jobs => SessionGood(y, y.job)'
        PROVE  TrackInv'
    <3>1. TypeInv' BY <1>1, <1>2, <2>4, <2>5, <2>9 DEF TrackInv, TypeInv, IsSession, IsLive, Sessions
    <3>2. ASSUME NEW z \in Sessions, NEW x, x = session'[z], x.job \in Jobs
          PROVE  SessionGood(x, x.job)' \/ (x = session[z] /\ (x.job = j => RowSpares(x, j, r)))
      <4>1. CASE z = s
        <5>1. x = y BY <1>1, <2>9, <3>2, <4>1
        <5> QED BY <2>9, <3>2, <5>1
      <4>2. CASE z # s
        <5>1. x = session[z] BY <1>1, <2>9, <3>2, <4>2
        <5> QED BY <2>8, <4>2, <5>1
      <4> QED BY <4>1, <4>2
    <3> HIDE DEF j
    <3> QED BY <1>1, <1>2, <1>4, <2>5, <2>7, <3>1, <3>2, RowKeeps
  <2>10. CASE session' = [session EXCEPT ![s] = Rest(here, j)] /\ here.op \in {"pass", "hash"}
    <3>1. PICK y : y = Rest(here, j) OBVIOUS
    <3> QED BY <1>8, <2>9, <2>10, <3>1 DEF Cycles
  <2>11. CASE session' = [session EXCEPT ![s] = Idle] BY <1>9, <2>9, <2>11
  <2>12. CASE session' = [session EXCEPT ![s] = [here EXCEPT !.op = "evaluate", !.phase = "look"]]
              /\ here.op \notin {"pass", "hash"}
    <3>0. PICK y : y = [here EXCEPT !.op = "evaluate", !.phase = "look"] OBVIOUS
    <3>1. /\ y \in SessionRecs /\ y.op = "evaluate" /\ y.phase = "look" /\ y.job = j /\ y.todo = here.todo
      BY <1>1, <3>0 DEF SessionRecs, Phases, Ops
    <3>2. SessionOK(y) BY <1>1, <2>12, <3>1 DEF SessionOK
    <3>3. job'[j] = r BY <1>1, <2>5
    <3>4. SessionGood(y, j)' BY <2>4, <3>1, <3>3 DEF SessionGood, Moves, Relies, Claims, IsLive
    <3>5. s # "manager" BY <1>1, <2>12, NoneIsNoName DEF Cycles
    <3> QED BY <2>9, <2>12, <3>0, <3>1, <3>2, <3>4, <3>5 DEF IsSession
  <2> QED BY <1>12, <2>10, <2>11, <2>12
<1> QED BY <1>7, <1>10, <1>11, <1>12

\* The torrent that a session adds, next to every job and every session.
LEMMA NewTorrent ==
  ASSUME TrackInv, NEW s \in Sessions, NEW here, here = session[s], here.phase = "add",
         torrent[T(here.job)].phase = "absent", UNCHANGED <<setup, job, removal>>,
         torrent' = [torrent EXCEPT ![T(here.job)] =
           [phase |-> "added", on |-> "on", left |-> Size[T(here.job)], place |-> here.row.actual, tag |-> here.job]]
  PROVE  /\ torrent' = [u \in Torrents |-> torrent'[u]] /\ \A u \in Torrents : torrent'[u] \in TorrentRecs(u)
         /\ \A j \in Jobs : JobGood(j)'
         /\ \A z \in Sessions : \A x : z # s /\ x = session[z] /\ x.job \in Jobs => SessionGood(x, x.job)'
<1> DEFINE i == here.job
           t == T(i)
           new == [phase |-> "added", on |-> "on", left |-> Size[t], place |-> here.row.actual, tag |-> i]
<1>1. /\ i \in Jobs /\ SessionOK(here) /\ IsLive(here.row) /\ (s = "manager" => here.op \in Cycles)
      /\ SessionGood(here, i)
  BY DEF TrackInv, TypeInv, SessionOK, Good
<1>2. t \in Torrents /\ Size[t] \in Nat /\ here.row.actual \in {None, "local", "nas"}
  BY <1>1, TorrentOfJob, DownloadsAssumption DEF TrackInv, IsLive, Rows
<1>3. new \in TorrentRecs(t) BY <1>1, <1>2 DEF TorrentRecs
<1>4. /\ torrent = [u \in Torrents |-> torrent[u]]
      /\ \A u \in Torrents : torrent[u] \in TorrentRecs(u)
  BY DEF TrackInv, TypeInv
<1>5. \A u \in Torrents : torrent'[u] = IF u = t THEN new ELSE torrent[u] BY <1>4
<1>6. torrent' = [u \in Torrents |-> torrent'[u]] /\ \A u \in Torrents : torrent'[u] \in TorrentRecs(u)
  BY <1>3, <1>4, <1>5
<1>7. ASSUME NEW j \in Jobs
      PROVE  /\ T(j)' = T(j) /\ Quiet(j)' = Quiet(j) /\ Never(j)' = Never(j)
             /\ There(j) => There(j)'
             /\ T(j) = t => ~There(j) /\ There(j)'
             /\ HoldsLocal(j)' => HoldsLocal(j) \/ (j = i /\ here.row.actual = "local")
             /\ Complete(T(j)) => Complete(T(j))'
  <2>1. T(j) \in Torrents /\ T(j)' = T(j) BY TorrentOfJob DEF TrackInv, T
  <2>2. Quiet(j)' = Quiet(j) /\ Never(j)' = Never(j) BY <2>1 DEF Quiet, Never
  <2> HIDE DEF new, t
  <2>3. new.phase = "added" /\ new.tag = i /\ new.place = here.row.actual BY DEF new
  <2>4. There(j) => There(j)' BY <1>5, <2>1, <2>3 DEF There
  <2>5. T(j) = t => ~There(j) /\ There(j)' BY <1>5, <2>1, <2>3 DEF There, t
  <2>6. HoldsLocal(j)' => HoldsLocal(j) \/ (j = i /\ here.row.actual = "local")
    BY <1>5, <2>1, <2>3 DEF HoldsLocal, There
  <2>7. Complete(T(j)) => Complete(T(j))' BY <1>5, <2>1, <2>3 DEF Complete, t
  <2> QED BY <2>1, <2>2, <2>4, <2>5, <2>6, <2>7
<1>8. ~There(i) BY DEF There
<1>9. ASSUME NEW j \in Jobs PROVE JobGood(j)'
  <2>1. JobGood(j) BY DEF TrackInv, Good
  <2> HIDE DEF Quiet, Never, There, HoldsLocal, Complete, T
  <2>2. (HoldsLocal(j) => job[j].state # "none")' BY <1>1, <1>7, <2>1 DEF JobGood, SessionGood
  <2>3. (Quiet(j) /\ HoldsLocal(j) => job[j].actual # "nas")' BY <1>1, <1>7, <1>8, <2>1 DEF JobGood, SessionGood
  <2>4. (Never(j) /\ SaysComplete(job[j]) => Complete(T(j)))' BY <1>7, <2>1 DEF JobGood
  <2> QED BY <2>2, <2>3, <2>4 DEF JobGood
<1>10. ASSUME NEW z \in Sessions, NEW x, z # s, x = session[z], x.job \in Jobs PROVE SessionGood(x, x.job)'
  <2> DEFINE j == x.job
  <2>1. SessionGood(x, j) /\ (z = "manager" => x.op \in Cycles) BY <1>10 DEF TrackInv, TypeInv, Good
  <2>2. job'[j].state # "none" /\ Present(j)' = Present(j) BY <2>1 DEF SessionGood, Present
  <2>3. x.op = "move" => here.op = "pass"
    BY <1>1, <1>10, <2>1, NoneIsNoName DEF Sessions, SessionOK, Cycles
  <2>4. Quiet(i) /\ here.op = "pass" => ~job[i].bound BY <1>1, <1>8 DEF SessionGood
  <2> HIDE DEF Quiet, Never, There, HoldsLocal, Complete, T, Present, i
  <2>5. Quiet(j)' /\ HoldsLocal(j)' /\ ~HoldsLocal(j) =>
          ~There(j) /\ ~(x.op = "move" /\ Present(j) /\ job[j].bound)
    BY <1>7, <1>8, <1>10, <2>3, <2>4
  <2>6. Spares(x, j) BY <1>7, <1>10, <2>2, <2>5 DEF Spares
  <2> QED BY <1>10, <2>1, <2>6, Bystander
<1> QED BY <1>6, <1>9, <1>10

LEMMA AddKeeps ==
  ASSUME TrackInv, NEW s \in Sessions, Add(s)
  PROVE  TrackInv'
<1>0. PICK here : here = session[s] OBVIOUS
<1> DEFINE j == here.job
           t == T(j)
           new == [phase |-> "added", on |-> "on", left |-> Size[t], place |-> here.row.actual, tag |-> j]
           Written(write) == session' = [session EXCEPT ![s] =
                               Committing(s, here.op, j, here.row, Over(write, Forgotten(here.op)))]
<1>1. /\ here \in SessionRecs /\ SessionOK(here) /\ here.phase = "add"
      /\ j \in Jobs /\ IsLive(here.row) /\ here.op \in {"pass", "submit", "retry"}
      /\ s = "manager" => here.op \in Cycles
      /\ job \in [Jobs -> Rows] /\ session \in [Sessions -> SessionRecs]
  BY <1>0 DEF Add, TrackInv, TypeInv, SessionOK, SessionRecs
<1>2. UNCHANGED <<setup, removal>> BY DEF Add
<1>3. SessionGood(here, j) /\ JobGood(j) BY <1>0, <1>1 DEF TrackInv, Good
<1>4. \/ UNCHANGED <<torrent, job>> /\ \E state \in {"error", "waiting_for_nas"} : Written([state |-> state])
      \/ /\ UNCHANGED torrent /\ here.op = "submit"
         /\ job' = [job EXCEPT ![j] = [Blank EXCEPT !.state = "removed"]]
         /\ session' = [session EXCEPT ![s] = Idle]
      \/ /\ UNCHANGED <<torrent, job>> /\ Listed(t) /\ here.op = "retry"
         /\ session' = [session EXCEPT ![s] = [here EXCEPT !.op = "adopt", !.phase = "look"]]
      \/ /\ torrent[t].phase = "absent" /\ torrent' = [torrent EXCEPT ![t] = new] /\ UNCHANGED job
         /\ \/ session' = [session EXCEPT ![s] = [here EXCEPT !.phase = "resolve"]]
            \/ Written([state |-> "error"])
  <2>1. Failed("pass") = [state |-> "error"] BY DEF Failed
  <2> HIDE DEF j, t, new
  <2>2. /\ j = session[s].job /\ t = T(session[s].job)
        /\ new = [phase |-> "added", on |-> "on", left |-> Size[t], place |-> session[s].row.actual, tag |-> j]
    BY <1>0 DEF j, t, new
  <2> QED BY <1>0, <1>1, <2>1, <2>2 DEF Add, Set
<1>5. ASSUME NEW state \in {"error", "waiting_for_nas"}, Written([state |-> state])
      PROVE  \E y : /\ session' = [session EXCEPT ![s] = y] /\ IsSession(y) /\ y.op = here.op /\ y.job = j
                    /\ y.phase = "commit" /\ ~Moves(y) /\ ~Relies(y) /\ ~Claims(y)
  <2>0. PICK w : w = Over([state |-> state], Forgotten(here.op)) OBVIOUS
  <2>1. Modest(w, here.op) /\ ~Binds(w) BY <2>0, ErrorIsModest
  <2>2. PICK y : y = Committing(s, here.op, j, here.row, w) OBVIOUS
  <2>3. IsSession(y) /\ y.op = here.op /\ y.job = j /\ y.phase = "commit" /\ ~Moves(y) /\ ~Relies(y) /\ ~Claims(y)
    BY <1>0, <1>1, <2>1, <2>2, ModestCommit
  <2>4. session' = [session EXCEPT ![s] = y] BY <1>5, <2>0, <2>2
  <2> QED BY <2>3, <2>4
<1>6. CASE UNCHANGED <<torrent, job>> /\ \E state \in {"error", "waiting_for_nas"} : Written([state |-> state])
  <2>1. PICK y : /\ session' = [session EXCEPT ![s] = y] /\ IsSession(y) /\ y.op = here.op /\ y.job = j
                 /\ y.phase = "commit" /\ ~Moves(y) /\ ~Relies(y) /\ ~Claims(y)
    BY <1>5, <1>6
  <2>2. SessionGood(y, j) BY <1>3, <2>1 DEF SessionGood, Moves
  <2> QED BY <1>1, <1>2, <1>6, <2>1, <2>2, SessionMoves
<1>7. CASE /\ UNCHANGED torrent /\ here.op = "submit"
           /\ job' = [job EXCEPT ![j] = [Blank EXCEPT !.state = "removed"]]
           /\ session' = [session EXCEPT ![s] = Idle]
  <2>0. PICK r : r = [Blank EXCEPT !.state = "removed"] OBVIOUS
  <2>1. r \in Rows /\ r.state = "removed" /\ r.bound = FALSE /\ r.actual = None /\ ~SaysComplete(r)
    BY <2>0, RemovedRow
  <2>2. IsSession(Idle) /\ Idle.job \notin Jobs /\ Idle.op \in Cycles BY IdleIs, NoneIsNoName DEF Cycles
  <2>3. Calm BY <1>2, <1>7, SameIsCalm
  <2>4. job' = [job EXCEPT ![j] = r] BY <1>7, <2>0
  <2>5. TypeInv' BY <1>1, <1>2, <1>7, <2>1, <2>2, <2>4 DEF TrackInv, TypeInv, IsSession, Sessions
  <2>6. RowMay(j, r) BY <2>1, NoneIsNoName DEF RowMay
  <2>7. ASSUME NEW z \in Sessions, NEW x, x = session'[z], x.job \in Jobs
        PROVE  x = session[z] /\ (x.job = j => RowSpares(x, j, r))
    <3>1. x = session[z] BY <1>1, <1>7, <2>2, <2>7
    <3> QED BY <2>1, <3>1, NoneIsNoName DEF RowSpares
  <2> HIDE DEF j
  <2> QED BY <1>1, <1>2, <2>3, <2>4, <2>5, <2>6, <2>7, RowKeeps
<1>8. CASE /\ UNCHANGED <<torrent, job>> /\ Listed(t) /\ here.op = "retry"
           /\ session' = [session EXCEPT ![s] = [here EXCEPT !.op = "adopt", !.phase = "look"]]
  <2>0. PICK y : y = [here EXCEPT !.op = "adopt", !.phase = "look"] OBVIOUS
  <2>1. /\ y \in SessionRecs /\ y.op = "adopt" /\ y.phase = "look" /\ y.job = j /\ y.todo = here.todo
    BY <1>1, <2>0 DEF SessionRecs, Phases, Ops
  <2>2. SessionOK(y) BY <1>1, <1>8, <2>1 DEF SessionOK
  <2>3. There(j) BY <1>8 DEF Listed, There
  <2>4. SessionGood(y, j) BY <1>3, <2>1, <2>3 DEF SessionGood, Moves, Relies, Claims
  <2>5. s # "manager" BY <1>1, <1>8, NoneIsNoName DEF Cycles
  <2> QED BY <1>2, <1>8, <2>0, <2>1, <2>2, <2>4, <2>5, SessionMoves DEF IsSession
<1>9. CASE /\ torrent[t].phase = "absent" /\ torrent' = [torrent EXCEPT ![t] = new] /\ UNCHANGED job
           /\ \/ session' = [session EXCEPT ![s] = [here EXCEPT !.phase = "resolve"]]
              \/ Written([state |-> "error"])
  <2>1. PICK y : /\ session' = [session EXCEPT ![s] = y] /\ IsSession(y) /\ y.op = here.op /\ y.job = j
                 /\ y.phase # "add" /\ ~Moves(y) /\ ~Relies(y) /\ ~Claims(y)
    <3>1. CASE Written([state |-> "error"]) BY <1>5, <3>1
    <3>2. CASE session' = [session EXCEPT ![s] = [here EXCEPT !.phase = "resolve"]]
      <4>0. PICK y : y = [here EXCEPT !.phase = "resolve"] OBVIOUS
      <4>1. /\ y \in SessionRecs /\ y.op = here.op /\ y.phase = "resolve" /\ y.job = j /\ y.todo = here.todo
            /\ y.row = here.row
        BY <1>1, <4>0 DEF SessionRecs, Phases
      <4>2. SessionOK(y) BY <1>1, <4>1 DEF SessionOK
      <4>3. ~Moves(y) /\ ~Relies(y) /\ ~Claims(y) BY <4>1 DEF Moves, Relies, Claims
      <4> QED BY <3>2, <4>0, <4>1, <4>2, <4>3 DEF IsSession
    <3> QED BY <1>9, <3>1, <3>2
  <2>2. /\ torrent' = [u \in Torrents |-> torrent'[u]] /\ \A u \in Torrents : torrent'[u] \in TorrentRecs(u)
        /\ \A i \in Jobs : JobGood(i)'
        /\ \A z \in Sessions : \A x : z # s /\ x = session[z] /\ x.job \in Jobs => SessionGood(x, x.job)'
    BY <1>0, <1>1, <1>2, <1>9, NewTorrent
  <2>3. SessionGood(y, j)'
    <3>1. job'[j].state # "none" BY <1>3, <1>9 DEF SessionGood
    <3>2. ~Moves(y)' /\ ~Relies(y)' /\ ~Claims(y)'
      BY <2>1 DEF Moves, Relies, Claims, WritesNas, Binds, SaysComplete
    <3>3. ~(y.phase = "commit" /\ WritesNas(y.write))' BY <3>2 DEF Moves
    <3> QED BY <2>1, <3>1, <3>2, <3>3 DEF SessionGood
  <2>4. TypeInv' BY <1>1, <1>2, <1>9, <2>1, <2>2 DEF TrackInv, TypeInv, IsSession, Sessions
  <2>5. ASSUME NEW x \in {session'[z] : z \in Sessions}, x.job \in Jobs PROVE SessionGood(x, x.job)'
    <3>1. PICK z \in Sessions : x = session'[z] BY <2>5
    <3>2. CASE z = s
      <4>1. x = y BY <1>1, <2>1, <3>1, <3>2
      <4> QED BY <2>1, <2>3, <4>1
    <3>3. CASE z # s
      <4>1. x = session[z] BY <1>1, <2>1, <3>1, <3>3
      <4> QED BY <2>2, <2>5, <3>3, <4>1
    <3> QED BY <3>2, <3>3
  <2> QED BY <2>2, <2>4, <2>5 DEF TrackInv, Good
<1> QED BY <1>4, <1>6, <1>7, <1>8, <1>9

(***************************************************************************)
(* The invariant holds.                                                    *)
(***************************************************************************)
LEMMA InitTracks == Init => TrackInv
<1> SUFFICES ASSUME Init PROVE TrackInv OBVIOUS
<1>1. /\ setup \in Setups
      /\ job = [j \in Jobs |-> Blank]
      /\ torrent = [t \in Torrents |-> Absent]
      /\ session = [s \in Sessions |-> Idle]
      /\ removal = [t \in Torrents |-> "never"]
  BY DEF Init
<1>2. Blank \in Rows /\ Blank.state = "none" /\ ~SaysComplete(Blank)
  BY DEF Blank, Rows, States, SaysComplete
<1>3. \A t \in Torrents : Absent \in TorrentRecs(t) /\ Absent.phase = "absent" /\ Absent.tag = None
  BY DownloadsAssumption DEF Absent, TorrentRecs
<1>4. TypeInv BY <1>1, <1>2, <1>3, IdleIs DEF TypeInv, IsSession, Cycles, Sessions
<1>5. ASSUME NEW j \in Jobs PROVE JobGood(j)
  <2>1. ~HoldsLocal(j) BY <1>1, <1>3, <1>4, TorrentOfJob DEF HoldsLocal, There
  <2> QED BY <1>1, <1>2, <2>1 DEF JobGood
<1>6. \A s \in Sessions : session[s].job \notin Jobs BY <1>1, IdleIs, NoneIsNoName
<1> QED BY <1>4, <1>5, <1>6 DEF TrackInv, Good

LEMMA SessionStepKeeps ==
  ASSUME TrackInv, NEW s \in Sessions, SessionStep(s)
  PROVE  TrackInv'
<1>1. CASE TakeNext(s) BY <1>1, TakeNextKeeps
<1>2. CASE Look(s) BY <1>2, LookKeeps
<1>3. CASE Call(s) BY <1>3, CallKeeps
<1>4. CASE Commit(s) BY <1>4, CommitKeeps
<1>5. CASE Requeue(s) BY <1>5, RequeueKeeps
<1>6. CASE Add(s) BY <1>6, AddKeeps
<1>7. CASE Resolve(s) BY <1>7, ResolveKeeps
<1> QED BY <1>1, <1>2, <1>3, <1>4, <1>5, <1>6, <1>7 DEF SessionStep

LEMMA NextTracks == TrackInv /\ [Next]_vars => TrackInv'
<1> SUFFICES ASSUME TrackInv, [Next]_vars PROVE TrackInv' OBVIOUS
<1>1. CASE BeginPass \/ BeginHashCycle BY <1>1, BeginKeeps
<1>2. CASE Trouble BY <1>2, TroubleKeeps
<1>3. CASE NasGoes \/ NasReturns \/ UNCHANGED vars
  BY <1>3, StutterKeeps DEF NasGoes, NasReturns, vars
<1>4. CASE Crash BY <1>4, CrashKeeps
<1>5. ASSUME NEW s \in Sessions, SessionStep(s) PROVE TrackInv' BY <1>5, SessionStepKeeps
<1>6. ASSUME NEW j \in Jobs, Delete(j) \/ Finish(j) PROVE TrackInv'
  BY <1>6, DeleteKeeps, FinishKeeps
<1>7. ASSUME NEW s \in Sessions, NEW j \in Jobs, Submit(s, j) \/ Retry(s, j) \/ MoveToNas(s, j) \/ Event(s, j)
      PROVE  TrackInv'
  BY <1>7, SubmitKeeps, RetryKeeps, MoveToNasKeeps, EventKeeps
<1>8. ASSUME NEW t \in Torrents, List(t) \/ ReadMetadata(t) \/ Download(t) \/ Repair(t)
      PROVE  TrackInv'
  BY <1>8, TorrentStepKeeps
<1> QED BY <1>1, <1>2, <1>3, <1>4, <1>5, <1>6, <1>7, <1>8 DEF Next

\* In every state the rows are true of qBittorrent's list, and so is what the worker and a
\* handler have read and are about to write (service.py: each session commits by itself).
THEOREM RowsAreTrue == Spec => []TrackInv
<1> QED BY InitTracks, NextTracks, PTL DEF Spec

\* The variables have their types.
THEOREM TypeCorrect == Spec => []TypeOK
<1>1. TrackInv => TypeOK
  <2> SUFFICES ASSUME TypeInv PROVE TypeOK BY DEF TrackInv
  <2>1. setup \in Setups /\ removal \in [Torrents -> {"never", "idle", "busy"}] BY DEF TypeInv
  <2>2. job \in [Jobs -> [state : States, bound : BOOLEAN, actual : {None, "local", "nas"},
                          complete : BOOLEAN]]
    BY DEF TypeInv, Rows
  <2>3. \A t \in Torrents : torrent[t] \in
          [phase : {"absent", "added", "metadata", "known"}, on : {"on", "off", "broken"},
           left : 0 .. Size[t], place : {None, "local", "nas", "library"}, tag : {None} \cup Jobs]
    BY DEF TypeInv, TorrentRecs
  <2>4. ASSUME NEW s \in Sessions
        PROVE  /\ session[s].todo \subseteq Jobs /\ session[s].job \in Jobs \cup {None}
               /\ session[s].phase = "next" => session[s].todo # {}
               /\ session[s].phase \in {"idle", "next", "look", "call", "commit", "requeue", "add", "resolve"}
               /\ session[s].op \in {None, "pass", "hash", "submit", "retry", "adopt", "evaluate", "move"}
               /\ DOMAIN session[s].write \subseteq DOMAIN Blank
    <3>1. session[s] \in SessionRecs /\ SessionOK(session[s]) BY DEF TypeInv
    <3>2. IsWrite(session[s].write) BY <3>1, WritesTyped DEF SessionRecs
    <3>3. DOMAIN session[s].write \subseteq DOMAIN Blank BY <3>2 DEF IsWrite, Fields, Blank
    <3> QED BY <3>1, <3>3 DEF SessionRecs, SessionOK, Phases, Ops
  <2> QED BY <2>1, <2>2, <2>3, <2>4 DEF TypeOK
<1> QED BY <1>1, RowsAreTrue, PTL

\* A job that says it is on the NAS has its torrent there, for any jobs, torrents, sizes and
\* policies, whatever move, retry and pass overtake one another, unless somebody removed
\* the torrent under a session's hands (_move_local_job_to_nas, retry_job).
THEOREM OnTheNas == Spec => []NasMeansNas
<1>1. TrackInv => NasMeansNas
  <2> SUFFICES ASSUME TrackInv, NEW j \in Jobs, job[j].actual = "nas", Tagged(j), removal[T(j)] # "busy"
               PROVE  torrent[T(j)].place # "local"
    BY DEF NasMeansNas
  <2>1. JobGood(j) /\ There(j) /\ torrent[T(j)].tag = j
    BY DEF TrackInv, Good, Tagged, Listed, There
  <2> QED BY <2>1 DEF JobGood, Quiet, HoldsLocal
<1> QED BY <1>1, RowsAreTrue, PTL

\* A step that changes rows leaves qBittorrent's list alone, but for the end of a scan.
LEMMA RowsOrList ==
  ASSUME TrackInv, [Next]_vars
  PROVE  \/ UNCHANGED job
         \/ UNCHANGED <<setup, torrent, removal>>
         \/ \E i \in Jobs : job' = [job EXCEPT ![i].state = "done"]
<1> DEFINE Goal == \/ UNCHANGED job
                   \/ UNCHANGED <<setup, torrent, removal>>
                   \/ \E i \in Jobs : job' = [job EXCEPT ![i].state = "done"]
<1>1. CASE BeginPass \/ BeginHashCycle \/ Trouble \/ NasGoes \/ NasReturns \/ Crash \/ UNCHANGED vars
  BY <1>1 DEF BeginPass, BeginHashCycle, Trouble, NasGoes, NasReturns, Crash, vars
<1>2. ASSUME NEW s \in Sessions, SessionStep(s) PROVE Goal
  <2>1. CASE TakeNext(s) \/ Look(s) BY <2>1 DEF TakeNext, Look
  <2>2. CASE Call(s) BY <2>2 DEF Call
  <2>3. CASE Commit(s) BY <2>3 DEF Commit, world
  <2>4. CASE Requeue(s) BY <2>4 DEF Requeue, world
  <2>5. CASE Add(s) BY <2>5 DEF Add
  <2>6. CASE Resolve(s) BY <2>6 DEF Resolve
  <2> QED BY <1>2, <2>1, <2>2, <2>3, <2>4, <2>5, <2>6 DEF SessionStep
<1>3. ASSUME NEW j \in Jobs, Delete(j) \/ Finish(j) PROVE Goal BY <1>3 DEF Delete, Finish
<1>4. ASSUME NEW s \in Sessions, NEW j \in Jobs, Submit(s, j) \/ Retry(s, j) \/ MoveToNas(s, j) \/ Event(s, j)
      PROVE  Goal
  BY <1>4 DEF Submit, Retry, MoveToNas, Event, world
<1>5. ASSUME NEW t \in Torrents, List(t) \/ ReadMetadata(t) \/ Download(t) \/ Repair(t) PROVE Goal
  BY <1>5 DEF List, ReadMetadata, Download, Repair
<1> QED BY <1>1, <1>2, <1>3, <1>4, <1>5 DEF Next

\* A download is queued for its scan only when it is complete, whatever passes, retries,
\* callbacks and crashes overtake one another, as long as nobody removes the torrent
\* (_process_one, retry_job, _queue_completed_retry).
THEOREM QueuedComplete == Spec => QueuedIsComplete
<1>1. TrackInv /\ TrackInv' /\ [Next]_vars =>
        [\A j \in Jobs :
           job'[j].state = "scan_queued" /\ job[j].state # "scan_queued" /\ removal[T(j)] = "never"
           => torrent[T(j)].phase # "absent" /\ torrent[T(j)].left = 0]_vars
  <2> SUFFICES ASSUME TrackInv, TrackInv', [Next]_vars, NEW j \in Jobs, job'[j].state = "scan_queued",
                      job[j].state # "scan_queued", removal[T(j)] = "never"
               PROVE  torrent[T(j)].phase # "absent" /\ torrent[T(j)].left = 0
    OBVIOUS
  <2>1. job \in [Jobs -> Rows] /\ job' \in [Jobs -> Rows] BY DEF TrackInv, TypeInv
  <2>2. ~UNCHANGED job OBVIOUS
  <2>3. ~\E i \in Jobs : job' = [job EXCEPT ![i].state = "done"] BY <2>1 DEF Rows
  <2>4. UNCHANGED <<setup, torrent, removal>> BY <2>2, <2>3, RowsOrList
  <2>5. JobGood(j)' BY DEF TrackInv, Good
  <2>6. SaysComplete(job'[j]) BY <2>1 DEF SaysComplete, Rows
  <2>7. Complete(T(j))' BY <2>4, <2>5, <2>6 DEF JobGood, Never, T
  <2> QED BY <2>4, <2>7 DEF Complete, T
<1> QED BY <1>1, NextTracks, RowsAreTrue, PTL DEF Spec, QueuedIsComplete
=============================================================================
