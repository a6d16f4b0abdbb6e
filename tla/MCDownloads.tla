----------------------------- MODULE MCDownloads -----------------------------
(* Two jobs: of two torrents, with local space for one of them at a time; of one
   torrent that is larger than the local space, staged locally by one job and on the
   NAS by the other; of one torrent that is over the maximum for local staging. *)
EXTENDS Downloads

CONSTANTS a, b, c

MCJobs == {1, 2}
MCTorrents == {a, b, c}
MCSize == [t \in MCTorrents |-> IF t = a THEN 2 ELSE 1]

Setup(n, p, o, m) == [names |-> n, prefers |-> p, overflow |-> o, max |-> m]
Local == <<"local", "local">>
MCSetups == {
  Setup(<<b, c>>, Local, "queue", 2),
  Setup(<<a, a>>, <<"local", "nas">>, "nas", 2),
  Setup(<<b, b>>, Local, "queue", 0)}
=============================================================================
