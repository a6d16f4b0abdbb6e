----------------------------- MODULE MCScanQueue -----------------------------
(* Small instances of ScanQueue: two torrents, both large or one or none.  *)
(* With none large they are interchangeable.                               *)
EXTENDS ScanQueue, TLC

CONSTANTS one, two

MCJobs == {one, two}
MCNoneLarge == {}
MCOneLarge == {two}
MCBothLarge == {one, two}
MCIds == 1 .. 3
MCSymmetry == Permutations(MCJobs)
=============================================================================
