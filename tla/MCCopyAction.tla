----------------------------- MODULE MCCopyAction -----------------------------
(* Two jobs mapped to one path, two processes, a file or a directory of two. *)
EXTENDS CopyAction

CONSTANTS j1, j2, one, two

MCJobs == {j1, j2}
MCNames == {one, two}
MCBytes == {"a", "b"}
MCRunners == {1, 2}
=============================================================================
