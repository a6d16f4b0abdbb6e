------------------------------ MODULE MCRestore -------------------------------
(* One installation that is replaced twice.                                 *)
EXTENDS Restore
=============================================================================
