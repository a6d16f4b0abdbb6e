----------------------------- MODULE Installation -----------------------------
(***************************************************************************)
(* What a restore promises: an installation is one value.  It is replaced  *)
(* as a whole, while no server runs, and each one that was replaced is     *)
(* kept as it was when it ran last.                                        *)
(***************************************************************************)
CONSTANTS
  Files,      \* the files an installation consists of
  Contents,   \* what a file may hold
  None

VARIABLES
  running,    \* a server works with the installation
  installed,  \* what it works with
  waiting,    \* the installation that is to replace it
  archive     \* the installations that were replaced

vars == <<running, installed, waiting, archive>>
Installations == [Files -> Contents]

Init ==
  /\ running = FALSE /\ installed \in Installations
  /\ waiting = None /\ archive = {}

Start ==
  /\ ~running /\ waiting = None /\ running' = TRUE
  /\ UNCHANGED <<installed, waiting, archive>>

Stop == running /\ running' = FALSE /\ UNCHANGED <<installed, waiting, archive>>

\* The server writes one of its files.
Edit ==
  /\ running
  /\ \E f \in Files, c \in Contents : installed' = [installed EXCEPT ![f] = c]
  /\ UNCHANGED <<running, waiting, archive>>

Request ==
  /\ running /\ waiting = None /\ waiting' \in Installations
  /\ UNCHANGED <<running, installed, archive>>

Install ==
  /\ ~running /\ waiting # None
  /\ archive' = archive \cup {installed}
  /\ installed' = waiting /\ waiting' = None
  /\ UNCHANGED running

Next == Start \/ Stop \/ Edit \/ Request \/ Install

Spec == Init /\ [][Next]_vars
=============================================================================
