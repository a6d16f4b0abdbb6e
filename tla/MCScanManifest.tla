---------------------------- MODULE MCScanManifest ----------------------------
(* Small instances of ScanManifest: two files with two or three contents.  *)
EXTENDS ScanManifest

CONSTANTS movie, extra, staging, moved

MCFiles == {movie, extra}
MCRoots == {staging, moved}
MCVersions == 1 .. 2
MCEngines == 1 .. 2

\* A replaced file is malware for the old engine already, the first version
\* of the other file only for the new one.
MCDetected == {<<movie, 2, 1>>, <<movie, 2, 2>>, <<extra, 1, 2>>}
=============================================================================
