------------------------------ MODULE MCPostScan ------------------------------
(* One job and its torrent, with every infection action.                    *)
EXTENDS PostScan

MCActions == {"hold", "quarantine", "delete"}
=============================================================================
