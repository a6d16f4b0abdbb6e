---------------------------- MODULE MCPostPromotion ----------------------------
(* Two jobs, with copying, a script or nothing after the promotion.          *)
EXTENDS PostPromotion

CONSTANTS j1, j2

MCJobs == {j1, j2}
MCModes == {"off", "script", "copy"}
=============================================================================
