------------------------------- MODULE MCOPM -------------------------------
(* OPM for TLC.  The ids callers pass are those of the first two pools and *)
(* ERROR, which a failed createPool has answered.                          *)
EXTENDS OPM

CallerIdsOfRun == {ERROR, 0, 1}
=============================================================================
