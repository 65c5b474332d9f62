------------------------ MODULE MCMissionLifecycle ------------------------
(* Instances of MissionLifecycle for TLC: a writer that may be slow between *)
(* its read and its write, and one that stands for every prompt one.        *)
EXTENDS MissionLifecycle

CONSTANTS slow, prompt
=============================================================================
