---------------------------- MODULE MCSupervisor ----------------------------
(* Small instances of Supervisor for TLC.                                  *)
EXTENDS Supervisor, TLC

CONSTANTS s1, s2

(* Two runs of px lead are interchangeable.                                *)
Interchangeable == Permutations(Sups)
=============================================================================
