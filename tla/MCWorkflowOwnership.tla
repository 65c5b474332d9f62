------------------------ MODULE MCWorkflowOwnership ------------------------
(* Small instances of WorkflowOwnership for TLC.                           *)
EXTENDS WorkflowOwnership, TLC

(* Processes are interchangeable, and so are stoppers.                     *)
Interchangeable == Permutations(Procs) \cup Permutations(Stoppers)
=============================================================================
