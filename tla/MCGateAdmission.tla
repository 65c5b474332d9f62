--------------------------- MODULE MCGateAdmission ---------------------------
(* Small instances of GateAdmission for TLC.                               *)
EXTENDS GateAdmission

CONSTANTS r1, r2

(* Two gates share a resource and run one after the other, then one that   *)
(* is not tagged.                                                          *)
Phases == {"unit", "browser", "lint"}
Serial ==
  [g \in Phases |-> CASE g = "browser" -> {"unit"} [] g = "lint" -> {"browser"} [] OTHER -> {}]
Free == [g \in Phases |-> {}]
Tests == [g \in Phases |-> IF g = "lint" THEN "run" ELSE "test"]

(* Whole runs exclude each other, or only the tests do; or the repository  *)
(* of one run allows two runs and that of the other does not.              *)
Capacity(n) == [p \in {"run", "test"} |-> IF p = "run" THEN n ELSE 1]
Mixed == {[r \in Runs |-> Capacity(2)], [r \in Runs |-> IF r = r1 THEN Capacity(1) ELSE Capacity(2)]}
Separate == {[r \in Runs |-> Capacity(1)]}
=============================================================================
