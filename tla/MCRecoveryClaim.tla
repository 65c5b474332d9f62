--------------------------- MODULE MCRecoveryClaim ---------------------------
(* Small instances of RecoveryClaim for TLC.                               *)
EXTENDS RecoveryClaim, TLC

(* The callers are interchangeable.                                        *)
Interchangeable == Permutations(Callers)

(* A crowd is in this instance one from the start (no three survive a      *)
(* fourth), and then only run two_holders says something of it.            *)
Uncrowded == ~crowded
=============================================================================
