--------------------------- MODULE ExclusiveClaim ---------------------------
(***************************************************************************)
(* What those who use a claim rely on (the recovery of a mission, the      *)
(* checkout of an integration base, the one operation open on a mission):  *)
(* whoever gets it gets it free, and nobody gets it from somebody else.    *)
(***************************************************************************)
CONSTANT Runs

VARIABLE holders

Init == holders = {}

Take(r) == holders = {} /\ holders' = {r}

Leave(r) == holders = {r} /\ holders' = {}

Next == \E r \in Runs : Take(r) \/ Leave(r)

Spec == Init /\ [][Next]_holders
=============================================================================
