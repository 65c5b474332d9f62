---------------------------- MODULE MissionLease ----------------------------
(***************************************************************************)
(* What a client of the workflow service may rely on, with no process,     *)
(* generation or run record in sight: one operation at a time holds the    *)
(* mission, agents run only for an operation that was taken up, and an     *)
(* operation ends only when its agent is gone.                             *)
(***************************************************************************)
CONSTANT Ops

VARIABLES
    stage,  \* how far each operation has come
    busy    \* whether an agent of the operation is running

leaseVars == <<stage, busy>>

OpenStages == {"waiting", "withdrawn", "held", "draining"}

Init ==
    /\ stage = [o \in Ops |-> "new"]
    /\ busy = [o \in Ops |-> FALSE]

Move(o, s) == stage' = [stage EXCEPT ![o] = s] /\ UNCHANGED busy

Grant(o) ==
    /\ stage[o] = "new"
    /\ \A p \in Ops : stage[p] \notin OpenStages
    /\ Move(o, "waiting")

Take(o) == stage[o] = "waiting" /\ Move(o, "held")

(* Withdrawn before it was taken, an operation never runs an agent.        *)
Withdraw(o) == stage[o] = "waiting" /\ Move(o, "withdrawn")

Drain(o) == stage[o] = "held" /\ Move(o, "draining")

(* An agent that was on its way when the draining began may still start.   *)
Begin(o) ==
    /\ stage[o] \in {"held", "draining"}
    /\ busy' = [busy EXCEPT ![o] = TRUE]
    /\ UNCHANGED stage

Quit(o) == busy' = [busy EXCEPT ![o] = FALSE] /\ UNCHANGED stage

End(o) == stage[o] \in OpenStages /\ ~busy[o] /\ Move(o, "ended")

Next == \E o \in Ops :
    \/ Grant(o) \/ Take(o) \/ Withdraw(o) \/ Drain(o)
    \/ Begin(o) \/ Quit(o) \/ End(o)

Spec == Init /\ [][Next]_leaseVars

(* Two operations never have agents at work on the mission at once.        *)
OneAgentHolder ==
    \A o, p \in Ops : busy[o] /\ busy[p] => o = p
=============================================================================
