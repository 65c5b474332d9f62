------------------------ MODULE WorkflowOwnershipLease ------------------------
(***************************************************************************)
(* WorkflowOwnership implements MissionLease, proved for any values of the *)
(* constants, provided that run records open.                              *)
(*                                                                         *)
(* A step changes the row of one operation or the agent of one operation,  *)
(* never both.  TableStep tells which step of the lease a change of a row  *)
(* is; Quiet tells that an operation ends without an agent and that an     *)
(* agent begins only for an operation that was taken.                      *)
(***************************************************************************)
EXTENDS WorkflowOwnershipQuiet

(* One agent comes or goes, and no row changes meanwhile.                  *)
AgentStep ==
    \/ UNCHANGED provider
    \/ /\ UNCHANGED op
       /\ \E o \in Ops, k \in {"none", "grouped", "detached"} :
             provider' = [provider EXCEPT ![o] = k]

LEMMA AgentOrRow == TypeOK /\ References /\ [Next]_vars => AgentStep
<1> SUFFICES ASSUME TypeOK, References, [Next]_vars
             PROVE  AgentStep
  OBVIOUS
<1>1. ASSUME NEW w \in Procs, ExecutorStep(w)
      PROVE  AgentStep
  <2>1. proc[w].pc # "off" => proc[w].op \in Ops
    BY DEF References
  <2>2. QED
    BY <1>1, <2>1
       DEF ExecutorStep, Claim, MissionWrite, OpenRun, AuthorizeLaunch,
           SpawnProvider, SpawnFails, ProviderStarted, LaunchRefused,
           ProviderResult, Finish, AgentStep
<1>2. ASSUME NEW s \in Stoppers, StopStep(s)
      PROVE  AgentStep
  <2>1. stop[s].pc # "idle" => stop[s].op \in Ops
    BY DEF References
  <2>2. QED
    BY <1>2, <2>1
       DEF StopStep, StopRequest, StopTerminate, StopEffects, StopCommit, AgentStep
<1>3. ASSUME NEW w \in Procs, SupervisorStep(w) \/ Crash(w)
      PROVE  AgentStep
  BY <1>3
     DEF SupervisorStep, Reserve, SupervisorError, Host, ExecutorExited,
         StartupFailed, SupervisorObserve, SupervisorCommit, Crash, AgentStep
<1>4. ASSUME Client \/ \E x \in Recoverers : RecoveryStep(x)
      PROVE  AgentStep
  BY <1>4
     DEF Client, Admit, LaunchAdmitted, EditCheck, EditApply, RecoveryStep,
         RecoverObserve, RecoverCommit, RecoverLaunch, AgentStep
<1>5. QED
  BY <1>1, <1>2, <1>3, <1>4 DEF Next, ProviderExits, vars, AgentStep

(* The two functions that the refinement computes.                         *)
StageMap == [o \in Ops |-> Stage(op[o])]
BusyMap  == [o \in Ops |-> provider[o] # "none"]

LEMMA StageMoves ==
    ASSUME NEW o \in Ops, OnlyRow(o)
    PROVE  StageMap' = [StageMap EXCEPT ![o] = Stage(op'[o])]
BY DEF OnlyRow, StageMap

LEMMA BusyMoves ==
    ASSUME TypeOK, NEW o \in Ops, NEW k \in {"none", "grouped", "detached"},
           provider' = [provider EXCEPT ![o] = k]
    PROVE  BusyMap' = [BusyMap EXCEPT ![o] = (k # "none")]
<1>1. DOMAIN provider = Ops
  BY DEF TypeOK
<1>2. \A p \in Ops : provider'[p] = IF p = o THEN k ELSE provider[p]
  BY <1>1
<1>3. \A p \in Ops : BusyMap'[p] = [BusyMap EXCEPT ![o] = (k # "none")][p]
  <2> TAKE p \in Ops
  <2>1. CASE p = o
    BY <1>2, <2>1, Zenon DEF BusyMap
  <2>2. CASE p # o
    BY <1>2, <2>2, Zenon DEF BusyMap
  <2>3. QED
    BY <2>1, <2>2
<1>4. QED
  BY <1>3, Zenon DEF BusyMap

(* A row that changes is a step of the lease, or the change is invisible.  *)
LEMMA RowIsLeaseStep ==
    ASSUME TypeOK, Quiet, Quiet', UNCHANGED provider,
           NEW o \in Ops, OnlyRow(o), Opens(o) \/ Claims(o) \/ Settles(o) \/ Updates(o)
    PROVE  [Lease!Next]_(Lease!leaseVars)
<1>1. StageMap' = [StageMap EXCEPT ![o] = Stage(op'[o])] /\ UNCHANGED BusyMap
  BY StageMoves DEF BusyMap
<1>2. op[o] \in OpRecords /\ StageMap[o] = Stage(op[o])
  BY DEF TypeOK, StageMap
<1>3. ASSUME NEW stage, Stage(op'[o]) = stage
      PROVE  Lease!Move(o, stage)
  BY <1>1, <1>3 DEF Lease!Move, StageMap, BusyMap
<1>4. CASE Opens(o)
  <2>1. Stage(op[o]) = "new" /\ Stage(op'[o]) = "waiting"
    BY <1>4 DEF Opens, Absent, Stage
  <2>2. \A p \in Ops : Stage(op[p]) \notin Lease!OpenStages
    BY <1>4
       DEF Opens, Current, IsOpen, OpenPhases, Stage, Lease!OpenStages
  <2>3. Lease!Grant(o)
    BY <1>2, <1>3, <2>1, <2>2 DEF Lease!Grant, StageMap
  <2>4. QED
    BY <2>3 DEF Lease!Next
<1>5. CASE Claims(o)
  <2>1. Stage(op[o]) = "waiting" /\ Stage(op'[o]) = "held"
    BY <1>2, <1>5, ClaimedRow DEF Claims, Claimable, Stage
  <2>2. Lease!Take(o)
    BY <1>2, <1>3, <2>1 DEF Lease!Take, StageMap
  <2>3. QED
    BY <2>2 DEF Lease!Next
<1>6. ASSUME op[o].phase \in OpenPhases, op'[o].phase \in SettledPhases
      PROVE  [Lease!Next]_(Lease!leaseVars)
  <2>1. Stage(op[o]) \in Lease!OpenStages /\ Stage(op'[o]) = "ended"
    BY <1>2, <1>6
       DEF Stage, OpenPhases, SettledPhases, Lease!OpenStages, OpRecords
  <2>2. provider[o] = "none"
    BY <1>6 DEF Quiet, Agents, SettledPhases
  <2>3. Lease!End(o)
    BY <1>2, <1>3, <2>1, <2>2 DEF Lease!End, StageMap
  <2>4. QED
    BY <2>3 DEF Lease!Next
<1>7. CASE Settles(o)
  BY <1>2, <1>6, <1>7
     DEF Settles, StopSettled, OpRecords, OpenPhases, SettledPhases
<1>8. CASE Updates(o) /\ op'[o].phase \notin SettledPhases
  <2>1. /\ op[o].phase \in OpenPhases /\ op'[o].owner = op[o].owner
        /\ op'[o].phase \in {op[o].phase, "stopping"}
    BY <1>8 DEF Updates, IsOpen
  <2>2. CASE op'[o].phase = op[o].phase
    <3>1. Stage(op'[o]) = Stage(op[o])
      BY <2>1, <2>2 DEF Stage
    <3>2. UNCHANGED StageMap
      BY <1>1, <3>1 DEF StageMap
    <3>3. QED
      BY <1>1, <3>2 DEF Lease!leaseVars, StageMap, BusyMap
  <2>3. CASE op[o].phase = "accepted" /\ op'[o].phase = "stopping"
    <3>1. Stage(op[o]) = "waiting" /\ Stage(op'[o]) = "withdrawn"
      BY <2>1, <2>3 DEF Stage, Quiet, Agents
    <3>2. Lease!Withdraw(o)
      BY <1>2, <1>3, <3>1 DEF Lease!Withdraw, StageMap
    <3>3. QED
      BY <3>2 DEF Lease!Next
  <2>4. CASE op[o].phase = "executing" /\ op'[o].phase = "stopping"
    <3>1. Stage(op[o]) = "held" /\ Stage(op'[o]) = "draining"
      BY <2>1, <2>4 DEF Stage, Quiet, Agents
    <3>2. Lease!Drain(o)
      BY <1>2, <1>3, <3>1 DEF Lease!Drain, StageMap
    <3>3. QED
      BY <3>2 DEF Lease!Next
  <2>5. QED
    BY <2>1, <2>2, <2>3, <2>4 DEF OpenPhases
<1>9. CASE Updates(o) /\ op'[o].phase \in SettledPhases
  BY <1>6, <1>9 DEF Updates, IsOpen
<1>10. QED
  BY <1>4, <1>5, <1>7, <1>8, <1>9

(* So is an agent that comes or goes.                                      *)
LEMMA AgentIsLeaseStep ==
    ASSUME TypeOK, Quiet', UNCHANGED op,
           NEW o \in Ops, NEW k \in {"none", "grouped", "detached"},
           provider' = [provider EXCEPT ![o] = k]
    PROVE  [Lease!Next]_(Lease!leaseVars)
<1>1. BusyMap' = [BusyMap EXCEPT ![o] = (k # "none")] /\ UNCHANGED StageMap
  BY BusyMoves DEF StageMap
<1>2. CASE k = "none"
  <2>1. (k # "none") = FALSE
    BY <1>2
  <2>2. Lease!Quit(o)
    BY <1>1, <2>1 DEF Lease!Quit, StageMap, BusyMap
  <2>3. QED
    BY <2>2 DEF Lease!Next
<1>3. CASE k # "none"
  <2>1. (k # "none") = TRUE
    BY <1>3
  <2>2. provider'[o] # "none"
    BY <1>3 DEF TypeOK
  <2>3. StageMap[o] \in {"held", "draining"}
    BY <2>2 DEF Quiet, Agents, StageMap, Stage
  <2>4. Lease!Begin(o)
    BY <1>1, <2>1, <2>3 DEF Lease!Begin, StageMap, BusyMap
  <2>5. QED
    BY <2>4 DEF Lease!Next
<1>4. QED
  BY <1>2, <1>3

(* If run records open, every behaviour of clients, supervisors, executors,*)
(* recovery and stops is a behaviour of the lease: operations are granted  *)
(* one at a time, agents begin only while the operation is held or         *)
(* draining, and an operation ends only when its agent is gone.            *)
THEOREM ImplementsLease == Reliable /\ Spec => LeaseSpec
<1>1. Init => Lease!Init
  <2> SUFFICES ASSUME Init
               PROVE  Lease!Init
    OBVIOUS
  <2>1. \A o \in Ops : Stage(op[o]) = "new"
    BY DEF Init, Absent, Stage
  <2>2. \A o \in Ops : (provider[o] # "none") = FALSE
    BY DEF Init
  <2>3. QED
    BY <2>1, <2>2 DEF Lease!Init
<1>2. TypeOK /\ References /\ Quiet /\ Quiet' /\ [Next]_vars
        => [Lease!Next]_(Lease!leaseVars)
  <2> SUFFICES ASSUME TypeOK, References, Quiet, Quiet', [Next]_vars
               PROVE  [Lease!Next]_(Lease!leaseVars)
    OBVIOUS
  <2>1. CASE UNCHANGED provider
    <3>1. CASE UNCHANGED op
      BY <2>1, <3>1 DEF Lease!leaseVars
    <3>2. CASE ~UNCHANGED op
      BY <2>1, <3>2, OpTableStep, RowIsLeaseStep DEF TableStep
    <3>3. QED
      BY <3>1, <3>2
  <2>2. CASE ~UNCHANGED provider
    BY <2>2, AgentOrRow, AgentIsLeaseStep DEF AgentStep
  <2>3. QED
    BY <2>1, <2>2
<1>3. QED
  BY <1>1, <1>2, QuietAlways, TypeCorrect, PTL DEF Spec, LeaseSpec, Lease!Spec

(* If run records open, two operations never have agents at work on the    *)
(* mission at once, not even one that is being stopped or whose executor   *)
(* died and the one that replaces it.                                      *)
THEOREM OneAgentAtWork == Reliable /\ Spec => []OneAgent
<1>1. Quiet /\ OneOpenOperation => OneAgent
  <2> SUFFICES ASSUME Quiet, OneOpenOperation, NEW o \in Ops, NEW p \in Ops,
                      provider[o] # "none", provider[p] # "none"
               PROVE  o = p
    BY DEF OneAgent, Lease!OneAgentHolder
  <2>1. IsOpen(op[o]) /\ IsOpen(op[p])
    BY DEF Quiet, Agents, IsOpen, OpenPhases
  <2>2. QED
    BY <2>1 DEF OneOpenOperation
<1>2. QED
  BY <1>1, QuietAlways, AtMostOneOpen, PTL
=============================================================================
