------------------------ MODULE WorkflowOwnershipQuiet ------------------------
(***************************************************************************)
(* What is settled is quiet, proved for any number of operations,          *)
(* processes, recovery workers, stoppers and editors, any bounds, provided *)
(* that run records open.                                                  *)
(*                                                                         *)
(* Quiet says why.  An agent is on record (Agents); whoever is at work owns*)
(* its operation, which is not settled (Executors); a verdict that an owner*)
(* is dead stays true until it is committed (Deaths); and so does what a   *)
(* stop has found out (Stops).                                             *)
(***************************************************************************)
EXTENDS WorkflowOwnershipSafety

(* An agent runs only for an operation that was claimed and not settled,   *)
(* and a run record names it.                                              *)
Agents ==
    \A o \in Ops :
        /\ provider[o] # "none" <=> "live" \in runs[o]
        /\ provider[o] # "none" => /\ op[o].phase \in {"executing", "stopping"}
                                   /\ op[o].owner # NoProc
        /\ op[o].phase = "executing" => op[o].owner # NoProc
        /\ op[o].phase = "accepted" => op[o].owner = NoProc

(* A process at work is the recorded owner of an operation that is not     *)
(* settled.  Between two agents none is alive.                             *)
Executors ==
    \A w \in Procs : AtWork(w) =>
        /\ op[proc[w].op].phase \in {"executing", "stopping"}
        /\ op[proc[w].op].owner = w
        /\ proc[w].pc \in {"captured", "authorized"} => "open" \in runs[proc[w].op]
        /\ proc[w].pc \in {"dispatch", "captured", "authorized", "failed"} =>
              provider[proc[w].op] = "none"

(* The owner that a verdict calls dead is still dead, and left nothing.    *)
DeathOf(x, o) ==
    /\ op[o].phase \notin {"none", "accepted"}
    /\ observed[x].verdict = "dead" /\ IsOpen(op[o]) =>
          op[o].owner # NoProc /\ ~Running(op[o].owner) /\ runs[o] = {}

Deaths ==
    \A x \in Reconcilers : observed[x] # NoVerdict => DeathOf(x, observed[x].op)

(* An owner that a stop saw terminated stays so; when the effects are      *)
(* settled no agent can be started any more.                               *)
StopOf(s, o) ==
    /\ op[o].phase \in {"stopping"} \cup SettledPhases
    /\ stop[s].owner = op[o].owner
    /\ stop[s].pc # "terminate" /\ stop[s].ownerStopped /\ stop[s].owner # NoProc =>
          ~Running(stop[s].owner)
    /\ stop[s].pc = "commit" /\ op[o].phase = "stopping" =>
          /\ provider[o] = "none"
          /\ \A w \in Procs : proc[w].op = o => proc[w].pc # "authorized"

Stops == \A s \in Stoppers : stop[s].pc # "idle" => StopOf(s, stop[s].op)

Quiet == Agents /\ Executors /\ Deaths /\ Stops

(* Run records open, as the instances for TLC assume as well.              *)
Reliable == CaptureMayFail = FALSE

-----------------------------------------------------------------------------
(* A claimed row is executing and has its owner.                           *)
LEMMA ClaimedRow ==
    \A r \in OpRecords, w \in Procs :
        Claimed(r, w).phase = "executing" /\ Claimed(r, w).owner = w
BY DEF OpRecords, Claimed

(* What a step does to a row that was taken up or withdrawn.               *)
LEMMA LateRow ==
    ASSUME TypeOK, TableStep, NEW o \in Ops, op[o].phase \notin {"none", "accepted"}
    PROVE  /\ op'[o].owner = op[o].owner
           /\ op'[o].phase \notin {"none", "accepted"}
           /\ op[o].phase \in {"stopping"} \cup SettledPhases =>
                 op'[o].phase \in {"stopping"} \cup SettledPhases
           /\ op'[o].phase \in {"executing", "stopping"} =>
                 op[o].phase \in {"executing", "stopping"}
           /\ op'[o].phase = "executing" => op[o].phase = "executing"
<1>1. op[o] \in OpRecords /\ op[o] # Absent /\ ~Claimable(op[o])
  BY DEF TypeOK, Absent, Claimable
<1>2. CASE op'[o] = op[o]
  BY <1>2
<1>3. CASE Settles(o)
  BY <1>1, <1>3 DEF Settles, StopSettled, OpRecords, SettledPhases
<1>4. CASE Updates(o)
  BY <1>1, <1>4 DEF Updates, IsOpen, OpenPhases, SettledPhases
<1>5. QED
  BY <1>1, <1>2, <1>3, <1>4 DEF TableStep, OnlyRow, Opens, Claims

(* Only a process identity that nothing durable or awaited names comes to  *)
(* life.                                                                   *)
LEMMA Starts ==
    TypeOK /\ References /\ [Next]_vars =>
        \A v \in Procs : Running(v)' => Running(v) \/ Unreferenced(v)
<1> DEFINE Goal == \A v \in Procs : Running(v)' => Running(v) \/ Unreferenced(v)
<1> SUFFICES ASSUME TypeOK, References, [Next]_vars
             PROVE  Goal
  OBVIOUS
<1>0. ProcOK
  BY DEF TypeOK, ProcOK
<1>1. ASSUME UNCHANGED proc
      PROVE  Goal
  BY <1>1 DEF Running
<1>2. ASSUME NEW w \in Procs, Running(w), \E pc : Goto(w, pc)
      PROVE  Goal
  BY <1>0, <1>2 DEF Goto, Running, ProcOK
<1>3. ASSUME NEW w \in Procs, Exit(w)
      PROVE  Goal
  BY <1>0, <1>3 DEF Exit, Running, ProcOK, Idle
<1>4. ASSUME NEW w \in Procs, NEW o \in Ops, Free(w),
             proc' = [proc EXCEPT ![w] = Supervisor(o)]
      PROVE  Goal
  BY <1>0, <1>4 DEF Free, Running, ProcOK
<1>5. ASSUME NEW w \in Procs, Host(w)
      PROVE  Goal
  BY <1>0, <1>5 DEF Host, Free, Running, ProcOK
<1>6. ASSUME NEW w \in Procs, Claim(w)
      PROVE  Goal
  BY <1>0, <1>3, <1>6 DEF Claim, Running, ProcOK
<1>7. ASSUME NEW s \in Stoppers, StopTerminate(s)
      PROVE  Goal
  BY <1>7 DEF StopTerminate, Running, Idle
<1>8. CASE UNCHANGED vars
  BY <1>1, <1>8 DEF vars
<1>9. CASE Client
  BY <1>1, <1>4, <1>9 DEF Client, Admit, EditCheck, EditApply, LaunchAdmitted
<1>10. ASSUME NEW w \in Procs, SupervisorStep(w)
       PROVE  Goal
  BY <1>1, <1>2, <1>3, <1>5, <1>10
     DEF SupervisorStep, SupervisorObserve, Reserve, SupervisorError,
         ExecutorExited, StartupFailed, SupervisorCommit, Running
<1>11. ASSUME NEW w \in Procs, ExecutorStep(w)
       PROVE  Goal
  BY <1>1, <1>2, <1>3, <1>6, <1>11
     DEF ExecutorStep, MissionWrite, OpenRun, AuthorizeLaunch, SpawnProvider,
         SpawnFails, ProviderStarted, LaunchRefused, ProviderResult, Finish,
         Running
<1>12. ASSUME NEW x \in Recoverers, RecoveryStep(x)
       PROVE  Goal
  BY <1>1, <1>4, <1>12 DEF RecoveryStep, RecoverObserve, RecoverCommit, RecoverLaunch
<1>13. ASSUME NEW s \in Stoppers, StopStep(s)
       PROVE  Goal
  BY <1>1, <1>7, <1>13 DEF StopStep, StopRequest, StopEffects, StopCommit
<1>14. QED
  BY <1>1, <1>3, <1>8, <1>9, <1>10, <1>11, <1>12, <1>13 DEF Next, ProviderExits, Crash

(* A process at work was there already and did nothing, or it is the one   *)
(* that acts.                                                              *)
Rests(v) == AtWork(v)' => proc'[v] = proc[v]

LEMMA RestUnlessMoved ==
    ASSUME ProcOK, NEW w \in Procs,
           \/ Exit(w)
           \/ \E pc : pc \notin DispatchPcs /\ Goto(w, pc)
           \/ \E o \in Ops : proc' = [proc EXCEPT ![w] = Supervisor(o)]
    PROVE  \A v \in Procs : Rests(v)
<1>1. \A v \in Procs : v # w => proc'[v] = proc[v]
  BY DEF ProcOK, Exit, Goto
<1>2. proc'[w].pc \notin DispatchPcs
  <2>1. CASE Exit(w)
    BY <2>1 DEF ProcOK, Exit, Idle, DispatchPcs
  <2>2. ASSUME NEW pc, pc \notin DispatchPcs, Goto(w, pc)
        PROVE  proc'[w].pc \notin DispatchPcs
    BY <2>2 DEF ProcOK, ProcRecords, Goto
  <2>3. ASSUME NEW o \in Ops, proc' = [proc EXCEPT ![w] = Supervisor(o)]
        PROVE  proc'[w].pc \notin DispatchPcs
    BY <2>3 DEF ProcOK, Supervisor, Idle, DispatchPcs
  <2>4. QED
    BY <2>1, <2>2, <2>3
<1>3. QED
  BY <1>1, <1>2 DEF Rests, AtWork

LEMMA RestOthers ==
    ASSUME ProcOK, NEW w \in Procs, \E pc : Goto(w, pc)
    PROVE  \A v \in Procs : v # w => Rests(v)
BY DEF ProcOK, Goto, Rests

LEMMA WhoWorks ==
    TypeOK /\ References /\ [Next]_vars =>
        \A v \in Procs : Rests(v) \/ Claim(v) \/ ExecutorStep(v)
<1> DEFINE Goal == \A v \in Procs : Rests(v) \/ Claim(v) \/ ExecutorStep(v)
<1> SUFFICES ASSUME TypeOK, References, [Next]_vars
             PROVE  Goal
  OBVIOUS
<1>0. ProcOK
  BY DEF TypeOK, ProcOK
<1>1. ASSUME UNCHANGED proc
      PROVE  Goal
  BY <1>1 DEF Rests
<1>2. ASSUME NEW w \in Procs,
             \/ Reserve(w) \/ SupervisorError(w) \/ ExecutorExited(w)
             \/ StartupFailed(w) \/ SupervisorCommit(w) \/ Crash(w)
             \/ SupervisorObserve(w) /\ Exit(w)
      PROVE  Goal
  BY <1>0, <1>2, RestUnlessMoved
     DEF Reserve, SupervisorError, ExecutorExited, StartupFailed,
         SupervisorCommit, Crash, DispatchPcs
<1>3. ASSUME NEW w \in Procs, Host(w)
      PROVE  Goal
  BY <1>0, <1>3
     DEF Host, ProcOK, ProcRecords, Idle, Rests, AtWork, DispatchPcs
<1>4. ASSUME NEW w \in Procs, ExecutorStep(w)
      PROVE  Goal
  <2>1. \/ UNCHANGED proc
        \/ Exit(w)
        \/ \E pc : Goto(w, pc)
        \/ Claim(w)
    BY <1>4
       DEF ExecutorStep, MissionWrite, OpenRun, AuthorizeLaunch, SpawnProvider,
           SpawnFails, ProviderStarted, LaunchRefused, ProviderResult, Finish
  <2>2. CASE Claim(w) /\ Claimable(op[proc[w].op])
    BY <1>0, <1>4, <2>2 DEF Claim, ProcOK, Rests
  <2>3. CASE Claim(w) /\ ~Claimable(op[proc[w].op])
    BY <1>0, <2>3, RestUnlessMoved DEF Claim
  <2>4. QED
    BY <1>0, <1>1, <1>4, <2>1, <2>2, <2>3, RestUnlessMoved, RestOthers
<1>6. ASSUME NEW s \in Stoppers, StopTerminate(s)
      PROVE  Goal
  <2>1. \A v \in Procs : proc'[v] = Idle \/ proc'[v] = proc[v]
    BY <1>6 DEF StopTerminate
  <2>2. QED
    BY <2>1 DEF Rests, AtWork, Idle, DispatchPcs
<1>7. ASSUME \/ \E o \in Ops : LaunchAdmitted(o)
             \/ \E x \in Recoverers : RecoverLaunch(x)
      PROVE  Goal
  BY <1>0, <1>1, <1>7, RestUnlessMoved DEF LaunchAdmitted, RecoverLaunch
<1>8. CASE UNCHANGED vars
  BY <1>1, <1>8 DEF vars
<1>9. CASE Client
  BY <1>1, <1>7, <1>9 DEF Client, Admit, EditCheck, EditApply
<1>10. ASSUME NEW w \in Procs, SupervisorStep(w)
       PROVE  Goal
  BY <1>1, <1>2, <1>3, <1>10 DEF SupervisorStep, SupervisorObserve
<1>12. ASSUME NEW x \in Recoverers, RecoveryStep(x)
       PROVE  Goal
  BY <1>1, <1>7, <1>12 DEF RecoveryStep, RecoverObserve, RecoverCommit
<1>13. ASSUME NEW s \in Stoppers, StopStep(s)
       PROVE  Goal
  BY <1>1, <1>6, <1>13 DEF StopStep, StopRequest, StopEffects, StopCommit
<1>14. QED
  BY <1>1, <1>2, <1>4, <1>8, <1>9, <1>10, <1>12, <1>13
     DEF Next, ProviderExits

(* How agents and run records come and go: an agent appears by a spawn, a  *)
(* record by the executor that launches, and a record without a process is *)
(* closed by nobody but the process that opened it, or by its death.       *)
Appears(o) ==
    /\ provider'[o] # "none" /\ provider[o] = "none" =>
          \E w \in Procs : SpawnProvider(w) /\ proc[w].op = o
    /\ runs'[o] # {} /\ runs[o] = {} =>
          \E w \in Procs : OpenRun(w) /\ proc[w].op = o

Closes(o) ==
    "open" \in runs[o] /\ "open" \notin runs'[o] =>
        \E w \in Procs : /\ proc[w].pc \in {"captured", "authorized"}
                         /\ proc[w].op = o /\ proc'[w] # proc[w]

(* A living agent is named by a record.                                    *)
Named(o) == provider'[o] # "none" <=> "live" \in runs'[o]

LEMMA AgentsComeAndGo ==
    ASSUME TypeOK, References, Quiet, Reliable, [Next]_vars, NEW o \in Ops
    PROVE  Appears(o) /\ Closes(o) /\ Named(o)
<1> DEFINE Goal == Appears(o) /\ Closes(o) /\ Named(o)
<1>0. provider[o] # "none" <=> "live" \in runs[o]
  BY DEF Quiet, Agents
<1>1. ASSUME UNCHANGED <<provider, runs>>
      PROVE  Goal
  BY <1>0, <1>1 DEF Appears, Closes, Named
<1>2. ASSUME NEW w \in Procs, OpenRun(w)
      PROVE  Goal
  <2>1. proc[w].op \in Ops
    BY <1>2 DEF References, OpenRun
  <2>2. QED
    BY <1>0, <1>2, <2>1 DEF TypeOK, OpenRun, Reliable, Appears, Closes, Named
<1>3. ASSUME NEW w \in Procs, AuthorizeLaunch(w) \/ SpawnFails(w)
      PROVE  Goal
  <2>1. proc[w].op \in Ops /\ proc[w].pc \in {"captured", "authorized"}
        /\ proc'[w] # proc[w] /\ UNCHANGED provider
    BY <1>3
       DEF TypeOK, ProcRecords, References, AuthorizeLaunch, SpawnFails, Goto
  <2>2. runs' = runs \/ Unlaunched(proc[w].op)
    BY <1>3 DEF AuthorizeLaunch, SpawnFails
  <2>3. QED
    BY <1>0, <2>1, <2>2 DEF TypeOK, Unlaunched, Appears, Closes, Named
<1>4. ASSUME NEW w \in Procs, SpawnProvider(w)
      PROVE  Goal
  <2>1. proc[w].op \in Ops /\ proc'[w] # proc[w] /\ proc[w].pc = "authorized"
    BY <1>4 DEF TypeOK, ProcRecords, References, SpawnProvider, Goto
  <2>2. "open" \in runs[proc[w].op]
    BY <2>1 DEF Quiet, Executors, AtWork, DispatchPcs
  <2>3. QED
    BY <1>0, <1>4, <2>1, <2>2 DEF TypeOK, SpawnProvider, Appears, Closes, Named
<1>5. ASSUME NEW w \in Procs, LaunchRefused(w)
      PROVE  Goal
  BY <1>0, <1>5 DEF TypeOK, References, LaunchRefused, Appears, Closes, Named
<1>6. ASSUME NEW p \in Ops, ProviderExits(p)
      PROVE  Goal
  BY <1>0, <1>6 DEF TypeOK, ProviderExits, Appears, Closes, Named
<1>7. ASSUME NEW w \in Procs, Crash(w)
      PROVE  Goal
  BY <1>0, <1>7
     DEF TypeOK, ProcRecords, Crash, Exit, Idle, RunsAfterDeath, Appears, Closes, Named
<1>8. ASSUME NEW s \in Stoppers, StopTerminate(s)
      PROVE  Goal
  <2>1. CASE UNCHANGED <<provider, runs>>
    BY <1>1, <2>1
  <2>2. CASE /\ stop[s].owner \in Procs /\ proc'[stop[s].owner] = Idle
             /\ provider' = [provider EXCEPT ![stop[s].op] = "none"]
             /\ runs' = [runs EXCEPT ![stop[s].op] =
                   RunsAfterDeath(stop[s].owner, stop[s].op) \ {"live"}]
    BY <1>0, <2>2 DEF TypeOK, RunsAfterDeath, Idle, Appears, Closes, Named
  <2>3. QED
    BY <1>8, <2>1, <2>2 DEF TypeOK, StopRecords, StopTerminate
<1>9. ASSUME NEW s \in Stoppers, StopEffects(s)
      PROVE  Goal
  BY <1>0, <1>9 DEF TypeOK, References, StopEffects, Appears, Closes, Named
<1>10. QED
  <2>1. CASE UNCHANGED vars
    BY <1>1, <2>1 DEF vars
  <2>2. CASE Client
    BY <1>1, <2>2 DEF Client, Admit, LaunchAdmitted, EditCheck, EditApply
  <2>3. ASSUME NEW w \in Procs, SupervisorStep(w)
        PROVE  Goal
    BY <1>1, <2>3
       DEF SupervisorStep, Reserve, SupervisorError, Host, ExecutorExited,
           StartupFailed, SupervisorObserve, SupervisorCommit
  <2>4. ASSUME NEW w \in Procs, ExecutorStep(w)
        PROVE  Goal
    BY <1>1, <1>2, <1>3, <1>4, <1>5, <2>4
       DEF ExecutorStep, Claim, MissionWrite, ProviderStarted, ProviderResult,
           Finish
  <2>5. ASSUME NEW x \in Recoverers, RecoveryStep(x)
        PROVE  Goal
    BY <1>1, <2>5 DEF RecoveryStep, RecoverObserve, RecoverCommit, RecoverLaunch
  <2>6. ASSUME NEW s \in Stoppers, StopStep(s)
        PROVE  Goal
    BY <1>1, <1>8, <1>9, <2>6 DEF StopStep, StopRequest, StopCommit
  <2>7. QED
    BY <1>6, <1>7, <2>1, <2>2, <2>3, <2>4, <2>5, <2>6 DEF Next

(* An operation that is being settled has no agent, and nobody goes on     *)
(* working for it: its executor settles it itself, or was dead.            *)
QuietEnd(o) ==
    op[o].phase \notin SettledPhases /\ op'[o].phase \in SettledPhases =>
        /\ provider[o] = "none"
        /\ UNCHANGED provider
        /\ \A v \in Procs : proc[v].op = o => ~(AtWork(v) /\ proc'[v] = proc[v])

LEMMA VerdictEnds ==
    ASSUME TypeOK, References, Quiet, NEW x \in Reconcilers, CommitVerdict(x),
           UNCHANGED provider, NEW o \in Ops
    PROVE  QuietEnd(o)
<1> SUFFICES ASSUME op[o].phase \notin SettledPhases, op'[o].phase \in SettledPhases
             PROVE  /\ provider[o] = "none"
                    /\ \A v \in Procs : proc[v].op = o => ~AtWork(v)
  BY DEF QuietEnd
<1>1. observed[x].op \in Ops /\ observed[x] # NoVerdict
  BY DEF References, CommitVerdict
<1>2. o = observed[x].op /\ IsOpen(op[o]) /\ observed[x].verdict = "dead"
  BY <1>1 DEF TypeOK, OpRecords, CommitVerdict, Lost, SettledPhases
<1>3. op[o].owner # NoProc /\ ~Running(op[o].owner) /\ runs[o] = {}
  BY <1>1, <1>2 DEF Quiet, Deaths, DeathOf
<1>4. QED
  BY <1>3 DEF Quiet, Agents, Executors, Running, AtWork, DispatchPcs

LEMMA StopEnds ==
    ASSUME TypeOK, References, Quiet, NEW s \in Stoppers, StopCommit(s), NEW o \in Ops
    PROVE  QuietEnd(o)
<1> SUFFICES ASSUME op[o].phase \notin SettledPhases, op'[o].phase \in SettledPhases
             PROVE  /\ provider[o] = "none"
                    /\ \A v \in Procs : proc[v].op = o => ~AtWork(v)
  BY DEF QuietEnd, StopCommit
<1> DEFINE v == stop[s]
<1>1. v.op \in Ops /\ v.pc = "commit"
  BY DEF References, StopCommit
<1>2. /\ o = v.op /\ op[o].phase = "stopping"
      /\ v.ownerStopped \/ KnownDead(v.owner)
  BY <1>1 DEF TypeOK, StopCommit, SettledPhases
<1>3. StopOf(s, o)
  BY <1>1, <1>2 DEF Quiet, Stops
<1>4. provider[o] = "none" /\ v.owner = op[o].owner
  BY <1>1, <1>2, <1>3 DEF StopOf
<1>5. v.owner = NoProc \/ ~Running(v.owner)
  BY <1>1, <1>2, <1>3 DEF StopOf, KnownDead, Alive
<1>6. \A w \in Procs : AtWork(w) => Running(w) /\ w # NoProc
  BY ConstantAssumption DEF AtWork, Running, DispatchPcs
<1>7. QED
  BY <1>4, <1>5, <1>6 DEF Quiet, Executors

LEMMA Ends ==
    ASSUME TypeOK, References, Quiet, [Next]_vars, NEW o \in Ops
    PROVE  QuietEnd(o)
<1>1. ASSUME op'[o].phase = op[o].phase \/ op'[o].phase \notin SettledPhases
      PROVE  QuietEnd(o)
  BY <1>1 DEF QuietEnd
<1>2. ASSUME NEW w \in Procs, SupervisorStep(w)
      PROVE  QuietEnd(o)
  <2>0. proc[w].pc # "off" => proc[w].op \in Ops
    BY DEF References
  <2>1. CASE Reserve(w)
    <3>1. op'[o].phase = op[o].phase
      BY <2>0, <2>1 DEF Reserve, TypeOK, OpRecords
    <3>2. QED
      BY <1>1, <3>1
  <2>2. CASE StartupFailed(w)
    <3>1. CASE op'[o] = op[o]
      BY <1>1, <3>1
    <3>2. CASE op'[o] # op[o]
      <4>1. Claimable(op[o]) /\ UNCHANGED provider
        BY <2>0, <2>2, <3>2 DEF StartupFailed, TypeOK
      <4>2. QED
        BY <4>1 DEF Quiet, Agents, Executors, Claimable, QuietEnd
    <3>3. QED
      BY <3>1, <3>2
  <2>3. CASE SupervisorCommit(w)
    BY <2>3, VerdictEnds DEF SupervisorCommit, Reconcilers
  <2>4. QED
    BY <1>1, <1>2, <2>1, <2>2, <2>3
       DEF SupervisorStep, SupervisorError, Host, ExecutorExited, SupervisorObserve
<1>3. ASSUME NEW w \in Procs, ExecutorStep(w)
      PROVE  QuietEnd(o)
  <2>0. proc[w].pc # "off" => proc[w].op \in Ops
    BY DEF References
  <2>1. CASE Claim(w)
    <3>1. op'[o].phase \in {op[o].phase, "executing"}
      BY <2>0, <2>1, ClaimedRow DEF Claim, TypeOK
    <3>2. QED
      BY <1>1, <3>1 DEF SettledPhases
  <2>2. CASE ProviderStarted(w)
    BY <1>1, <2>0, <2>2 DEF ProviderStarted, TypeOK, OpRecords
  <2>3. ASSUME NEW success \in BOOLEAN, Finish(w, success)
        PROVE  QuietEnd(o)
    <3>1. CASE op'[o] = op[o]
      BY <1>1, <3>1
    <3>2. CASE op'[o] # op[o]
      <4>1. /\ o = proc[w].op /\ proc[w].pc \in {"dispatch", "failed"}
            /\ UNCHANGED provider /\ Exit(w)
        BY <2>0, <2>3, <3>2 DEF Finish, TypeOK
      <4>2. provider[o] = "none" /\ op[o].owner = w
        BY <4>1 DEF Quiet, Executors, AtWork, DispatchPcs
      <4>3. proc'[w] # proc[w]
        BY <4>1 DEF Exit, TypeOK, Idle
      <4>4. QED
        BY <4>1, <4>2, <4>3 DEF Quiet, Executors, QuietEnd
    <3>3. QED
      BY <3>1, <3>2
  <2>4. QED
    BY <1>1, <1>3, <2>1, <2>2, <2>3
       DEF ExecutorStep, MissionWrite, OpenRun, AuthorizeLaunch, SpawnProvider,
           SpawnFails, LaunchRefused, ProviderResult
<1>4. ASSUME NEW x \in Recoverers, RecoveryStep(x)
      PROVE  QuietEnd(o)
  BY <1>1, <1>4, VerdictEnds
     DEF RecoveryStep, RecoverObserve, RecoverCommit, RecoverLaunch, Reconcilers
<1>5. ASSUME NEW s \in Stoppers, StopStep(s)
      PROVE  QuietEnd(o)
  <2>1. CASE StopRequest(s)
    BY <1>1, <2>1 DEF StopRequest, Current, TypeOK, OpRecords, SettledPhases
  <2>2. CASE StopCommit(s)
    BY <2>2, StopEnds
  <2>3. QED
    BY <1>1, <1>5, <2>1, <2>2 DEF StopStep, StopTerminate, StopEffects
<1>6. ASSUME Client
      PROVE  QuietEnd(o)
  <2>1. ASSUME NEW p \in Ops, NEW c \in Commands, Admit(p, c)
        PROVE  QuietEnd(o)
    BY <1>1, <2>1 DEF Admit, TypeOK, Absent, SettledPhases
  <2>2. QED
    BY <1>1, <1>6, <2>1 DEF Client, LaunchAdmitted, EditCheck, EditApply
<1>7. QED
  BY <1>1, <1>2, <1>3, <1>4, <1>5, <1>6 DEF Next, Crash, ProviderExits, vars

-----------------------------------------------------------------------------
(* Quiet is inductive.                                                     *)

LEMMA AgentsStep ==
    ASSUME TypeOK, References, Quiet, Reliable, [Next]_vars
    PROVE  Agents'
<1>1. TableStep
  BY OpTableStep
<1>2. SUFFICES ASSUME NEW o \in Ops
               PROVE  /\ Named(o)
                      /\ provider'[o] # "none" =>
                            /\ op'[o].phase \in {"executing", "stopping"}
                            /\ op'[o].owner # NoProc
                      /\ op'[o].phase = "executing" => op'[o].owner # NoProc
                      /\ op'[o].phase = "accepted" => op'[o].owner = NoProc
  BY DEF Agents, Named
<1>3. ASSUME provider'[o] # "none"
      PROVE  op'[o].phase \in {"executing", "stopping"} /\ op'[o].owner # NoProc
  <2>1. CASE provider[o] # "none"
    <3>1. op[o].phase \in {"executing", "stopping"} /\ op[o].owner # NoProc
      BY <2>1 DEF Quiet, Agents
    <3>2. op'[o].owner = op[o].owner /\ op'[o].phase \notin {"none", "accepted"}
      BY <1>1, <3>1, LateRow
    <3>3. op'[o].phase \notin SettledPhases
      BY <2>1, <3>1, Ends DEF QuietEnd, SettledPhases
    <3>4. op'[o].phase \in {"none"} \cup OpenPhases \cup SettledPhases
      BY TypeStep DEF TypeOK, OpRecords
    <3>5. QED
      BY <3>1, <3>2, <3>3, <3>4 DEF OpenPhases
  <2>2. CASE provider[o] = "none"
    <3>1. PICK w \in Procs : SpawnProvider(w) /\ proc[w].op = o
      BY <1>3, <2>2, AgentsComeAndGo DEF Appears
    <3>2. UNCHANGED op /\ AtWork(w) /\ w # NoProc
      BY <3>1, ConstantAssumption
         DEF SpawnProvider, AtWork, DispatchPcs
    <3>3. QED
      BY <3>1, <3>2 DEF Quiet, Executors
  <2>3. QED
    BY <2>1, <2>2
<1>4. op[o] \in OpRecords
  BY DEF TypeOK
<1>5. /\ op'[o].phase = "executing" => op'[o].owner # NoProc
      /\ op'[o].phase = "accepted" => op'[o].owner = NoProc
  <2>1. CASE op'[o] = op[o]
    BY <2>1 DEF Quiet, Agents
  <2>2. CASE Opens(o)
    BY <2>2 DEF Opens
  <2>3. CASE Claims(o)
    BY <1>4, <2>3, ClaimedRow, ConstantAssumption DEF Claims
  <2>4. CASE Settles(o)
    BY <1>4, <2>4 DEF Settles, StopSettled, OpRecords
  <2>5. CASE Updates(o)
    BY <2>5 DEF Updates, SettledPhases, Quiet, Agents
  <2>6. QED
    BY <1>1, <2>1, <2>2, <2>3, <2>4, <2>5 DEF TableStep, OnlyRow
<1>6. QED
  BY <1>3, <1>5, AgentsComeAndGo

(* A process that stays at work while others act still has its operation.  *)
LEMMA RestingExecutor ==
    ASSUME TypeOK, References, Quiet, Reliable, [Next]_vars,
           NEW v \in Procs, AtWork(v), proc'[v] = proc[v],
           NEW o \in Ops, o = proc[v].op
    PROVE  /\ op'[o].phase \in {"executing", "stopping"}
           /\ op'[o].owner = v
           /\ proc[v].pc \in {"captured", "authorized"} => "open" \in runs'[o]
           /\ proc[v].pc \in {"dispatch", "captured", "authorized", "failed"} =>
                 provider'[o] = "none"
<1>1. op[o].phase \in {"executing", "stopping"} /\ op[o].owner = v
  BY DEF Quiet, Executors
<1>2. \A w \in Procs : AtWork(w) /\ proc[w].op = o => w = v
  BY <1>1 DEF Quiet, Executors
<1>3. op'[o].owner = v /\ op'[o].phase \notin {"none", "accepted"}
  BY <1>1, OpTableStep, LateRow
<1>4. op'[o].phase \notin SettledPhases
  BY <1>1, Ends DEF QuietEnd, SettledPhases
<1>5. op'[o].phase \in {"none"} \cup OpenPhases \cup SettledPhases
  BY TypeStep DEF TypeOK, OpRecords
<1>6. ASSUME proc[v].pc \in {"captured", "authorized"}, "open" \notin runs'[o]
      PROVE  FALSE
  <2>1. "open" \in runs[o]
    BY <1>6 DEF Quiet, Executors
  <2>2. PICK w \in Procs : /\ proc[w].pc \in {"captured", "authorized"}
                           /\ proc[w].op = o /\ proc'[w] # proc[w]
    BY <1>6, <2>1, AgentsComeAndGo DEF Closes
  <2>3. QED
    BY <1>2, <2>2 DEF AtWork, DispatchPcs
<1>7. ASSUME proc[v].pc \in {"dispatch", "captured", "authorized", "failed"},
             provider'[o] # "none"
      PROVE  FALSE
  <2>1. provider[o] = "none"
    BY <1>7 DEF Quiet, Executors
  <2>2. PICK w \in Procs : SpawnProvider(w) /\ proc[w].op = o
    BY <1>7, <2>1, AgentsComeAndGo DEF Appears
  <2>3. w = v
    BY <1>2, <2>2 DEF SpawnProvider, AtWork, DispatchPcs
  <2>4. proc'[w].pc = "spawned" /\ proc[w].pc = "authorized"
    BY <2>2 DEF SpawnProvider, Goto, TypeOK, ProcRecords
  <2>5. QED
    BY <2>3, <2>4
<1>8. QED
  BY <1>3, <1>4, <1>5, <1>6, <1>7 DEF OpenPhases

LEMMA ActingExecutor ==
    ASSUME TypeOK, References, Quiet, Reliable, [Next]_vars,
           NEW v \in Procs, AtWork(v)', Claim(v) \/ ExecutorStep(v),
           proc'[v] # proc[v],
           NEW o \in Ops, o = proc'[v].op
    PROVE  /\ op'[o].phase \in {"executing", "stopping"}
           /\ op'[o].owner = v
           /\ proc'[v].pc \in {"captured", "authorized"} => "open" \in runs'[o]
           /\ proc'[v].pc \in {"dispatch", "captured", "authorized", "failed"} =>
                 provider'[o] = "none"
<1> DEFINE Goal ==
       /\ op'[o].phase \in {"executing", "stopping"}
       /\ op'[o].owner = v
       /\ proc'[v].pc \in {"captured", "authorized"} => "open" \in runs'[o]
       /\ proc'[v].pc \in {"dispatch", "captured", "authorized", "failed"} =>
             provider'[o] = "none"
<1>0. ProcOK
  BY DEF TypeOK, ProcOK
<1>1. ASSUME Exit(v)
      PROVE  FALSE
  BY <1>0, <1>1 DEF ProcOK, Exit, Idle, AtWork, DispatchPcs
<1>2. ASSUME Claim(v)
      PROVE  Goal
  <2>1. /\ Claimable(op[proc[v].op])
        /\ op' = [op EXCEPT ![proc[v].op] = Claimed(op[proc[v].op], v)]
        /\ proc' = [proc EXCEPT ![v].pc = "dispatch",
                                ![v].gen = op[proc[v].op].gen + 1]
    BY <1>1, <1>2 DEF Claim
  <2>2. o = proc[v].op /\ proc'[v].pc = "dispatch"
    BY <1>0, <2>1 DEF ProcOK, ProcRecords
  <2>3. op'[o].phase = "executing" /\ op'[o].owner = v
    BY <2>1, <2>2, ClaimedRow DEF TypeOK
  <2>4. provider[o] = "none" /\ UNCHANGED provider
    BY <1>2, <2>1, <2>2 DEF Claim, Claimable, Quiet, Agents
  <2>5. QED
    BY <2>2, <2>3, <2>4
<1>3. ASSUME AtWork(v), \E pc : Goto(v, pc)
      PROVE  /\ o = proc[v].op
             /\ op[o].phase \in {"executing", "stopping"} /\ op[o].owner = v
             /\ proc[v].pc \in {"captured", "authorized"} => "open" \in runs[o]
             /\ proc[v].pc \in {"dispatch", "captured", "authorized", "failed"} =>
                   provider[o] = "none"
  <2>1. o = proc[v].op
    BY <1>0, <1>3 DEF ProcOK, ProcRecords, Goto
  <2>2. QED
    BY <1>3, <2>1 DEF Quiet, Executors
<1>4. CASE OpenRun(v)
  <2>1. AtWork(v) /\ (\E pc : Goto(v, pc)) /\ proc[v].pc = "dispatch"
    BY <1>4 DEF OpenRun, AtWork, DispatchPcs
  <2>2. "open" \in runs'[o] /\ UNCHANGED <<op, provider>>
    BY <1>3, <1>4, <2>1 DEF OpenRun, Reliable, TypeOK
  <2>3. QED
    BY <1>3, <2>1, <2>2
<1>5. CASE AuthorizeLaunch(v)
  <2>1. AtWork(v) /\ (\E pc : Goto(v, pc)) /\ proc[v].pc = "captured"
        /\ UNCHANGED <<op, provider>>
    BY <1>5 DEF AuthorizeLaunch, AtWork, DispatchPcs
  <2>2. CASE UNCHANGED runs
    BY <1>3, <2>1, <2>2
  <2>3. CASE Goto(v, "failed")
    <3>1. proc'[v].pc = "failed"
      BY <1>0, <2>3 DEF Goto, ProcOK, ProcRecords
    <3>2. QED
      BY <1>3, <2>1, <3>1
  <2>4. QED
    BY <1>5, <2>2, <2>3 DEF AuthorizeLaunch
<1>6. CASE SpawnProvider(v)
  <2>1. AtWork(v) /\ (\E pc : Goto(v, pc)) /\ UNCHANGED op
    BY <1>6 DEF SpawnProvider, AtWork, DispatchPcs
  <2>2. proc'[v].pc = "spawned"
    BY <1>0, <1>6 DEF SpawnProvider, Goto, ProcOK, ProcRecords
  <2>3. QED
    BY <1>3, <2>1, <2>2
<1>7. CASE SpawnFails(v)
  <2>1. AtWork(v) /\ (\E pc : Goto(v, pc)) /\ proc[v].pc = "authorized"
        /\ UNCHANGED <<op, provider>>
    BY <1>7 DEF SpawnFails, AtWork, DispatchPcs
  <2>2. proc'[v].pc \in {"dispatch", "failed"}
    BY <1>0, <1>7 DEF SpawnFails, Goto, ProcOK, ProcRecords
  <2>3. QED
    BY <1>3, <2>1, <2>2
<1>8. CASE ProviderStarted(v)
  <2>1. AtWork(v) /\ (\E pc : Goto(v, pc))
    BY <1>8 DEF ProviderStarted, AtWork, DispatchPcs
  <2>2. proc'[v].pc = "working"
    BY <1>0, <1>8 DEF ProviderStarted, Goto, ProcOK, ProcRecords
  <2>3. op'[o].phase = op[o].phase /\ op'[o].owner = op[o].owner
    BY <1>3, <1>8, <2>1 DEF ProviderStarted, TypeOK, OpRecords
  <2>4. QED
    BY <1>3, <2>1, <2>2, <2>3
<1>9. CASE LaunchRefused(v)
  <2>1. AtWork(v) /\ (\E pc : Goto(v, pc)) /\ UNCHANGED op
    BY <1>9 DEF LaunchRefused, AtWork, DispatchPcs
  <2>2. proc'[v].pc = "failed"
    BY <1>0, <1>9 DEF LaunchRefused, Goto, ProcOK, ProcRecords
  <2>3. provider'[o] = "none"
    BY <1>3, <1>9, <2>1 DEF LaunchRefused, TypeOK
  <2>4. QED
    BY <1>3, <2>1, <2>2, <2>3
<1>10. CASE ProviderResult(v)
  <2>1. AtWork(v) /\ (\E pc : Goto(v, pc)) /\ UNCHANGED <<op, provider>>
    BY <1>10 DEF ProviderResult, AtWork, DispatchPcs
  <2>2. proc'[v].pc \in {"dispatch", "failed"}
    BY <1>0, <1>10 DEF ProviderResult, Goto, ProcOK, ProcRecords
  <2>3. provider[o] = "none"
    BY <1>3, <1>10, <2>1 DEF ProviderResult
  <2>4. QED
    BY <1>3, <2>1, <2>2, <2>3
<1>11. QED
  <2>1. ~MissionWrite(v) /\ ~(\E success \in BOOLEAN : Finish(v, success))
    BY <1>1 DEF MissionWrite, Finish
  <2>2. QED
    BY <1>2, <1>4, <1>5, <1>6, <1>7, <1>8, <1>9, <1>10, <2>1 DEF ExecutorStep

LEMMA ExecutorsStep ==
    ASSUME TypeOK, References, Quiet, Reliable, [Next]_vars
    PROVE  Executors'
<1> SUFFICES ASSUME NEW v \in Procs, AtWork(v)'
             PROVE  /\ op'[proc'[v].op].phase \in {"executing", "stopping"}
                    /\ op'[proc'[v].op].owner = v
                    /\ proc'[v].pc \in {"captured", "authorized"} =>
                          "open" \in runs'[proc'[v].op]
                    /\ proc'[v].pc \in {"dispatch", "captured", "authorized", "failed"} =>
                          provider'[proc'[v].op] = "none"
  BY DEF Executors
<1>1. proc'[v].op \in Ops
  BY TypeStep DEF References, AtWork, DispatchPcs
<1>2. CASE proc'[v] = proc[v]
  BY <1>1, <1>2, RestingExecutor DEF AtWork
<1>3. CASE proc'[v] # proc[v]
  BY <1>1, <1>3, WhoWorks, ActingExecutor DEF Rests
<1>4. QED
  BY <1>2, <1>3

(* Who forms a verdict, and what it leaves alone.                          *)
LEMMA Observes ==
    ASSUME TypeOK, References, [Next]_vars, NEW x \in Reconcilers
    PROVE  \/ observed'[x] \in {observed[x], NoVerdict}
           \/ \E o \in Ops : Observe(x, o) /\ UNCHANGED <<op, proc, runs>>
<1> DEFINE Goal == \/ observed'[x] \in {observed[x], NoVerdict}
                   \/ \E o \in Ops : Observe(x, o) /\ UNCHANGED <<op, proc, runs>>
<1>1. ASSUME UNCHANGED observed
      PROVE  Goal
  BY <1>1
<1>2. ASSUME NEW y \in Reconcilers, CommitVerdict(y)
      PROVE  Goal
  BY <1>2 DEF CommitVerdict, TypeOK
<1>3. ASSUME NEW y \in Reconcilers, NEW o \in Ops, Observe(y, o),
             UNCHANGED <<op, proc, runs>>
      PROVE  Goal
  BY <1>3 DEF Observe, TypeOK
<1>4. ASSUME NEW w \in Procs, SupervisorStep(w)
      PROVE  Goal
  <2>1. w \in Reconcilers /\ (proc[w].pc # "off" => proc[w].op \in Ops)
    BY DEF Reconcilers, References
  <2>2. CASE SupervisorObserve(w)
    BY <1>1, <1>3, <2>1, <2>2 DEF SupervisorObserve
  <2>3. CASE SupervisorCommit(w)
    BY <1>2, <2>1, <2>3 DEF SupervisorCommit
  <2>4. QED
    BY <1>1, <1>4, <2>2, <2>3
       DEF SupervisorStep, Reserve, SupervisorError, Host, ExecutorExited,
           StartupFailed
<1>5. ASSUME NEW y \in Recoverers, RecoveryStep(y)
      PROVE  Goal
  BY <1>1, <1>2, <1>3, <1>5
     DEF RecoveryStep, RecoverObserve, RecoverCommit, RecoverLaunch, Reconcilers
<1>6. ASSUME NEW w \in Procs, Crash(w)
      PROVE  Goal
  BY <1>6 DEF Crash, TypeOK, Reconcilers
<1>7. ASSUME NEW s \in Stoppers, StopStep(s)
      PROVE  Goal
  BY <1>1, <1>7 DEF StopStep, StopRequest, StopTerminate, StopEffects, StopCommit
<1>8. ASSUME NEW w \in Procs, ExecutorStep(w)
      PROVE  Goal
  BY <1>1, <1>8
     DEF ExecutorStep, Claim, MissionWrite, OpenRun, AuthorizeLaunch,
         SpawnProvider, SpawnFails, ProviderStarted, LaunchRefused,
         ProviderResult, Finish
<1>9. ASSUME Client
      PROVE  Goal
  BY <1>1, <1>9 DEF Client, Admit, LaunchAdmitted, EditCheck, EditApply
<1>10. QED
  BY <1>1, <1>4, <1>5, <1>6, <1>7, <1>8, <1>9 DEF Next, ProviderExits, vars

LEMMA DeathsStep ==
    ASSUME TypeOK, References, Quiet, Reliable, [Next]_vars
    PROVE  Deaths'
<1> SUFFICES ASSUME NEW x \in Reconcilers, observed'[x] # NoVerdict,
                    NEW o, o = observed'[x].op
             PROVE  DeathOf(x, o)'
  BY DEF Deaths
<1>1. CASE observed'[x] = observed[x]
  <2>1. o \in Ops /\ DeathOf(x, o)
    BY <1>1 DEF References, Quiet, Deaths
  <2>2. /\ op'[o].owner = op[o].owner
        /\ op'[o].phase \notin {"none", "accepted"}
        /\ op'[o].phase \in {"executing", "stopping"} =>
              op[o].phase \in {"executing", "stopping"}
    BY <2>1, OpTableStep, LateRow DEF DeathOf
  <2>3. ASSUME observed[x].verdict = "dead", IsOpen(op[o])'
        PROVE  op[o].owner # NoProc /\ ~Running(op[o].owner)' /\ runs'[o] = {}
    <3>1. IsOpen(op[o])
      BY <2>2, <2>3 DEF IsOpen, OpenPhases
    <3>2. op[o].owner # NoProc /\ ~Running(op[o].owner) /\ runs[o] = {}
      BY <2>1, <2>3, <3>1 DEF DeathOf
    <3>3. op[o].owner \in Procs /\ ~Unreferenced(op[o].owner)
      BY <2>1, <3>1, <3>2 DEF TypeOK, OpRecords, Unreferenced
    <3>4. ~Running(op[o].owner)'
      BY <2>2, <3>2, <3>3, Starts DEF Running
    <3>5. ASSUME runs'[o] # {}
          PROVE  FALSE
      <4>1. PICK w \in Procs : OpenRun(w) /\ proc[w].op = o
        BY <2>1, <3>2, <3>5, AgentsComeAndGo DEF Appears
      <4>2. AtWork(w) /\ Running(w)
        BY <4>1 DEF OpenRun, AtWork, Running, DispatchPcs
      <4>3. QED
        BY <3>2, <4>1, <4>2 DEF Quiet, Executors
    <3>6. QED
      BY <3>2, <3>4, <3>5
  <2>4. QED
    BY <1>1, <2>2, <2>3 DEF DeathOf
<1>2. ASSUME NEW p \in Ops, Observe(x, p), UNCHANGED <<op, proc, runs>>
      PROVE  DeathOf(x, o)'
  <2>1. observed'[x] = [op |-> p, gen |-> op[p].gen, verdict |-> Verdict(p)]
    BY <1>2 DEF Observe, TypeOK
  <2>2. op[p].phase = "executing" /\ op[p].owner # NoProc
    BY <1>2 DEF Observe, Quiet, Agents
  <2>3. Verdict(p) = "dead" => ~Running(op[p].owner) /\ runs[p] = {}
    BY DEF Verdict, Alive, EffectsSettled
  <2>4. QED
    BY <1>2, <2>1, <2>2, <2>3 DEF DeathOf, Running
<1>3. QED
  BY <1>1, <1>2, Observes

(* A launch is authorized only for an operation that is executing.         *)
LEMMA Authorized ==
    ASSUME TypeOK, References, [Next]_vars, NEW w \in Procs,
           proc'[w].pc = "authorized", proc'[w] # proc[w]
    PROVE  proc'[w].op = proc[w].op /\ op[proc[w].op].phase = "executing"
<1>0. ProcOK /\ AtWork(w)'
  BY DEF TypeOK, ProcOK, AtWork, DispatchPcs
<1>1. Claim(w) \/ ExecutorStep(w)
  BY <1>0, WhoWorks DEF Rests
<1>2. ~Claim(w)
  BY <1>0 DEF Claim, Exit, Idle, ProcOK, ProcRecords
<1>3. ASSUME NEW pc, Goto(w, pc), pc # "authorized"
      PROVE  FALSE
  BY <1>0, <1>3 DEF Goto, ProcOK, ProcRecords
<1>4. ~Exit(w)
  BY <1>0 DEF Exit, Idle, ProcOK
<1>5. AuthorizeLaunch(w)
  BY <1>1, <1>2, <1>3, <1>4
     DEF ExecutorStep, MissionWrite, OpenRun, SpawnProvider, SpawnFails,
         ProviderStarted, LaunchRefused, ProviderResult, Finish
<1>6. Owns(w) /\ Goto(w, "authorized")
  BY <1>3, <1>5 DEF AuthorizeLaunch
<1>7. QED
  BY <1>0, <1>6 DEF Owns, IsOwner, Goto, ProcOK, ProcRecords

LEMMA PendingStop ==
    ASSUME TypeOK, References, Quiet, Reliable, [Next]_vars,
           NEW s \in Stoppers, stop[s].pc # "idle", stop'[s] = stop[s],
           NEW o \in Ops, o = stop[s].op
    PROVE  StopOf(s, o)'
<1>1. StopOf(s, o)
  BY DEF Quiet, Stops
<1>2. /\ op'[o].phase \in {"stopping"} \cup SettledPhases
      /\ op'[o].owner = op[o].owner
      /\ op'[o].phase = "stopping" => op[o].phase = "stopping"
  BY <1>1, OpTableStep, LateRow DEF StopOf, SettledPhases
<1>3. ASSUME stop[s].pc # "terminate", stop[s].ownerStopped, stop[s].owner # NoProc
      PROVE  ~Running(stop[s].owner)'
  <2>1. stop[s].owner \in Procs /\ ~Running(stop[s].owner)
        /\ ~Unreferenced(stop[s].owner)
    BY <1>1, <1>3 DEF StopOf, TypeOK, StopRecords, Unreferenced
  <2>2. QED
    BY <2>1, Starts DEF Running
<1>4. ASSUME stop[s].pc = "commit", op'[o].phase = "stopping"
      PROVE  /\ provider'[o] = "none"
             /\ \A w \in Procs : proc'[w].op = o => proc'[w].pc # "authorized"
  <2>1. /\ provider[o] = "none" /\ op[o].phase = "stopping"
        /\ \A w \in Procs : proc[w].op = o => proc[w].pc # "authorized"
    BY <1>1, <1>2, <1>4 DEF StopOf
  <2>2. provider'[o] = "none"
    BY <2>1, AgentsComeAndGo DEF Appears, SpawnProvider
  <2>3. ASSUME NEW w \in Procs, proc'[w].op = o, proc'[w].pc = "authorized"
        PROVE  FALSE
    <3>1. proc'[w] # proc[w]
      BY <2>1, <2>3
    <3>2. QED
      BY <2>1, <2>3, <3>1, Authorized
  <2>4. QED
    BY <2>2, <2>3
<1>5. QED
  BY <1>1, <1>2, <1>3, <1>4 DEF StopOf, Running

LEMMA StopsStep ==
    ASSUME TypeOK, References, Quiet, Reliable, [Next]_vars
    PROVE  Stops'
<1> SUFFICES ASSUME NEW s \in Stoppers, stop'[s].pc # "idle",
                    NEW o, o = stop'[s].op
             PROVE  StopOf(s, o)'
  BY DEF Stops
<1>1. CASE stop'[s] = stop[s]
  <2>1. stop[s].pc # "idle" /\ o = stop[s].op /\ o \in Ops
    BY <1>1 DEF References
  <2>2. QED
    BY <1>1, <2>1, PendingStop
<1>2. stop'[s] = stop[s] \/ StopStep(s)
  <2>1. ASSUME UNCHANGED stop
        PROVE  stop'[s] = stop[s]
    BY <2>1
  <2>2. ASSUME NEW t \in Stoppers, StopStep(t), t # s
        PROVE  stop'[s] = stop[s]
    BY <2>2
       DEF TypeOK, StopStep, StopRequest, StopTerminate, StopEffects, StopCommit
  <2>3. CASE Client
    BY <2>1, <2>3 DEF Client, Admit, LaunchAdmitted, EditCheck, EditApply
  <2>4. ASSUME NEW w \in Procs, SupervisorStep(w) \/ Crash(w)
        PROVE  stop'[s] = stop[s]
    BY <2>1, <2>4
       DEF SupervisorStep, Reserve, SupervisorError, Host, ExecutorExited,
           StartupFailed, SupervisorObserve, SupervisorCommit, Crash
  <2>5. ASSUME NEW w \in Procs, ExecutorStep(w)
        PROVE  stop'[s] = stop[s]
    BY <2>1, <2>5
       DEF ExecutorStep, Claim, MissionWrite, OpenRun, AuthorizeLaunch,
           SpawnProvider, SpawnFails, ProviderStarted, LaunchRefused,
           ProviderResult, Finish
  <2>6. ASSUME NEW x \in Recoverers, RecoveryStep(x)
        PROVE  stop'[s] = stop[s]
    BY <2>1, <2>6 DEF RecoveryStep, RecoverObserve, RecoverCommit, RecoverLaunch
  <2>7. QED
    BY <2>1, <2>2, <2>3, <2>4, <2>5, <2>6 DEF Next, ProviderExits, vars
<1>3. CASE StopRequest(s)
  <2>1. PICK p \in Current :
           /\ op' = [op EXCEPT ![p].phase = "stopping"]
           /\ stop' = [stop EXCEPT ![s] =
                 [NoSnapshot EXCEPT !.pc = "terminate", !.op = p,
                     !.gen = op[p].gen, !.owner = op[p].owner,
                     !.launcher = op[p].launcher]]
    BY <1>3 DEF StopRequest
  <2>2. o = p /\ p \in Ops /\ stop'[s].pc = "terminate"
        /\ stop'[s].owner = op[p].owner
    BY <2>1 DEF TypeOK, NoSnapshot, Current
  <2>3. op'[p].phase = "stopping" /\ op'[p].owner = op[p].owner
    BY <2>1, <2>2 DEF TypeOK, OpRecords
  <2>4. QED
    BY <2>2, <2>3 DEF StopOf
<1>4. CASE StopTerminate(s)
  <2>1. /\ UNCHANGED op /\ stop[s].op \in Ops /\ StopOf(s, stop[s].op)
    BY <1>4 DEF StopTerminate, References, Quiet, Stops
  <2>2. /\ o = stop[s].op /\ stop'[s].owner = stop[s].owner
        /\ stop'[s].pc = "effects"
    BY <1>4 DEF StopTerminate, TypeOK, StopRecords
  <2>3. ASSUME stop'[s].ownerStopped, stop[s].owner # NoProc
        PROVE  ~Running(stop[s].owner)'
    <3>1. stop[s].owner \in Procs
      BY <2>3 DEF TypeOK, StopRecords
    <3>2. proc'[stop[s].owner] = Idle
      BY <1>4, <2>3, <3>1 DEF StopTerminate, TypeOK, StopRecords
    <3>3. UNCHANGED stop[s].owner
      BY <2>2
    <3>4. QED
      BY <3>2, <3>3 DEF Running, Idle
  <2>4. QED
    BY <2>1, <2>2, <2>3 DEF StopOf, Running
<1>5. CASE StopEffects(s)
  <2>1. /\ UNCHANGED <<op, proc>> /\ stop[s].op \in Ops /\ stop[s].pc = "effects"
        /\ StopOf(s, stop[s].op)
    BY <1>5 DEF StopEffects, References, Quiet, Stops
  <2>0. PICK left \in {runs[stop[s].op] \ {"live"}, runs[stop[s].op]} :
          /\ provider' = IF "live" \in runs[stop[s].op] \ left
                         THEN [provider EXCEPT ![stop[s].op] = "none"] ELSE provider
          /\ stop' = [stop EXCEPT ![s] =
                IF left = {} THEN [@ EXCEPT !.pc = "commit"] ELSE NoSnapshot]
    BY <1>5 DEF StopEffects
  <2>2. /\ left = {} /\ runs[stop[s].op] \ {"live"} = {}
        /\ stop' = [stop EXCEPT ![s].pc = "commit"]
    BY <2>0 DEF TypeOK, NoSnapshot
  <2>3. /\ o = stop[s].op /\ stop'[s].pc = "commit"
        /\ stop'[s].owner = stop[s].owner
        /\ stop'[s].ownerStopped = stop[s].ownerStopped
    BY <2>2 DEF TypeOK, StopRecords
  <2>4. provider'[o] = "none"
    BY <2>0, <2>1, <2>2, <2>3 DEF TypeOK, Quiet, Agents
  <2>5. \A w \in Procs : proc[w].op = o => proc[w].pc # "authorized"
    BY <2>2, <2>3 DEF Quiet, Executors, AtWork, DispatchPcs
  <2>6. QED
    BY <2>1, <2>3, <2>4, <2>5 DEF StopOf, Running
<1>6. ~StopCommit(s)
  BY DEF StopCommit, TypeOK, NoSnapshot
<1>7. QED
  BY <1>1, <1>2, <1>3, <1>4, <1>5, <1>6 DEF StopStep

LEMMA QuietInit == Init => Quiet
BY DEF Init, Quiet, Agents, Executors, Deaths, Stops, AtWork, Absent, Idle,
       NoSnapshot, DispatchPcs

LEMMA QuietStep ==
    Reliable /\ TypeOK /\ References /\ Quiet /\ [Next]_vars => Quiet'
BY AgentsStep, ExecutorsStep, DeathsStep, StopsStep DEF Quiet

LEMMA QuietAlways == Reliable /\ Spec => []Quiet
<1>1. Reliable /\ TypeOK /\ References /\ Quiet /\ [Next]_vars => Quiet'
  BY QuietStep
<1>2. CASE Reliable
  <2>1. TypeOK /\ References /\ Quiet /\ [Next]_vars => Quiet'
    BY <1>1, <1>2
  <2>2. QED
    BY <2>1, QuietInit, TypeCorrect, PTL DEF Spec
<1>3. QED
  BY <1>2

(* If run records open, a settled operation has no living agent and no     *)
(* executor at work, whoever settled it: its executor, the supervisor,     *)
(* recovery or a stop.                                                     *)
THEOREM SettledLeftNothing == Reliable /\ Spec => []SettledIsQuiet
<1>1. References /\ Quiet => SettledIsQuiet
  <2> SUFFICES ASSUME Quiet, NEW o \in Ops, op[o].phase \in SettledPhases
               PROVE  /\ provider[o] = "none"
                      /\ \A w \in Procs : proc[w].op = o => ~AtWork(w)
    BY DEF SettledIsQuiet, AtWork
  <2>1. op[o].phase \notin {"executing", "stopping"}
    BY DEF SettledPhases
  <2>2. QED
    BY <2>1 DEF Quiet, Agents, Executors
<1>2. QED
  BY <1>1, QuietAlways, TypeCorrect, PTL
=============================================================================
