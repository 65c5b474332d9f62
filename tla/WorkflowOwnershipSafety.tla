----------------------- MODULE WorkflowOwnershipSafety -----------------------
(***************************************************************************)
(* Types and safety of WorkflowOwnership, proved for any number of         *)
(* operations, processes, recovery workers, stoppers and editors, and any  *)
(* bounds.                                                                 *)
(*                                                                         *)
(* Type correctness comes first.  Two lemmas carry the rest.  OpTableStep  *)
(* says what a step may do to the table of operations: it touches one row, *)
(* and opens, claims, settles or merely updates it.  DispatchStep says that*)
(* a process comes to work for an operation by claiming it, and keeps its  *)
(* generation from then on.                                                *)
(***************************************************************************)
EXTENDS WorkflowOwnership, TLAPS


(* One conjunct of TypeOK per name, so that a step can be cited for it.     *)
OpOK       == op \in [Ops -> OpRecords]
MissionOK  == mission \in [lane : Lanes, ver : Nat]
ProcOK     == proc \in [Procs -> ProcRecords]
ProviderOK == provider \in [Ops -> {"none", "grouped", "detached"}]
RunsOK     == runs \in [Ops -> SUBSET {"open", "live", "lost"}]
ObservedOK == observed \in [Reconcilers -> Verdicts]
StopOK     == stop \in [Stoppers -> StopRecords]

(* A running process works for an operation, a pending verdict and a stop  *)
(* in progress are about one.  Type correctness is not inductive without   *)
(* it: the generation a process takes over is that of its operation.       *)
References ==
    /\ \A w \in Procs : proc[w].pc # "off" => proc[w].op \in Ops
    /\ \A x \in Reconcilers : observed[x] # NoVerdict => observed[x].op \in Ops
    /\ \A s \in Stoppers : stop[s].pc # "idle" => stop[s].op \in Ops

(* Leaving a process where it is, moving its program counter or removing   *)
(* it keeps the process table well typed.                                  *)
LEMMA GotoType ==
    ASSUME ProcOK, NEW w \in Procs,
           NEW pc \in {"off", "reserve", "host", "wait", "settle", "abort",
                       "reconcile", "claim"} \cup DispatchPcs,
           Goto(w, pc)
    PROVE  ProcOK'
BY DEF Goto, ProcOK, ProcRecords

LEMMA ExitType ==
    ASSUME ProcOK, NEW w \in Procs, Exit(w)
    PROVE  ProcOK'
BY DEF Exit, ProcOK, ProcRecords, Idle

LEMMA SpawnedType ==
    \A o \in Ops : /\ Supervisor(o) \in ProcRecords
                   /\ [Idle EXCEPT !.pc = "claim", !.op = o] \in ProcRecords
BY DEF Supervisor, Idle, ProcRecords

(* A process that moves on keeps its operation, one that leaves has none.  *)
LEMMA StepReferences ==
    ASSUME ProcOK, References, UNCHANGED <<observed, stop>>, NEW w \in Procs,
           \/ Exit(w)
           \/ proc[w].pc # "off" /\ \E pc : Goto(w, pc)
    PROVE  References'
BY DEF ProcOK, ProcRecords, References, Goto, Exit, Idle

(* A mission write and the undo of an activation keep the mission row well *)
(* typed.                                                                  *)
LEMMA WrittenType ==
    ASSUME MissionOK, NEW lane \in Lanes
    PROVE  Written(lane) \in [lane : Lanes, ver : Nat]
BY DEF MissionOK, Written

LEMMA CompensatedType ==
    ASSUME MissionOK, NEW r
    PROVE  Compensated(r) \in [lane : Lanes, ver : Nat]
BY WrittenType DEF MissionOK, Compensated, Lanes

(* Record updates that stay within the operation records.                  *)
LEMMA PhaseType ==
    ASSUME NEW r \in OpRecords,
           NEW p \in {"none"} \cup OpenPhases \cup SettledPhases
    PROVE  [r EXCEPT !.phase = p] \in OpRecords
BY DEF OpRecords

LEMMA RecordType ==
    ASSUME NEW r \in OpRecords
    PROVE  /\ \A p \in {"none"} \cup OpenPhases \cup SettledPhases :
                  [r EXCEPT !.phase = p] \in OpRecords
           /\ \A w \in Procs : [r EXCEPT !.launcher = w] \in OpRecords
           /\ \A w \in Procs : Claimed(r, w) \in OpRecords
           /\ \A verdict : Lost(r, verdict) \in OpRecords
           /\ StopSettled(r) \in OpRecords
           /\ [r EXCEPT !.started = TRUE] \in OpRecords
<1>1. \A p \in {"none"} \cup OpenPhases \cup SettledPhases :
          [r EXCEPT !.phase = p] \in OpRecords
  BY PhaseType
<1>2. \A w \in Procs : [r EXCEPT !.launcher = w] \in OpRecords
  BY DEF OpRecords
<1>3. ASSUME NEW w \in Procs
      PROVE  Claimed(r, w) \in OpRecords
  <2>1. r.gen + 1 \in Nat
    BY DEF OpRecords
  <2>2. [r EXCEPT !.owner = w, !.gen = r.gen + 1] \in OpRecords
    BY <2>1 DEF OpRecords
  <2>3. \A q \in OpRecords : [q EXCEPT !.phase = "executing"] \in OpRecords
    BY PhaseType DEF OpenPhases
  <2>4. Claimed(r, w)
          = [[r EXCEPT !.owner = w, !.gen = r.gen + 1]
                EXCEPT !.phase = "executing"]
    BY DEF OpRecords, Claimed
  <2>5. QED
    BY <2>2, <2>3, <2>4
<1>4. ASSUME NEW verdict
      PROVE  Lost(r, verdict) \in OpRecords
  BY PhaseType DEF Lost, OpenPhases, SettledPhases
<1>5. StopSettled(r) \in OpRecords
  <2>1. [r EXCEPT !.gen = r.gen + 1] \in OpRecords
    BY DEF OpRecords
  <2>2. \A q \in OpRecords : [q EXCEPT !.phase = "stopped"] \in OpRecords
    BY PhaseType DEF SettledPhases
  <2>3. StopSettled(r)
          = [[r EXCEPT !.gen = r.gen + 1] EXCEPT !.phase = "stopped"]
    BY DEF OpRecords, StopSettled
  <2>4. QED
    BY <2>1, <2>2, <2>3
<1>6. [r EXCEPT !.started = TRUE] \in OpRecords
  BY DEF OpRecords
<1>7. QED
  BY <1>1, <1>2, <1>3, <1>4, <1>5, <1>6

LEMMA AbsentType == Absent \in OpRecords
BY DEF Absent, OpRecords, Lanes, AllCommands

LEMMA AliveType == \A w : Alive(w) \in {"alive", "unknown", "dead"}
BY DEF Alive

LEMMA RunsAfterDeathType ==
    ASSUME RunsOK, NEW o \in Ops, NEW w
    PROVE  RunsAfterDeath(w, o) \in SUBSET {"open", "live", "lost"}
BY DEF RunsOK, RunsAfterDeath

-----------------------------------------------------------------------------
(* Type correctness.                                                       *)

LEMMA TypeInit == Init => TypeOK /\ References
<1> SUFFICES ASSUME Init
             PROVE  TypeOK /\ References
  OBVIOUS
<1> USE DEF Init
<1>1. OpOK
  BY AbsentType DEF OpOK
<1>2. MissionOK
  BY ConstantAssumption DEF MissionOK
<1>3. ProcOK
  BY DEF ProcOK, ProcRecords, Idle
<1>4. ObservedOK
  BY DEF ObservedOK, Verdicts, NoVerdict
<1>5. StopOK
  BY DEF StopOK, StopRecords, NoSnapshot
<1>6. References
  BY DEF References, Idle, NoSnapshot
<1>7. QED
  BY <1>1, <1>2, <1>3, <1>4, <1>5, <1>6
     DEF TypeOK, OpOK, MissionOK, ProcOK, ObservedOK, StopOK

(* Forming a verdict and committing it.                                    *)
LEMMA ObserveType ==
    ASSUME TypeOK, NEW x \in Reconcilers, NEW o \in Ops, Observe(x, o)
    PROVE  /\ ObservedOK'
           /\ \A y \in Reconcilers :
                 y # x => observed'[y] = observed[y]
           /\ observed'[x].op = o
<1>1. Verdict(o) \in {"dead", "unknown"}
  BY AliveType DEF Observe, Verdict
<1>2. [op |-> o, gen |-> op[o].gen, verdict |-> Verdict(o)] \in Verdicts
  BY <1>1 DEF TypeOK, OpRecords, Verdicts
<1>3. QED
  BY <1>2 DEF Observe, ObservedOK, TypeOK

LEMMA CommitType ==
    ASSUME TypeOK, References, NEW x \in Reconcilers, CommitVerdict(x)
    PROVE  /\ OpOK' /\ ObservedOK'
           /\ \A y \in Reconcilers :
                 y # x => observed'[y] = observed[y]
           /\ observed'[x] = NoVerdict
<1>1. OpOK'
  <2>1. observed[x].op \in Ops
    BY DEF References, CommitVerdict
  <2>2. Lost(op[observed[x].op], observed[x].verdict) \in OpRecords
    BY <2>1, RecordType DEF TypeOK
  <2>3. QED
    BY <2>1, <2>2 DEF TypeOK, OpOK, CommitVerdict
<1>2. QED
  BY <1>1 DEF TypeOK, ObservedOK, CommitVerdict, NoVerdict, Verdicts

LEMMA ClientType == TypeOK /\ References /\ Client => TypeOK' /\ References'
<1> SUFFICES ASSUME TypeOK, References, Client
             PROVE  TypeOK' /\ References'
  OBVIOUS
<1>1. ASSUME NEW o \in Ops, NEW c \in Commands, Admit(o, c)
      PROVE  TypeOK' /\ References'
  <2> USE <1>1
  <2>1. MissionOK'
    BY WrittenType DEF TypeOK, MissionOK, Admit, Lanes
  <2>2. OpOK'
    <3>1. c \in AllCommands /\ mission.lane \in Lanes
      BY ConstantAssumption DEF TypeOK
    <3>2. Written("active").ver \in Nat
      BY WrittenType DEF TypeOK, MissionOK, Lanes
    <3>3. \A l \in Lanes, a \in Nat :
             [Absent EXCEPT !.phase = "accepted", !.original = l,
                            !.command = c, !.activation = a] \in OpRecords
      BY <3>1 DEF Absent, OpRecords, OpenPhases
    <3>4. op'[o] \in OpRecords
      BY <3>1, <3>2, <3>3 DEF Admit, TypeOK
    <3>5. QED
      BY <3>4 DEF Admit, TypeOK, OpOK
  <2>3. QED
    BY <2>1, <2>2 DEF TypeOK, References, Admit, MissionOK, OpOK
<1>2. ASSUME NEW o \in Ops, LaunchAdmitted(o)
      PROVE  TypeOK' /\ References'
  <2>1. \A v \in Procs : proc'[v] = proc[v] \/ proc'[v] = Supervisor(o)
    BY <1>2 DEF TypeOK, LaunchAdmitted
  <2>2. ProcOK'
    BY <1>2, SpawnedType DEF TypeOK, ProcOK, LaunchAdmitted
  <2>3. Supervisor(o).op = o
    BY DEF Supervisor, Idle
  <2>4. \A v \in Procs : proc'[v].pc # "off" => proc'[v].op \in Ops
    BY <2>1, <2>3 DEF References
  <2>5. References'
    BY <1>2, <2>4 DEF References, LaunchAdmitted
  <2>6. launching' \subseteq Ops
    BY <1>2 DEF TypeOK, LaunchAdmitted
  <2>7. TypeOK'
    BY <1>2, <2>2, <2>6 DEF TypeOK, LaunchAdmitted, ProcOK
  <2>8. QED
    BY <2>5, <2>7
<1>3. ASSUME NEW e \in Editors, EditCheck(e)
      PROVE  TypeOK' /\ References'
  BY <1>3 DEF TypeOK, References, EditCheck
<1>4. ASSUME NEW e \in Editors, EditApply(e)
      PROVE  TypeOK' /\ References'
  <2>1. MissionOK'
    BY <1>4, WrittenType DEF TypeOK, MissionOK, EditApply, Lanes
  <2>2. QED
    BY <1>4, <2>1 DEF TypeOK, References, EditApply, MissionOK
<1>5. QED
  BY <1>1, <1>2, <1>3, <1>4 DEF Client

LEMMA SupervisorType ==
    ASSUME TypeOK, References, NEW w \in Procs, SupervisorStep(w)
    PROVE  TypeOK' /\ References'
<1>1. CASE Reserve(w)
  <2>0. proc[w].op \in Ops
    BY <1>1 DEF References, Reserve
  <2>1. OpOK'
    <3>1. [op[proc[w].op] EXCEPT !.launcher = w] \in OpRecords
      BY <2>0, RecordType DEF TypeOK
    <3>2. QED
      BY <1>1, <2>0, <3>1 DEF TypeOK, OpOK, Reserve
  <2>2. ProcOK'
    BY <1>1, GotoType, ExitType DEF TypeOK, ProcOK, Reserve
  <2>3. References'
    BY <1>1, StepReferences DEF Reserve, TypeOK, ProcOK
  <2>4. QED
    BY <1>1, <2>1, <2>2, <2>3 DEF TypeOK, Reserve, OpOK, ProcOK
<1>2. CASE SupervisorError(w)
  <2>1. ProcOK'
    BY <1>2, GotoType DEF TypeOK, ProcOK, SupervisorError
  <2>2. QED
    BY <1>2, <2>1
       DEF TypeOK, References, SupervisorError, Fault, ProcOK, Goto
<1>3. CASE Host(w)
  <2>0. proc[w].op \in Ops
    BY <1>3 DEF References, Host
  <2>1. PICK x \in Procs :
          proc' = [proc EXCEPT
                ![w].pc = "wait", ![w].child = x,
                ![x] = [Idle EXCEPT !.pc = "claim", !.op = proc[w].op]]
    BY <1>3 DEF Host
  <2>2. [proc[w] EXCEPT !.pc = "wait", !.child = x] \in ProcRecords
    <3>1. \A q \in ProcRecords :
             [q EXCEPT !.pc = "wait", !.child = x] \in ProcRecords
      BY DEF ProcRecords
    <3>2. QED
      BY <3>1 DEF TypeOK
  <2>3. \A v \in Procs :
           \/ proc'[v] = proc[v]
           \/ /\ v = w
              /\ proc'[v] = [proc[w] EXCEPT !.pc = "wait", !.child = x]
           \/ proc'[v] = [Idle EXCEPT !.pc = "claim", !.op = proc[w].op]
    BY <2>1 DEF TypeOK
  <2>4. ProcOK'
    BY <2>0, <2>1, <2>2, <2>3, SpawnedType DEF TypeOK, ProcOK
  <2>5. \A v \in Procs : proc'[v].pc # "off" => proc'[v].op \in Ops
    BY <1>3, <2>0, <2>3 DEF TypeOK, ProcRecords, References, Host, Idle
  <2>6. QED
    BY <1>3, <2>4, <2>5 DEF TypeOK, References, Host, ProcOK
<1>4. CASE ExecutorExited(w)
  <2>1. ProcOK'
    BY <1>4, GotoType DEF TypeOK, ProcOK, ExecutorExited
  <2>2. QED
    BY <1>4, <2>1 DEF TypeOK, References, ExecutorExited, ProcOK, Goto
<1>5. CASE StartupFailed(w)
  <2>0. proc[w].op \in Ops
    BY <1>5 DEF References, StartupFailed
  <2>1. OpOK'
    <3>1. [op[proc[w].op] EXCEPT !.phase = "blocked"] \in OpRecords
      BY <2>0, PhaseType DEF TypeOK, SettledPhases
    <3>2. QED
      BY <1>5, <2>0, <3>1 DEF TypeOK, OpOK, StartupFailed
  <2>2. MissionOK'
    BY <1>5, CompensatedType DEF TypeOK, MissionOK, StartupFailed
  <2>3. ProcOK'
    BY <1>5, GotoType, ExitType DEF TypeOK, ProcOK, StartupFailed
  <2>4. References'
    BY <1>5, StepReferences DEF StartupFailed, TypeOK, ProcOK
  <2>5. QED
    BY <1>5, <2>1, <2>2, <2>3, <2>4
       DEF TypeOK, StartupFailed, OpOK, MissionOK, ProcOK
<1>6. CASE SupervisorObserve(w)
  <2>0. proc[w].op \in Ops /\ w \in Reconcilers
    BY <1>6 DEF References, SupervisorObserve, Reconcilers
  <2>1. CASE Observe(w, proc[w].op) /\ UNCHANGED proc
    BY <1>6, <2>0, <2>1, ObserveType
       DEF TypeOK, References, SupervisorObserve, ObservedOK
  <2>2. CASE Exit(w) /\ UNCHANGED observed
    <3>1. ProcOK'
      BY <2>2, ExitType DEF TypeOK, ProcOK
    <3>2. QED
      BY <1>6, <2>2, <3>1
         DEF TypeOK, References, SupervisorObserve, ProcOK, Exit, Idle
  <2>3. QED
    BY <1>6, <2>1, <2>2 DEF SupervisorObserve
<1>7. CASE SupervisorCommit(w)
  <2>0. w \in Reconcilers
    BY DEF Reconcilers
  <2>1. ProcOK'
    BY <1>7, ExitType DEF TypeOK, ProcOK, SupervisorCommit
  <2>2. QED
    BY <1>7, <2>0, <2>1, CommitType
       DEF TypeOK, References, SupervisorCommit, OpOK, ProcOK, ObservedOK,
           Exit, Idle
<1>8. QED
  BY <1>1, <1>2, <1>3, <1>4, <1>5, <1>6, <1>7 DEF SupervisorStep

(* The executor's steps other than the claim touch few variables each.     *)
LEMMA ExecutorType ==
    ASSUME TypeOK, References, NEW w \in Procs, ExecutorStep(w)
    PROVE  TypeOK' /\ References'
<1>0. proc[w].pc # "off" => proc[w].op \in Ops
  BY DEF References
<1>1. CASE Claim(w)
  <2>0. proc[w].op \in Ops
    BY <1>0, <1>1 DEF Claim
  <2>1. CASE Claimable(op[proc[w].op])
    <3>1. op' = [op EXCEPT ![proc[w].op] = Claimed(op[proc[w].op], w)]
          /\ proc' = [proc EXCEPT ![w].pc = "dispatch",
                                  ![w].gen = op[proc[w].op].gen + 1]
      BY <1>1, <2>1 DEF Claim
    <3>2. OpOK'
      BY <2>0, <3>1, RecordType DEF TypeOK, OpOK
    <3>3. op[proc[w].op].gen + 1 \in Nat
      BY <2>0 DEF TypeOK, OpRecords
    <3>4. [proc[w] EXCEPT !.pc = "dispatch",
                          !.gen = op[proc[w].op].gen + 1] \in ProcRecords
      <4>1. \A q \in ProcRecords, n \in Nat :
               [q EXCEPT !.pc = "dispatch", !.gen = n] \in ProcRecords
        BY DEF ProcRecords, DispatchPcs
      <4>2. QED
        BY <3>3, <4>1 DEF TypeOK
    <3>5. ProcOK'
      BY <3>1, <3>4 DEF TypeOK, ProcOK
    <3>6. References'
      BY <1>1, <2>0, <3>1 DEF TypeOK, ProcRecords, References, Claim
    <3>7. QED
      BY <1>1, <3>2, <3>5, <3>6 DEF TypeOK, Claim, OpOK, ProcOK
  <2>2. CASE ~Claimable(op[proc[w].op])
    <3>1. UNCHANGED op /\ Exit(w)
      BY <1>1, <2>2 DEF Claim
    <3>2. ProcOK'
      BY <3>1, ExitType DEF TypeOK, ProcOK
    <3>3. References'
      BY <1>1, <3>1, StepReferences DEF TypeOK, ProcOK, Claim
    <3>4. QED
      BY <1>1, <3>1, <3>2, <3>3 DEF TypeOK, Claim, ProcOK
  <2>3. QED
    BY <2>1, <2>2
<1>2. CASE MissionWrite(w)
  <2>1. \A c \in AllCommands, lane \in Lanes : WorkLanes(c, lane) \subseteq Lanes
    BY DEF WorkLanes, Lanes, AllCommands
  <2>2. MissionOK'
    <3>1. op[proc[w].op].command \in AllCommands /\ mission.lane \in Lanes
      BY <1>0, <1>2 DEF TypeOK, OpRecords, MissionWrite
    <3>2. QED
      BY <1>2, <2>1, <3>1, WrittenType DEF TypeOK, MissionOK, MissionWrite
  <2>3. QED
    BY <1>2, <2>2 DEF TypeOK, References, MissionOK, MissionWrite
<1>3. ASSUME \/ OpenRun(w) \/ AuthorizeLaunch(w) \/ SpawnProvider(w)
             \/ SpawnFails(w) \/ LaunchRefused(w) \/ ProviderResult(w)
      PROVE  TypeOK' /\ References'
  <2>1. /\ proc[w].pc # "off"
        /\ \E pc \in DispatchPcs : Goto(w, pc)
        /\ UNCHANGED <<observed, stop, op, mission, launching, editor>>
    BY <1>3 DEF OpenRun, AuthorizeLaunch, SpawnProvider, SpawnFails,
                LaunchRefused, ProviderResult, DispatchPcs
  <2>2. ProcOK'
    BY <2>1, GotoType DEF TypeOK, ProcOK
  <2>3. References'
    BY <2>1, StepReferences DEF TypeOK, ProcOK
  <2>4. RunsOK'
    BY <1>0, <1>3, <2>1
       DEF TypeOK, RunsOK, OpenRun, AuthorizeLaunch, SpawnProvider,
           SpawnFails, LaunchRefused, ProviderResult, Unlaunched
  <2>5. ProviderOK' /\ faults' \in Nat /\ agentRan' \subseteq Ops
    BY <1>0, <1>3, <2>1
       DEF TypeOK, ProviderOK, OpenRun, AuthorizeLaunch, SpawnProvider,
           SpawnFails, LaunchRefused, ProviderResult, Fault
  <2>6. QED
    BY <2>1, <2>2, <2>3, <2>4, <2>5 DEF TypeOK, ProcOK, RunsOK, ProviderOK
<1>4. CASE ProviderStarted(w)
  <2>1. [op[proc[w].op] EXCEPT !.started = TRUE] \in OpRecords
    BY <1>0, <1>4, RecordType DEF TypeOK, ProviderStarted
  <2>2. OpOK'
    BY <1>4, <2>1 DEF TypeOK, OpOK, ProviderStarted
  <2>3. ProcOK'
    BY <1>4, GotoType DEF TypeOK, ProcOK, ProviderStarted, DispatchPcs
  <2>4. References'
    BY <1>4, StepReferences DEF TypeOK, ProcOK, ProviderStarted
  <2>5. QED
    BY <1>4, <2>2, <2>3, <2>4 DEF TypeOK, ProviderStarted, OpOK, ProcOK
<1>5. ASSUME NEW success \in BOOLEAN, Finish(w, success)
      PROVE  TypeOK' /\ References'
  <2>0. proc[w].op \in Ops
    BY <1>0, <1>5 DEF Finish
  <2>1. OpOK'
    <3>1. \A p \in {"completed", "blocked"} :
             [op[proc[w].op] EXCEPT !.phase = p] \in OpRecords
      BY <2>0, PhaseType DEF TypeOK, SettledPhases
    <3>2. QED
      BY <1>5, <2>0, <3>1 DEF TypeOK, OpOK, Finish
  <2>2. MissionOK'
    BY <1>5, CompensatedType DEF TypeOK, MissionOK, Finish
  <2>3. ProcOK'
    BY <1>5, ExitType DEF TypeOK, ProcOK, Finish
  <2>4. References'
    BY <1>5, StepReferences DEF TypeOK, ProcOK, Finish
  <2>5. QED
    BY <1>5, <2>1, <2>2, <2>3, <2>4
       DEF TypeOK, Finish, OpOK, MissionOK, ProcOK
<1>6. QED
  BY <1>1, <1>2, <1>3, <1>4, <1>5 DEF ExecutorStep

LEMMA CrashType ==
    ASSUME TypeOK, References, NEW w \in Procs, Crash(w)
    PROVE  TypeOK' /\ References'
<1>1. ProcOK'
  BY ExitType DEF TypeOK, ProcOK, Crash
<1>2. RunsOK'
  BY RunsAfterDeathType DEF TypeOK, RunsOK, Crash
<1>3. ObservedOK'
  BY DEF TypeOK, ObservedOK, Crash, NoVerdict, Verdicts
<1>4. References'
  BY DEF TypeOK, ProcRecords, References, Crash, Exit, Idle
<1>5. QED
  BY <1>1, <1>2, <1>3, <1>4 DEF TypeOK, Crash, Fault, ProcOK, RunsOK, ObservedOK

LEMMA ProviderExitsType ==
    ASSUME TypeOK, References, NEW o \in Ops, ProviderExits(o)
    PROVE  TypeOK' /\ References'
<1>1. RunsOK' /\ ProviderOK'
  BY DEF TypeOK, RunsOK, ProviderOK, ProviderExits
<1>2. QED
  BY <1>1 DEF TypeOK, References, RunsOK, ProviderOK, ProviderExits

LEMMA RecoveryType ==
    ASSUME TypeOK, References, NEW x \in Recoverers, RecoveryStep(x)
    PROVE  TypeOK' /\ References'
<1>0. x \in Reconcilers
  BY DEF Reconcilers
<1>1. CASE RecoverObserve(x)
  BY <1>0, <1>1, ObserveType DEF TypeOK, References, RecoverObserve, ObservedOK
<1>2. CASE RecoverCommit(x)
  BY <1>0, <1>2, CommitType
     DEF TypeOK, References, RecoverCommit, OpOK, ObservedOK
<1>3. CASE RecoverLaunch(x)
  <2>1. PICK o \in Ops, w \in Procs : proc' = [proc EXCEPT ![w] = Supervisor(o)]
    BY <1>3 DEF RecoverLaunch
  <2>2. ProcOK'
    BY <2>1, SpawnedType DEF TypeOK, ProcOK
  <2>3. References'
    BY <1>3, <2>1 DEF TypeOK, References, RecoverLaunch, Supervisor, Idle
  <2>4. QED
    BY <1>3, <2>2, <2>3 DEF TypeOK, RecoverLaunch, ProcOK
<1>4. QED
  BY <1>1, <1>2, <1>3 DEF RecoveryStep

LEMMA StopType ==
    ASSUME TypeOK, References, NEW s \in Stoppers, StopStep(s)
    PROVE  TypeOK' /\ References'
<1>0. /\ NoSnapshot \in StopRecords
      /\ \A q \in StopRecords : [q EXCEPT !.pc = "commit"] \in StopRecords
  BY DEF NoSnapshot, StopRecords
<1>1. CASE StopRequest(s)
  <2>1. PICK o \in Current :
          /\ op' = [op EXCEPT ![o].phase = "stopping"]
          /\ stop' = [stop EXCEPT ![s] =
                [NoSnapshot EXCEPT !.pc = "terminate", !.op = o,
                    !.gen = op[o].gen, !.owner = op[o].owner,
                    !.launcher = op[o].launcher]]
    BY <1>1 DEF StopRequest
  <2>2. o \in Ops /\ op[o] \in OpRecords
    BY DEF TypeOK, Current
  <2>3. [NoSnapshot EXCEPT !.pc = "terminate", !.op = o, !.gen = op[o].gen,
            !.owner = op[o].owner, !.launcher = op[o].launcher] \in StopRecords
    BY <2>2 DEF NoSnapshot, StopRecords, OpRecords
  <2>4. StopOK'
    BY <2>1, <2>3 DEF TypeOK, StopOK
  <2>5. [op[o] EXCEPT !.phase = "stopping"] \in OpRecords
    BY <2>2, PhaseType DEF OpenPhases
  <2>6. OpOK'
    BY <2>1, <2>5 DEF TypeOK, OpOK
  <2>7. References'
    BY <1>1, <2>1, <2>2 DEF TypeOK, References, StopRequest, NoSnapshot
  <2>8. QED
    BY <1>1, <2>4, <2>6, <2>7 DEF TypeOK, StopRequest, StopOK, OpOK
<1>2. CASE StopTerminate(s)
  <2>0. stop[s].op \in Ops
    BY <1>2 DEF References, StopTerminate
  <2> DEFINE asked == {stop[s].owner, stop[s].launcher} \ {NoProc}
  <2>a. PICK unconfirmed \in SUBSET asked :
          /\ IF unconfirmed = {} THEN UNCHANGED faults ELSE Fault
          /\ proc' = [w \in Procs |-> IF w \in asked \ unconfirmed THEN Idle
                                      ELSE proc[w]]
          /\ observed' = [x \in Reconcilers |->
                IF x \in asked \ unconfirmed THEN NoVerdict ELSE observed[x]]
          /\ IF stop[s].owner \in asked \ unconfirmed
                /\ (Running(stop[s].owner) \/ provider[stop[s].op] = "grouped")
             THEN /\ provider' = [provider EXCEPT ![stop[s].op] = "none"]
                  /\ runs' = [runs EXCEPT ![stop[s].op] =
                        RunsAfterDeath(stop[s].owner, stop[s].op) \ {"live"}]
             ELSE UNCHANGED <<provider, runs>>
          /\ stop' = [stop EXCEPT ![s].pc = "effects",
                ![s].ownerStopped = stop[s].owner \notin unconfirmed,
                ![s].launcherStopped = stop[s].launcher \notin unconfirmed]
    BY <1>2 DEF StopTerminate
  <2> DEFINE killed == asked \ unconfirmed
  <2>b. faults' \in Nat
    BY <2>a DEF TypeOK, Fault
  <2>1. /\ proc' = [w \in Procs |-> IF w \in killed THEN Idle ELSE proc[w]]
        /\ observed' = [x \in Reconcilers |->
              IF x \in killed THEN NoVerdict ELSE observed[x]]
        /\ \/ UNCHANGED <<provider, runs>>
           \/ /\ provider' = [provider EXCEPT ![stop[s].op] = "none"]
              /\ runs' = [runs EXCEPT ![stop[s].op] =
                    RunsAfterDeath(stop[s].owner, stop[s].op) \ {"live"}]
        /\ stop' = [stop EXCEPT ![s].pc = "effects",
              ![s].ownerStopped = stop[s].owner \notin unconfirmed,
              ![s].launcherStopped = stop[s].launcher \notin unconfirmed]
    BY <2>a
  <2> HIDE DEF killed
  <2>2. ProcOK'
    BY <2>1 DEF TypeOK, ProcOK, ProcRecords, Idle
  <2>3. ObservedOK'
    BY <2>1 DEF TypeOK, ObservedOK, NoVerdict, Verdicts
  <2>4. RunsOK' /\ ProviderOK'
    BY <2>0, <2>1, RunsAfterDeathType DEF TypeOK, RunsOK, ProviderOK
  <2>5. \A q \in StopRecords, a, b \in BOOLEAN :
           [q EXCEPT !.pc = "effects", !.ownerStopped = a,
                     !.launcherStopped = b] \in StopRecords
    BY DEF StopRecords
  <2>6. StopOK'
    BY <2>1, <2>5 DEF TypeOK, StopOK
  <2>7. References'
    BY <2>0, <2>1 DEF TypeOK, StopRecords, References, Idle
  <2>8. QED
    BY <1>2, <2>b, <2>2, <2>3, <2>4, <2>6, <2>7
       DEF TypeOK, StopTerminate, ProcOK, ObservedOK, RunsOK, ProviderOK, StopOK
<1>3. CASE StopEffects(s)
  <2>0. stop[s].op \in Ops
    BY <1>3 DEF References, StopEffects
  <2>1. RunsOK' /\ ProviderOK'
    BY <1>3, <2>0 DEF TypeOK, RunsOK, ProviderOK, StopEffects
  <2>2. StopOK'
    BY <1>0, <1>3 DEF TypeOK, StopOK, StopEffects
  <2>3. References'
    BY <1>3, <2>0 DEF TypeOK, StopRecords, References, StopEffects, NoSnapshot
  <2>4. faults' \in Nat
    BY <1>3 DEF TypeOK, StopEffects, Fault
  <2>5. QED
    BY <1>3, <2>1, <2>2, <2>3, <2>4
       DEF TypeOK, StopEffects, RunsOK, ProviderOK, StopOK
<1>4. CASE StopCommit(s)
  <2>0. stop[s].op \in Ops
    BY <1>4 DEF References, StopCommit
  <2>1. OpOK'
    <3>1. StopSettled(op[stop[s].op]) \in OpRecords
      BY <2>0, RecordType DEF TypeOK
    <3>2. QED
      BY <1>4, <2>0, <3>1 DEF TypeOK, OpOK, StopCommit
  <2>2. StopOK' /\ References'
    BY <1>0, <1>4 DEF TypeOK, References, StopOK, StopCommit, NoSnapshot
  <2>3. QED
    BY <1>4, <2>1, <2>2 DEF TypeOK, StopCommit, OpOK, StopOK
<1>5. QED
  BY <1>1, <1>2, <1>3, <1>4 DEF StopStep

LEMMA TypeStep == TypeOK /\ References /\ [Next]_vars => TypeOK' /\ References'
<1> SUFFICES ASSUME TypeOK, References, [Next]_vars
             PROVE  TypeOK' /\ References'
  OBVIOUS
<1>1. CASE UNCHANGED vars
  BY <1>1 DEF TypeOK, References, vars
<1>2. CASE Next
  BY <1>2, ClientType, SupervisorType, ExecutorType, CrashType,
     ProviderExitsType, RecoveryType, StopType DEF Next
<1>3. QED
  BY <1>1, <1>2

(* Every variable keeps its type in every reachable state, and what names  *)
(* an operation names one: no handler of a client, supervisor, executor,   *)
(* recovery worker or stopper writes a malformed record.                   *)
THEOREM TypeCorrect == Spec => [](TypeOK /\ References)
<1>1. Init => TypeOK /\ References
  BY TypeInit
<1>2. TypeOK /\ References /\ [Next]_vars => (TypeOK /\ References)'
  BY TypeStep
<1>3. QED
  BY <1>1, <1>2, PTL DEF Spec

-----------------------------------------------------------------------------

(* The four kinds of change to a row.                                      *)
Opens(o) ==
    /\ op[o] = Absent /\ Current = {}
    /\ op'[o].phase = "accepted" /\ op'[o].gen = 0 /\ op'[o].owner = NoProc
    /\ ~op'[o].started

Claims(o) == Claimable(op[o]) /\ \E w \in Procs : op'[o] = Claimed(op[o], w)

Settles(o) == op[o].phase = "stopping" /\ op'[o] = StopSettled(op[o])

Updates(o) ==
    /\ IsOpen(op[o])
    /\ op'[o].gen = op[o].gen /\ op'[o].owner = op[o].owner
    /\ op'[o].phase = op[o].phase \/ op'[o].phase \in {"stopping"} \cup SettledPhases
    /\ op'[o].started = op[o].started \/ op[o].phase = "executing"

OnlyRow(o) == \A p \in Ops : p # o => op'[p] = op[p]

TableStep ==
    \/ UNCHANGED op
    \/ \E o \in Ops :
          OnlyRow(o) /\ (Opens(o) \/ Claims(o) \/ Settles(o) \/ Updates(o))

LEMMA CommitTable ==
    ASSUME TypeOK, References, NEW x \in Reconcilers, CommitVerdict(x)
    PROVE  TableStep
<1> DEFINE o == observed[x].op
           r == Lost(op[o], observed[x].verdict)
<1>1. o \in Ops
  BY DEF References, CommitVerdict
<1>2. UNCHANGED op \/ (IsOpen(op[o]) /\ op' = [op EXCEPT ![o] = r])
  BY DEF CommitVerdict
<1>3. /\ r.gen = op[o].gen /\ r.owner = op[o].owner /\ r.started = op[o].started
      /\ r.phase \in {"stopping"} \cup SettledPhases
  BY <1>1 DEF TypeOK, OpRecords, Lost, SettledPhases
<1> HIDE DEF o, r
<1>4. ASSUME IsOpen(op[o]), op' = [op EXCEPT ![o] = r]
      PROVE  OnlyRow(o) /\ Updates(o)
  <2>1. op'[o] = r /\ \A p \in Ops : p # o => op'[p] = op[p]
    BY <1>1, <1>4 DEF TypeOK
  <2>2. QED
    BY <1>3, <1>4, <2>1 DEF OnlyRow, Updates
<1>5. QED
  BY <1>1, <1>2, <1>4 DEF TableStep

LEMMA OpTableStep == TypeOK /\ References /\ [Next]_vars => TableStep
<1> SUFFICES ASSUME TypeOK, References, [Next]_vars
             PROVE  TableStep
  OBVIOUS
<1> USE DEF TypeOK
<1>1. CASE UNCHANGED vars
  BY <1>1 DEF TableStep, vars
<1>2. CASE Client
  <2>1. ASSUME NEW o \in Ops, NEW c \in Commands, Admit(o, c)
        PROVE  OnlyRow(o) /\ Opens(o)
    BY <2>1 DEF Admit, OnlyRow, Opens, Absent
  <2>2. QED
    BY <1>2, <2>1 DEF Client, LaunchAdmitted, EditCheck, EditApply, TableStep
<1>3. ASSUME NEW w \in Procs, SupervisorStep(w)
      PROVE  TableStep
  <2>0. proc[w].pc # "off" => proc[w].op \in Ops
    BY DEF References
  <2>1. CASE Reserve(w)
    BY <2>0, <2>1
       DEF Reserve, TableStep, OnlyRow, Updates, Claimable, IsOpen, OpenPhases,
           OpRecords
  <2>2. CASE StartupFailed(w)
    BY <2>0, <2>2
       DEF StartupFailed, TableStep, OnlyRow, Updates, Claimable, IsOpen,
           OpenPhases, SettledPhases, OpRecords
  <2>3. CASE SupervisorCommit(w)
    BY <2>3, CommitTable DEF SupervisorCommit, Reconcilers
  <2>4. QED
    BY <1>3, <2>1, <2>2, <2>3
       DEF SupervisorStep, SupervisorError, Host, ExecutorExited,
           SupervisorObserve, TableStep
<1>4. ASSUME NEW w \in Procs, ExecutorStep(w)
      PROVE  TableStep
  <2>0. proc[w].pc # "off" => proc[w].op \in Ops
    BY DEF References
  <2>1. CASE Claim(w)
    BY <2>0, <2>1 DEF Claim, TableStep, OnlyRow, Claims
  <2>2. CASE ProviderStarted(w)
    <3> DEFINE o == proc[w].op
    <3>1. o \in Ops /\ op[o].phase = "executing" /\ op' = [op EXCEPT ![o].started = TRUE]
      BY <2>0, <2>2 DEF ProviderStarted, Owns, IsOwner
    <3>2. /\ op'[o].gen = op[o].gen /\ op'[o].owner = op[o].owner
          /\ op'[o].phase = op[o].phase /\ OnlyRow(o)
      BY <3>1 DEF OpRecords, OnlyRow
    <3> HIDE DEF o
    <3>3. QED
      BY <3>1, <3>2 DEF TableStep, Updates, IsOpen, OpenPhases
  <2>3. ASSUME NEW success \in BOOLEAN, Finish(w, success)
        PROVE  TableStep
    BY <2>0, <2>3
       DEF Finish, TableStep, OnlyRow, Updates, IsOpen, OpenPhases,
           SettledPhases, OpRecords
  <2>4. QED
    BY <1>4, <2>1, <2>2, <2>3
       DEF ExecutorStep, MissionWrite, OpenRun, AuthorizeLaunch, SpawnProvider,
           SpawnFails, LaunchRefused, ProviderResult, TableStep
<1>5. ASSUME NEW x \in Recoverers, RecoveryStep(x)
      PROVE  TableStep
  BY <1>5, CommitTable
     DEF RecoveryStep, RecoverObserve, RecoverCommit, RecoverLaunch, TableStep,
         Reconcilers
<1>6. ASSUME NEW s \in Stoppers, StopStep(s)
      PROVE  TableStep
  <2>1. CASE StopRequest(s)
    BY <2>1
       DEF StopRequest, TableStep, OnlyRow, Updates, Current, IsOpen, OpRecords
  <2>2. CASE StopCommit(s)
    BY <2>2
       DEF References, StopCommit, TableStep, OnlyRow, Settles
  <2>3. QED
    BY <1>6, <2>1, <2>2 DEF StopStep, StopTerminate, StopEffects, TableStep
<1>7. QED
  BY <1>1, <1>2, <1>3, <1>4, <1>5, <1>6 DEF Next, Crash, ProviderExits, TableStep

-----------------------------------------------------------------------------
(* One open operation.                                                     *)

LEMMA OneOpenStep ==
    OneOpenOperation /\ TableStep => OneOpenOperation'
<1> SUFFICES ASSUME OneOpenOperation, TableStep
             PROVE  OneOpenOperation'
  OBVIOUS
<1>1. CASE UNCHANGED op
  BY <1>1 DEF OneOpenOperation, IsOpen
<1>2. ASSUME NEW o \in Ops, OnlyRow(o), Opens(o)
      PROVE  OneOpenOperation'
  BY <1>2 DEF OnlyRow, Opens, OneOpenOperation, Current, IsOpen
<1>3. ASSUME NEW o \in Ops, OnlyRow(o),
             Claims(o) \/ Settles(o) \/ Updates(o)
      PROVE  OneOpenOperation'
  <2>1. IsOpen(op[o])
    BY <1>3
       DEF Claims, Settles, Updates, Claimable, IsOpen, OpenPhases
  <2>2. QED
    BY <1>3, <2>1 DEF OnlyRow, OneOpenOperation, IsOpen
<1>4. QED
  BY <1>1, <1>2, <1>3 DEF TableStep

(* However many clients, supervisors, recovery workers and stoppers there  *)
(* are, no two operations of the mission are open at once: admission looks *)
(* at the table in its own transaction, and nothing else opens a row.      *)
THEOREM AtMostOneOpen == Spec => []OneOpenOperation
<1>1. Init => OneOpenOperation
  BY DEF Init, OneOpenOperation, IsOpen, Absent, OpenPhases
<1>2. TypeOK /\ References /\ OneOpenOperation /\ [Next]_vars
        => OneOpenOperation'
  BY OpTableStep, OneOpenStep
<1>3. QED
  BY <1>1, <1>2, TypeCorrect, PTL DEF Spec

(* The open operation as a claim on the mission.                           *)
Operation == INSTANCE ExclusiveClaim WITH Runs <- Ops, holders <- Current

(* What those who run commands on a mission rely on, the fleet supervisor  *)
(* among them: an operation is opened when none is open, and closed before *)
(* the next one (workflow-operation-service.ts).                           *)
THEOREM OperationsAreExclusive == Spec => Operation!Spec
<1>1. Init => Operation!Init
  BY DEF Init, Operation!Init, Current, IsOpen, Absent, OpenPhases
<1>2. OneOpenOperation /\ TableStep => [Operation!Next]_Current
  <2> SUFFICES ASSUME OneOpenOperation, TableStep
               PROVE  [Operation!Next]_Current
    OBVIOUS
  <2>1. CASE UNCHANGED op
    BY <2>1 DEF Current
  <2>2. ASSUME NEW o \in Ops, OnlyRow(o), Opens(o)
        PROVE  Operation!Take(o)
    <3>1. ASSUME NEW p \in Ops, IsOpen(op'[p])
          PROVE  p = o
      BY <2>2, <3>1 DEF OnlyRow, Opens, Current
    <3>2. IsOpen(op'[o])
      BY <2>2 DEF Opens, IsOpen, OpenPhases
    <3>3. QED
      BY <2>2, <3>1, <3>2 DEF Opens, Operation!Take, Current
  <2>3. ASSUME NEW o \in Ops, OnlyRow(o), IsOpen(op[o])
        PROVE  [Operation!Next]_Current
    <3>1. \A p \in Ops : p # o => ~IsOpen(op[p]) /\ ~IsOpen(op'[p])
      BY <2>3 DEF OnlyRow, OneOpenOperation
    <3>2. CASE IsOpen(op'[o])
      BY <2>3, <3>1, <3>2 DEF Current
    <3>3. CASE ~IsOpen(op'[o])
      BY <2>3, <3>1, <3>3 DEF Operation!Next, Operation!Leave, Current
    <3>4. QED
      BY <3>2, <3>3
  <2>4. ASSUME NEW o \in Ops, Claims(o) \/ Settles(o) \/ Updates(o)
        PROVE  IsOpen(op[o])
    BY <2>4 DEF Claims, Settles, Updates, Claimable, IsOpen, OpenPhases
  <2>5. QED
    BY <2>1, <2>2, <2>3, <2>4 DEF TableStep, Operation!Next
<1>3. QED
  BY <1>1, <1>2, OpTableStep, TypeCorrect, AtMostOneOpen, PTL DEF Spec, Operation!Spec

-----------------------------------------------------------------------------
(* Finality.                                                               *)

LEMMA SettledRowStays ==
    ASSUME TableStep, NEW o \in Ops, op[o].phase \in SettledPhases
    PROVE  op'[o] = op[o]
<1>1. ~IsOpen(op[o]) /\ op[o] # Absent /\ ~Claimable(op[o])
      /\ op[o].phase # "stopping"
  BY DEF IsOpen, OpenPhases, SettledPhases, Absent, Claimable
<1>2. QED
  BY <1>1 DEF TableStep, OnlyRow, Opens, Claims, Settles, Updates

(* Once an operation is completed, blocked, interrupted or stopped, its row*)
(* never changes again, whichever late transaction still arrives.          *)
THEOREM SettledForGood == Spec => SettledIsFinal
<1>1. TypeOK /\ References /\ [Next]_vars
        => [\A o \in Ops : op[o].phase \in SettledPhases => op'[o] = op[o]]_op
  BY OpTableStep, SettledRowStays
<1>2. QED
  BY <1>1, TypeCorrect, PTL DEF Spec, SettledIsFinal

-----------------------------------------------------------------------------
(* One writer.                                                             *)

AtWork(w) == proc[w].pc \in DispatchPcs

(* The generation of a process at work is one its operation has had, and   *)
(* no two processes have it in common.  OneWriter is not inductive without *)
(* it: a claim could hand out a generation that is already taken.          *)
Fencing ==
    /\ \A v \in Procs : AtWork(v) => proc[v].gen <= op[proc[v].op].gen
    /\ \A v, w \in Procs :
          /\ AtWork(v) /\ AtWork(w)
          /\ proc[v].op = proc[w].op /\ proc[v].gen = proc[w].gen
          => v = w

(* A step in which nobody comes to work, or w comes to work by a claim.    *)
Carries(v) ==
    AtWork(v)' => /\ AtWork(v)
                  /\ proc'[v].op = proc[v].op /\ proc'[v].gen = proc[v].gen

ClaimedBy(w) ==
    /\ Claim(w)
    /\ op'[proc[w].op].gen = op[proc[w].op].gen + 1
    /\ proc'[w].op = proc[w].op
    /\ proc'[w].gen = op[proc[w].op].gen + 1
    /\ \A v \in Procs : v # w => Carries(v)

LEMMA LeavesOrMoves ==
    ASSUME ProcOK, NEW w \in Procs,
           \/ Exit(w)
           \/ AtWork(w) /\ \E pc : Goto(w, pc)
           \/ \E pc : pc \notin DispatchPcs /\ Goto(w, pc)
    PROVE  \A v \in Procs : Carries(v)
BY DEF ProcOK, ProcRecords, Exit, Goto, Idle, Carries, AtWork, DispatchPcs

LEMMA Spawns ==
    ASSUME ProcOK, NEW w \in Procs, NEW o \in Ops,
           proc' = [proc EXCEPT ![w] = Supervisor(o)]
    PROVE  \A v \in Procs : Carries(v)
BY DEF ProcOK, ProcRecords, Supervisor, Idle, Carries, AtWork, DispatchPcs

LEMMA DispatchStep ==
    TypeOK /\ References /\ [Next]_vars =>
        \/ \A v \in Procs : Carries(v)
        \/ \E w \in Procs : ClaimedBy(w)
<1> DEFINE Goal == \/ \A v \in Procs : Carries(v)
                   \/ \E w \in Procs : ClaimedBy(w)
<1> SUFFICES ASSUME TypeOK, References, [Next]_vars
             PROVE  Goal
  OBVIOUS
<1>0. ProcOK
  BY DEF TypeOK, ProcOK
<1>1. ASSUME UNCHANGED proc
      PROVE  Goal
  BY <1>1 DEF Carries, AtWork
<1>2. ASSUME NEW w \in Procs,
             \/ Reserve(w) \/ SupervisorError(w) \/ ExecutorExited(w)
             \/ StartupFailed(w) \/ SupervisorCommit(w) \/ Crash(w)
             \/ SupervisorObserve(w) /\ Exit(w)
      PROVE  Goal
  BY <1>0, <1>2, LeavesOrMoves
     DEF Reserve, SupervisorError, ExecutorExited, StartupFailed,
         SupervisorCommit, Crash, DispatchPcs
<1>3. ASSUME NEW w \in Procs, Host(w)
      PROVE  Goal
  BY <1>0, <1>3
     DEF Host, ProcOK, ProcRecords, Idle, Carries, AtWork, DispatchPcs
<1>4. ASSUME NEW w \in Procs,
             \/ OpenRun(w) \/ AuthorizeLaunch(w) \/ SpawnProvider(w)
             \/ SpawnFails(w) \/ ProviderStarted(w) \/ LaunchRefused(w)
             \/ ProviderResult(w) \/ \E success \in BOOLEAN : Finish(w, success)
      PROVE  Goal
  BY <1>0, <1>4, LeavesOrMoves
     DEF OpenRun, AuthorizeLaunch, SpawnProvider, SpawnFails, ProviderStarted,
         LaunchRefused, ProviderResult, Finish, AtWork, DispatchPcs
<1>5. ASSUME NEW w \in Procs, Claim(w)
      PROVE  Goal
  <2>1. CASE Claimable(op[proc[w].op])
    <3>1. op' = [op EXCEPT ![proc[w].op] = Claimed(op[proc[w].op], w)]
          /\ proc' = [proc EXCEPT ![w].pc = "dispatch",
                                  ![w].gen = op[proc[w].op].gen + 1]
      BY <1>5, <2>1 DEF Claim
    <3>2. proc[w].op \in Ops
      BY <1>5 DEF References, Claim
    <3>3. op'[proc[w].op].gen = op[proc[w].op].gen + 1
      BY <3>1, <3>2 DEF TypeOK, OpRecords, Claimed
    <3>4. proc'[w].op = proc[w].op /\ proc'[w].gen = op[proc[w].op].gen + 1
      BY <3>1 DEF TypeOK, ProcRecords
    <3>5. \A v \in Procs : v # w => Carries(v)
      BY <3>1 DEF TypeOK, Carries, AtWork
    <3>6. QED
      BY <1>5, <3>3, <3>4, <3>5 DEF ClaimedBy
  <2>2. CASE ~Claimable(op[proc[w].op])
    BY <1>0, <1>5, <2>2, LeavesOrMoves DEF Claim
  <2>3. QED
    BY <2>1, <2>2
<1>6. ASSUME NEW s \in Stoppers, StopTerminate(s)
      PROVE  Goal
  <2>1. \A v \in Procs : proc'[v] = Idle \/ proc'[v] = proc[v]
    BY <1>6 DEF StopTerminate
  <2>2. QED
    BY <2>1 DEF Carries, AtWork, Idle, DispatchPcs
<1>7. ASSUME \/ \E o \in Ops : LaunchAdmitted(o)
             \/ \E x \in Recoverers : RecoverLaunch(x)
      PROVE  Goal
  BY <1>0, <1>1, <1>7, Spawns DEF LaunchAdmitted, RecoverLaunch
<1>8. CASE UNCHANGED vars
  BY <1>1, <1>8 DEF vars
<1>9. CASE Client
  BY <1>1, <1>7, <1>9 DEF Client, Admit, EditCheck, EditApply
<1>10. ASSUME NEW w \in Procs, SupervisorStep(w)
       PROVE  Goal
  BY <1>1, <1>2, <1>3, <1>10 DEF SupervisorStep, SupervisorObserve
<1>11. ASSUME NEW w \in Procs, ExecutorStep(w)
       PROVE  Goal
  BY <1>1, <1>4, <1>5, <1>11 DEF ExecutorStep, MissionWrite
<1>12. ASSUME NEW x \in Recoverers, RecoveryStep(x)
       PROVE  Goal
  BY <1>1, <1>7, <1>12 DEF RecoveryStep, RecoverObserve, RecoverCommit
<1>13. ASSUME NEW s \in Stoppers, StopStep(s)
       PROVE  Goal
  BY <1>1, <1>6, <1>13 DEF StopStep, StopRequest, StopEffects, StopCommit
<1>14. QED
  BY <1>1, <1>2, <1>8, <1>9, <1>10, <1>11, <1>12, <1>13
     DEF Next, ProviderExits

(* No row ever gives back a generation.                                    *)
LEMMA GenerationsGrow ==
    ASSUME TypeOK, TableStep, NEW o \in Ops
    PROVE  op[o].gen \in Nat /\ op'[o].gen \in Nat /\ op[o].gen <= op'[o].gen
<1>1. op[o] \in OpRecords /\ op[o].gen \in Nat
  BY DEF TypeOK, OpRecords
<1>2. CASE op'[o] = op[o]
  BY <1>1, <1>2
<1>3. CASE Opens(o)
  BY <1>3 DEF Opens, Absent
<1>4. CASE Claims(o)
  BY <1>1, <1>4 DEF Claims, Claimed, OpRecords
<1>5. CASE Settles(o)
  BY <1>1, <1>5 DEF Settles, StopSettled, OpRecords
<1>6. CASE Updates(o)
  BY <1>1, <1>6 DEF Updates
<1>7. QED
  BY <1>2, <1>3, <1>4, <1>5, <1>6 DEF TableStep, OnlyRow

LEMMA FencingStep ==
    TypeOK /\ References /\ Fencing /\ [Next]_vars => Fencing'
<1> SUFFICES ASSUME TypeOK, References, Fencing, [Next]_vars
             PROVE  Fencing'
  OBVIOUS
<1>1. TableStep
  BY OpTableStep
<1>2. \A v \in Procs : AtWork(v) => proc[v].op \in Ops
  BY DEF References, AtWork, DispatchPcs
<1>3. \A v \in Procs : proc[v].gen \in Nat
  BY DEF TypeOK, ProcRecords
<1>4. CASE \A v \in Procs : Carries(v)
  <2>1. ASSUME NEW v \in Procs, AtWork(v)'
        PROVE  proc'[v].gen <= op'[proc'[v].op].gen
    BY <1>1, <1>2, <1>3, <1>4, <2>1, GenerationsGrow DEF Carries, Fencing
  <2>2. ASSUME NEW v \in Procs, NEW w \in Procs, AtWork(v)', AtWork(w)',
               proc'[v].op = proc'[w].op, proc'[v].gen = proc'[w].gen
        PROVE  v = w
    BY <1>4, <2>2 DEF Carries, Fencing
  <2>3. QED
    BY <2>1, <2>2 DEF Fencing
<1>5. ASSUME NEW w \in Procs, ClaimedBy(w)
      PROVE  Fencing'
  <2>0. proc[w].op \in Ops
    BY <1>5 DEF References, ClaimedBy, Claim
  <2>1. ASSUME NEW v \in Procs, v # w, AtWork(v)'
        PROVE  /\ proc'[v].gen <= op'[proc'[v].op].gen
               /\ proc'[v].op = proc'[w].op => proc'[v].gen < proc'[w].gen
    <3>1. AtWork(v) /\ proc'[v].op = proc[v].op /\ proc'[v].gen = proc[v].gen
      BY <1>5, <2>1 DEF ClaimedBy, Carries
    <3>2. proc[v].gen <= op[proc[v].op].gen
      BY <3>1 DEF Fencing
    <3>3. QED
      BY <1>1, <1>2, <1>3, <1>5, <2>0, <3>1, <3>2, GenerationsGrow DEF ClaimedBy
  <2>2. proc'[w].gen = op'[proc'[w].op].gen /\ proc'[w].gen \in Nat
    BY <1>1, <1>5, <2>0, GenerationsGrow DEF ClaimedBy
  <2>3. \A v \in Procs : AtWork(v)' => proc'[v].gen \in Nat
    BY <1>3, <1>5, <2>2 DEF ClaimedBy, Carries
  <2>4. QED
    <3>1. ASSUME NEW v \in Procs, AtWork(v)'
          PROVE  proc'[v].gen <= op'[proc'[v].op].gen
      BY <2>1, <2>2, <3>1
    <3>2. ASSUME NEW u \in Procs, NEW v \in Procs, AtWork(u)', AtWork(v)',
                 proc'[u].op = proc'[v].op, proc'[u].gen = proc'[v].gen
          PROVE  u = v
      <4>1. CASE u # w /\ v # w
        BY <1>5, <3>2, <4>1 DEF ClaimedBy, Carries, Fencing
      <4>2. CASE u = w \/ v = w
        BY <2>1, <2>3, <3>2, <4>2
      <4>3. QED
        BY <4>1, <4>2
    <3>3. QED
      BY <3>1, <3>2 DEF Fencing
<1>6. QED
  BY <1>4, <1>5, DispatchStep

LEMMA FencedWriter == OneOpenOperation /\ References /\ Fencing => OneWriter
<1> SUFFICES ASSUME OneOpenOperation, References, Fencing,
                    NEW v \in Procs, NEW w \in Procs,
                    AtWork(v), Owns(v), AtWork(w), Owns(w)
             PROVE  v = w
  BY DEF OneWriter, AtWork
<1>1. proc[v].op \in Ops /\ proc[w].op \in Ops
  BY DEF References, AtWork, DispatchPcs
<1>2. IsOpen(op[proc[v].op]) /\ IsOpen(op[proc[w].op])
  BY DEF Owns, IsOwner, IsOpen, OpenPhases
<1>3. proc[v].op = proc[w].op
  BY <1>1, <1>2 DEF OneOpenOperation
<1>4. proc[v].gen = proc[w].gen
  BY <1>3 DEF Owns, IsOwner
<1>5. QED
  BY <1>3, <1>4 DEF Fencing

(* At most one process passes the ownership guard on mission writes, agent *)
(* launches and start records, although the guard never looks at which     *)
(* process is asking.                                                      *)
THEOREM AtMostOneWriter == Spec => []OneWriter
<1>1. Init => Fencing
  BY DEF Init, Fencing, AtWork, Idle, DispatchPcs
<1>2. TypeOK /\ References /\ Fencing /\ [Next]_vars => Fencing'
  BY FencingStep
<1>3. OneOpenOperation /\ References /\ Fencing => OneWriter
  BY FencedWriter
<1>4. QED
  BY <1>1, <1>2, <1>3, TypeCorrect, AtMostOneOpen, PTL DEF Spec

-----------------------------------------------------------------------------
(* Undoing an activation.                                                  *)

(* No provider was recorded for an operation that nobody claimed: without  *)
(* it the failed start of a supervisor might undo what an agent worked on. *)
Unstarted == \A o \in Ops : op[o].phase \in {"none", "accepted"} => ~op[o].started

(* The two steps that take an active mission back to refined: the block of *)
(* an operation nobody claimed, and the final transaction of a failure     *)
(* before any provider started.                                            *)
Undoes(o) ==
    /\ IsOpen(op[o]) /\ (op[o].phase = "accepted" \/ ~op[o].started)
    /\ op'[o].phase = "blocked"
    /\ mission' = Compensated(op[o])

LEMMA UnstartedStep == TypeOK /\ Unstarted /\ TableStep => Unstarted'
<1> SUFFICES ASSUME TypeOK, Unstarted, TableStep
             PROVE  Unstarted'
  OBVIOUS
<1>1. CASE UNCHANGED op
  BY <1>1 DEF Unstarted
<1>2. ASSUME NEW o \in Ops, OnlyRow(o), Opens(o) \/ Claims(o) \/ Settles(o) \/ Updates(o)
      PROVE  op'[o].phase \in {"none", "accepted"} => ~op'[o].started
  <2>1. CASE Opens(o)
    BY <2>1 DEF Opens
  <2>2. CASE Claims(o) \/ Settles(o)
    <3>1. op'[o].phase \in {"executing", "stopped"}
      <4>1. op[o] \in OpRecords
        BY DEF TypeOK
      <4>2. StopSettled(op[o]).phase = "stopped" /\ \A w \in Procs : Claimed(op[o], w).phase = "executing"
        BY <4>1 DEF Claimed, StopSettled, OpRecords
      <4>3. QED
        BY <2>2, <4>2 DEF Claims, Settles
    <3>2. QED
      BY <3>1
  <2>3. CASE Updates(o)
    BY <2>3 DEF Updates, Unstarted, SettledPhases, IsOpen, OpenPhases
  <2>4. QED
    BY <1>2, <2>1, <2>2, <2>3
<1>3. QED
  BY <1>1, <1>2 DEF TableStep, OnlyRow, Unstarted

LEMMA UndoStep ==
    ASSUME TypeOK, References, [Next]_vars,
           mission.lane = "active", mission'.lane = "refined"
    PROVE  \E o \in Ops : Undoes(o)
<1> USE DEF TypeOK
<1>1. mission' # mission
  OBVIOUS
<1>2. CASE Client
  <2>1. ASSUME NEW o \in Ops, NEW c \in Commands, Admit(o, c)
        PROVE  FALSE
    BY <2>1 DEF Admit, Written
  <2>2. ASSUME NEW e \in Editors, EditApply(e)
        PROVE  FALSE
    BY <2>2 DEF EditApply, Written
  <2>3. QED
    BY <1>1, <1>2, <2>1, <2>2 DEF Client, LaunchAdmitted, EditCheck
<1>3. ASSUME NEW w \in Procs, StartupFailed(w)
      PROVE  \E o \in Ops : Undoes(o)
  <2>1. proc[w].op \in Ops
    BY <1>3 DEF References, StartupFailed
  <2>2. Undoes(proc[w].op)
    <3>1. Claimable(op[proc[w].op])
      BY <1>1, <1>3 DEF StartupFailed
    <3>2. /\ op' = [op EXCEPT ![proc[w].op].phase = "blocked"]
          /\ mission' = Compensated(op[proc[w].op])
      BY <1>3, <3>1 DEF StartupFailed
    <3>3. op'[proc[w].op].phase = "blocked"
      BY <2>1, <3>2 DEF OpRecords
    <3>4. QED
      BY <3>1, <3>2, <3>3 DEF Undoes, Claimable, IsOpen, OpenPhases
  <2>3. QED
    BY <2>1, <2>2
<1>4. ASSUME NEW w \in Procs, MissionWrite(w)
      PROVE  FALSE
  <2>1. \A c : "refined" \notin WorkLanes(c, "active")
    BY DEF WorkLanes
  <2>2. PICK lane \in WorkLanes(op[proc[w].op].command, mission.lane) : mission' = Written(lane)
    BY <1>4 DEF MissionWrite
  <2>3. QED
    BY <2>1, <2>2 DEF Written
<1>5. ASSUME NEW w \in Procs, NEW success \in BOOLEAN, Finish(w, success)
      PROVE  \E o \in Ops : Undoes(o)
  <2>1. proc[w].op \in Ops
    BY <1>5 DEF References, Finish
  <2>2. Undoes(proc[w].op)
    <3>1. /\ IsOpen(op[proc[w].op]) /\ ~success /\ ~op[proc[w].op].started
          /\ op' = [op EXCEPT ![proc[w].op].phase = "blocked"]
          /\ mission' = Compensated(op[proc[w].op])
      BY <1>1, <1>5 DEF Finish
    <3>2. op'[proc[w].op].phase = "blocked"
      BY <2>1, <3>1 DEF OpRecords
    <3>3. QED
      BY <3>1, <3>2 DEF Undoes
  <2>3. QED
    BY <2>1, <2>2
<1>6. CASE \E w \in Procs : SupervisorStep(w) \/ ExecutorStep(w) \/ Crash(w)
  BY <1>1, <1>3, <1>4, <1>5, <1>6
     DEF SupervisorStep, Reserve, SupervisorError, Host, ExecutorExited, SupervisorObserve,
         SupervisorCommit, ExecutorStep, Claim, OpenRun, AuthorizeLaunch, SpawnProvider,
         SpawnFails, ProviderStarted, LaunchRefused, ProviderResult, Crash
<1>7. QED
  BY <1>1, <1>2, <1>6
     DEF Next, vars, ProviderExits, RecoveryStep, RecoverObserve, RecoverCommit, RecoverLaunch,
         StopStep, StopRequest, StopTerminate, StopEffects, StopCommit

(* A mission is taken back from active to refined only by an operation     *)
(* that activated it itself, when nobody has written the mission since and *)
(* no agent of it was recorded as started (startupFailed and the final     *)
(* transaction of workflow-operation-service.ts).                          *)
THEOREM UndoesOwnActivation == Spec => UndoOnlyOwnActivation
<1>1. Init => Unstarted
  BY DEF Init, Unstarted, Absent
<1>2. TypeOK /\ References /\ Unstarted /\ [Next]_vars => Unstarted'
  BY OpTableStep, UnstartedStep
<1>3. TypeOK /\ References /\ Unstarted /\ [Next]_vars
        => [mission.lane = "active" /\ mission'.lane = "refined" =>
              \E o \in Ops : /\ IsOpen(op[o]) /\ op'[o].phase = "blocked"
                             /\ mission.ver = op[o].activation
                             /\ op[o].original = "refined"
                             /\ ~op[o].started]_<<op, mission>>
  <2> SUFFICES ASSUME TypeOK, References, Unstarted, [Next]_vars,
                      mission.lane = "active", mission'.lane = "refined"
               PROVE  \E o \in Ops : /\ IsOpen(op[o]) /\ op'[o].phase = "blocked"
                                     /\ mission.ver = op[o].activation
                                     /\ op[o].original = "refined"
                                     /\ ~op[o].started
    OBVIOUS
  <2>1. PICK o \in Ops : Undoes(o)
    BY UndoStep
  <2>2. mission.ver = op[o].activation /\ op[o].original = "refined"
    BY <2>1 DEF Undoes, Compensated
  <2>3. QED
    BY <2>1, <2>2 DEF Undoes, Unstarted
<1>4. QED
  BY <1>1, <1>2, <1>3, TypeCorrect, PTL DEF Spec, UndoOnlyOwnActivation
=============================================================================
