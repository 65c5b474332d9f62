-------------------------- MODULE WorkflowOwnership --------------------------
(***************************************************************************)
(* Who may work on one mission, and until when.                            *)
(*                                                                         *)
(* A client's command (execute, review, draft, merge) is admitted as a     *)
(* durable workflow operation.  A detached supervisor process reserves it  *)
(* and hosts an executor process; the executor claims it, launches provider*)
(* (agent) processes one after another, writes the mission and settles the *)
(* operation.  Three other parties act on the same record: recovery passes,*)
(* which decide that an owner is dead; stop requests, which terminate an   *)
(* owner and revoke its generation; and the clients that edit or delete    *)
(* the mission without a workflow.  Every database transaction is one      *)
(* action; everything the code does between two transactions (liveness     *)
(* probes, kills, spawns) is an action of its own.                         *)
(*                                                                         *)
(* One mission is modelled: the operations of different missions share no  *)
(* record.  Sources are under src/src/.                                    *)
(***************************************************************************)
EXTENDS Naturals, FiniteSets

CONSTANTS
    Ops,            \* the operations that clients may have admitted
    Procs,          \* process identities (pid and start time)
    Recoverers,     \* recovery workers of px web and px ui
    Stoppers,       \* callers of px stop
    Editors,        \* clients that edit or delete the mission
    NoOp, NoProc,
    Commands,       \* the workflow commands clients use
    FirstLanes,     \* the lanes the mission may be in at the start
    MaxVersion,     \* bound: mission writes stop at this version
    MaxFaults,      \* bound: crashes, failed spawns and failed transactions
    CaptureMayFail  \* whether a run record may fail to open

AllCommands == {"execute", "review", "draft", "merge"}

(* "fixing" is the review lane whose last round is being repaired; "gone"  *)
(* is a deleted mission.                                                   *)
Lanes == {"backlog", "refined", "active", "fixing", "review", "integration",
          "done", "gone"}

ASSUME ConstantAssumption ==
    /\ NoOp \notin Ops
    /\ NoProc \notin Procs
    /\ Commands \subseteq AllCommands
    /\ FirstLanes \subseteq Lanes
    /\ MaxVersion \in Nat
    /\ MaxFaults \in Nat
    /\ CaptureMayFail \in BOOLEAN
    /\ Procs \cap Recoverers = {}

VARIABLES
    op,         \* the workflow_operations table
    mission,    \* lane and version of the missions row
    launching,  \* operations whose admitting client has yet to launch them
    proc,       \* the supervisor and executor processes
    provider,   \* per operation: its living agent process, if any
    runs,       \* per operation: its run records that are not settled
    observed,   \* per reconciler: the verdict it is about to commit
    stop,       \* per stopper: its progress and its snapshot
    editor,     \* per editor: 0, or the version of a form that was cleared
    faults,     \* how many faults have happened
    agentRan    \* history: operations for which a provider was spawned

vars == <<op, mission, launching, proc, provider, runs, observed, stop,
          editor, faults, agentRan>>

-----------------------------------------------------------------------------
(* The operation record and its policy: domain/workflow-operation.ts.      *)

OpenPhases    == {"accepted", "executing", "stopping"}
SettledPhases == {"completed", "blocked", "interrupted", "stopped"}

Absent == [phase |-> "none", gen |-> 0, owner |-> NoProc, launcher |-> NoProc,
           started |-> FALSE, activation |-> 0, original |-> "gone",
           command |-> "draft"]

IsOpen(r) == r.phase \in OpenPhases

(* Generation, phase and the presence of an owner are compared; the owner's*)
(* identity is not.                                                        *)
IsOwner(r, g) == r.gen = g /\ r.phase = "executing" /\ r.owner # NoProc

(* Variant: an operation that is being stopped, but was never claimed, may *)
(* still be claimed.                                                       *)
ClaimableWhileStopping(r) ==
    r.phase \in {"accepted", "stopping"} /\ r.owner = NoProc

Claimable(r) == r.phase = "accepted" /\ r.owner = NoProc

Claimed(r, w) == [r EXCEPT !.owner = w, !.gen = @ + 1, !.phase = "executing"]

(* Variant: an uncertain verdict changes nothing.                          *)
LostWhenDead(r, verdict) ==
    [r EXCEPT !.phase = IF verdict = "dead" THEN "interrupted" ELSE @]

(* Variant: the verdict is stored where the phase belongs.                 *)
LostVerbatim(r, verdict) == [r EXCEPT !.phase = verdict]

(* Confirmed death interrupts; an uncertain verdict only refuses a         *)
(* replacement.                                                            *)
Lost(r, verdict) ==
    [r EXCEPT !.phase = IF verdict = "dead" THEN "interrupted" ELSE "stopping"]

StopSettled(r) == [r EXCEPT !.gen = @ + 1, !.phase = "stopped"]

(* Variant: an operation that is being stopped no longer counts as open.   *)
CurrentUnlessStopping ==
    {o \in Ops : op[o].phase \in {"accepted", "executing"}}

Current == {o \in Ops : IsOpen(op[o])}

-----------------------------------------------------------------------------
(* The mission row.                                                        *)

(* Merging an active or reviewed mission takes an approved review, and a   *)
(* review of a mission in integration an explicit request: both are left   *)
(* open here.                                                              *)
Eligible(c, lane) ==
    CASE c = "draft"   -> lane = "backlog"
      [] c = "execute" -> lane \in {"refined", "active", "fixing"}
      [] c = "review"  -> lane \in {"active", "review", "fixing", "integration"}
      [] c = "merge"   -> lane \in {"active", "review", "integration"}

(* What the executor of each command may make of the lane while it works.  *)
WorkLanes(c, lane) ==
    CASE c = "draft" /\ lane \in {"backlog", "refined"} -> {"refined"}
      [] c = "execute" /\ lane \in {"active", "review"} -> {"active", "review"}
      [] c = "review" /\ lane \in {"active", "fixing"} ->
            {"active", "review", "fixing"}
      [] c = "review" /\ lane = "review" ->
            {"active", "review", "fixing", "integration"}
      [] c = "merge" /\ lane \in {"active", "review"} ->
            {"active", "review", "integration"}
      [] c = "merge" /\ lane = "integration" ->
            {"active", "review", "integration", "done"}
      [] OTHER -> {lane}

Written(lane) == [lane |-> lane, ver |-> mission.ver + 1]

(* Variant: the undo does not look at the version.                         *)
CompensatedBlindly(r) ==
    IF r.original = "refined" /\ r.activation # 0 /\ mission.lane = "active"
    THEN Written("refined")
    ELSE mission

(* Undo the activation of a mission nobody has written since; a later      *)
(* write belongs to later work.                                            *)
Compensated(r) ==
    IF /\ r.original = "refined"
       /\ r.activation # 0
       /\ mission.lane = "active"
       /\ mission.ver = r.activation
    THEN Written("refined")
    ELSE mission

-----------------------------------------------------------------------------
(* Processes.  A provider is a child of its executor.  It belongs to the   *)
(* executor's process group ("grouped") unless a no-output watchdog or a   *)
(* worker family launched it as a group leader ("detached").               *)

Idle == [pc |-> "off", op |-> NoOp, gen |-> 0, child |-> NoProc]

Running(w) == proc[w].pc # "off"

DispatchPcs == {"dispatch", "captured", "authorized", "spawned", "working",
                "failed"}

(* Nothing durable or awaited names the process: the operating system may  *)
(* give its pid to another, whose start time makes it a different identity.*)
Unreferenced(w) ==
    /\ \A o \in Ops : IsOpen(op[o]) => w \notin {op[o].owner, op[o].launcher}
    /\ \A v \in Procs : proc[v].child # w
    /\ \A s \in Stoppers : w \notin {stop[s].owner, stop[s].launcher}

Free(w) == ~Running(w) /\ Unreferenced(w)

(* The process is dead, but a member of its group is alive: not known dead.*)
Alive(w) ==
    IF Running(w) THEN "alive"
    ELSE IF \E o \in Ops : op[o].owner = w /\ provider[o] = "grouped"
         THEN "unknown"
         ELSE "dead"

(* Variant: a reservation is never taken over.                             *)
NeverReserved(w) == w = NoProc

(* No process, or one observed to be dead.                                 *)
KnownDead(w) == IF w = NoProc THEN TRUE ELSE Alive(w) = "dead"

(* A run record counts as stopped once its process exited with a code or   *)
(* its recorded process is seen dead.  "open": captured, no process yet;   *)
(* "live": process recorded and running; "lost": closed or orphaned before *)
(* a process was recorded.                                                 *)
EffectsSettled(o) == runs[o] = {}

Supervisor(o) == [Idle EXCEPT !.pc = "reserve", !.op = o]

(* What the death of process w leaves of the run records of operation o.   *)
RunsAfterDeath(w, o) ==
    IF proc[w].op = o /\ "open" \in runs[o]
       /\ proc[w].pc \in {"captured", "authorized"}
    THEN (runs[o] \ {"open"}) \cup {"lost"}
    ELSE runs[o]

-----------------------------------------------------------------------------
NoSnapshot == [pc |-> "idle", op |-> NoOp, gen |-> 0, owner |-> NoProc,
               launcher |-> NoProc, ownerStopped |-> FALSE,
               launcherStopped |-> FALSE]

NoVerdict == [op |-> NoOp, gen |-> 0, verdict |-> "none"]

Reconcilers == Recoverers \cup Procs

Init ==
    /\ op = [o \in Ops |-> Absent]
    /\ mission \in [lane : FirstLanes, ver : {1}]
    /\ launching = {}
    /\ proc = [w \in Procs |-> Idle]
    /\ provider = [o \in Ops |-> "none"]
    /\ runs = [o \in Ops |-> {}]
    /\ observed = [x \in Reconcilers |-> NoVerdict]
    /\ stop = [s \in Stoppers |-> NoSnapshot]
    /\ editor = [e \in Editors |-> 0]
    /\ faults = 0
    /\ agentRan = {}

-----------------------------------------------------------------------------
(* Clients.                                                                *)

(* The admission transaction.  What the client observed before it (the     *)
(* unlocked look at the table, agent selection) can only refuse earlier;   *)
(* everything is checked again here.  Executing activates the mission and  *)
(* remembers the version of that write; reviewing moves it to review.      *)
Admit(o, c) ==
    /\ op[o] = Absent
    /\ Current = {}
    /\ Eligible(c, mission.lane)
    /\ mission.ver < MaxVersion
    /\ LET moved == CASE c = "execute" -> Written("active")
                      [] c = "review" /\ mission.lane \in {"active", "integration"}
                                      -> Written("review")
                      [] OTHER        -> mission
       IN /\ mission' = moved
          /\ op' = [op EXCEPT ![o] =
                [Absent EXCEPT !.phase = "accepted",
                               !.original = mission.lane,
                               !.command = c,
                               !.activation = IF c = "execute"
                                              THEN moved.ver ELSE 0]]
    /\ launching' = launching \cup {o}
    /\ UNCHANGED <<proc, provider, runs, observed, stop, editor, faults,
                   agentRan>>

(* After the commit the client spawns a supervisor; a failed spawn, or a   *)
(* client that died first, leaves the accepted intent to recovery.         *)
LaunchAdmitted(o) ==
    /\ o \in launching
    /\ launching' = launching \ {o}
    /\ \/ \E w \in Procs : Free(w) /\ proc' = [proc EXCEPT ![w] = Supervisor(o)]
       \/ UNCHANGED proc
    /\ UNCHANGED <<op, mission, provider, runs, observed, stop, editor,
                   faults, agentRan>>

(* A command that is no workflow is refused while an operation is open,    *)
(* then handed to its dispatcher in a second step.  The client's form was  *)
(* read no later than the check; its version is the one remembered here.   *)
EditCheck(e) ==
    /\ editor[e] = 0
    /\ Current = {}
    /\ editor' = [editor EXCEPT ![e] = mission.ver]
    /\ UNCHANGED <<op, mission, launching, proc, provider, runs, observed,
                   stop, faults, agentRan>>

(* An edit saves at the version of its form; a cancel deletes the mission  *)
(* at whatever version it has; either may be refused or never arrive.      *)
EditApply(e) ==
    /\ editor[e] # 0
    /\ editor' = [editor EXCEPT ![e] = 0]
    /\ \/ /\ mission.lane \notin {"done", "gone"}
          /\ mission.ver = editor[e]
          /\ mission.ver < MaxVersion
          /\ mission' = Written(mission.lane)
       \/ /\ mission.lane # "done"
          /\ mission' = [mission EXCEPT !.lane = "gone"]
       \/ UNCHANGED mission
    /\ UNCHANGED <<op, launching, proc, provider, runs, observed, stop,
                   faults, agentRan>>

-----------------------------------------------------------------------------
(* The supervisor: reserve the launch, host one executor, reconcile.       *)

Fault == faults < MaxFaults /\ faults' = faults + 1

Goto(w, pc) == proc' = [proc EXCEPT ![w].pc = pc]
Exit(w)     == proc' = [proc EXCEPT ![w] = Idle]

(* One supervisor holds the reservation; another replaces it only when its *)
(* process is known dead.                                                  *)
Reserve(w) ==
    LET o == proc[w].op
        r == op[o]
        free == KnownDead(r.launcher)
    IN /\ proc[w].pc = "reserve"
       /\ \/ /\ Claimable(r) /\ free
             /\ op' = [op EXCEPT ![o].launcher = w]
             /\ Goto(w, "host")
          \/ /\ ~(Claimable(r) /\ free)
             /\ Exit(w)
             /\ UNCHANGED op
       /\ UNCHANGED <<mission, launching, provider, runs, observed, stop,
                      editor, faults, agentRan>>

(* Any error before or during hosting, in a supervisor that holds the      *)
(* reservation or in one that does not, ends in startupFailed.             *)
SupervisorError(w) ==
    /\ proc[w].pc \in {"reserve", "host"}
    /\ Fault
    /\ Goto(w, "abort")
    /\ UNCHANGED <<op, mission, launching, provider, runs, observed, stop,
                   editor, agentRan>>

(* The executor process is spawned, in a group of its own.                 *)
Host(w) ==
    /\ proc[w].pc = "host"
    /\ \E x \in Procs :
          /\ Free(x)
          /\ proc' = [proc EXCEPT
                ![w].pc = "wait", ![w].child = x,
                ![x] = [Idle EXCEPT !.pc = "claim", !.op = proc[w].op]]
    /\ UNCHANGED <<op, mission, launching, provider, runs, observed, stop,
                   editor, faults, agentRan>>

ExecutorExited(w) ==
    /\ proc[w].pc = "wait"
    /\ ~Running(proc[w].child)
    /\ Goto(w, "settle")
    /\ UNCHANGED <<op, mission, launching, provider, runs, observed, stop,
                   editor, faults, agentRan>>

(* Block an operation nobody claimed.  After an executor's exit the        *)
(* supervisor goes on to reconcile; after an error it leaves.              *)
StartupFailed(w) ==
    LET o == proc[w].op
    IN /\ proc[w].pc \in {"settle", "abort"}
       /\ IF Claimable(op[o])
          THEN /\ op' = [op EXCEPT ![o].phase = "blocked"]
               /\ mission' = Compensated(op[o])
          ELSE UNCHANGED <<op, mission>>
       /\ IF proc[w].pc = "settle" THEN Goto(w, "reconcile") ELSE Exit(w)
       /\ UNCHANGED <<launching, provider, runs, observed, stop, editor,
                      faults, agentRan>>

-----------------------------------------------------------------------------
(* The executor: claim, then any number of launches and writes, then the   *)
(* final transaction.                                                      *)

Owns(w) == IsOwner(op[proc[w].op], proc[w].gen)

(* Variant: an executor that finds the operation claimed resumes it.       *)
ClaimOrResume(w) ==
    LET o == proc[w].op
    IN /\ proc[w].pc = "claim"
       /\ IF Claimable(op[o])
          THEN /\ op' = [op EXCEPT ![o] = Claimed(op[o], w)]
               /\ proc' = [proc EXCEPT ![w].pc = "dispatch",
                                       ![w].gen = op[o].gen + 1]
          ELSE /\ proc' = [proc EXCEPT ![w].pc = "dispatch",
                                       ![w].gen = op[o].gen]
               /\ UNCHANGED op
       /\ UNCHANGED <<mission, launching, provider, runs, observed, stop,
                      editor, faults, agentRan>>

Claim(w) ==
    LET o == proc[w].op
    IN /\ proc[w].pc = "claim"
       /\ \/ /\ Claimable(op[o])
             /\ op' = [op EXCEPT ![o] = Claimed(op[o], w)]
             /\ proc' = [proc EXCEPT ![w].pc = "dispatch",
                                     ![w].gen = op[o].gen + 1]
          \/ /\ ~Claimable(op[o])
             /\ Exit(w)
             /\ UNCHANGED op
       /\ UNCHANGED <<mission, launching, provider, runs, observed, stop,
                      editor, faults, agentRan>>

(* A guarded mission write: ownership is read inside its transaction.      *)
MissionWrite(w) ==
    /\ proc[w].pc \in {"dispatch", "working"}
    /\ Owns(w)
    /\ mission.lane # "gone"
    /\ mission.ver < MaxVersion
    /\ \E lane \in WorkLanes(op[proc[w].op].command, mission.lane) :
          mission' = Written(lane)
    /\ UNCHANGED <<op, launching, proc, provider, runs, observed, stop,
                   editor, faults, agentRan>>

(* A launch opens its run record first; a record that cannot be opened     *)
(* does not block the launch.                                              *)
OpenRun(w) ==
    /\ proc[w].pc = "dispatch"
    /\ Goto(w, "captured")
    /\ \/ runs' = [runs EXCEPT ![proc[w].op] = @ \cup {"open"}]
       \/ CaptureMayFail /\ UNCHANGED runs
    /\ UNCHANGED <<op, mission, launching, provider, observed, stop, editor,
                   faults, agentRan>>

Unlaunched(o) == runs' = [runs EXCEPT ![o] =
    IF "open" \in @ THEN (@ \ {"open"}) \cup {"lost"} ELSE @]

AuthorizeLaunch(w) ==
    /\ proc[w].pc = "captured"
    /\ \/ Owns(w) /\ Goto(w, "authorized") /\ UNCHANGED runs
       \/ ~Owns(w) /\ Goto(w, "failed") /\ Unlaunched(proc[w].op)
    /\ UNCHANGED <<op, mission, launching, provider, observed, stop, editor,
                   faults, agentRan>>

(* The provider is spawned and its pid recorded in the same turn.          *)
SpawnProvider(w) ==
    LET o == proc[w].op
    IN /\ proc[w].pc = "authorized"
       /\ Goto(w, "spawned")
       /\ \E kind \in {"grouped", "detached"} :
             provider' = [provider EXCEPT ![o] = kind]
       /\ runs' = [runs EXCEPT ![o] =
             IF "open" \in @ THEN (@ \ {"open"}) \cup {"live"} ELSE @]
       /\ agentRan' = agentRan \cup {o}
       /\ UNCHANGED <<op, mission, launching, observed, stop, editor, faults>>

(* The provider could not be spawned; another one may be tried.            *)
SpawnFails(w) ==
    /\ proc[w].pc = "authorized"
    /\ Fault
    /\ \E pc \in {"dispatch", "failed"} : Goto(w, pc)
    /\ Unlaunched(proc[w].op)
    /\ UNCHANGED <<op, mission, launching, provider, observed, stop, editor,
                   agentRan>>

ProviderStarted(w) ==
    /\ proc[w].pc = "spawned"
    /\ Owns(w)
    /\ op' = [op EXCEPT ![proc[w].op].started = TRUE]
    /\ Goto(w, "working")
    /\ UNCHANGED <<mission, launching, provider, runs, observed, stop,
                   editor, faults, agentRan>>

(* A launch whose start cannot be recorded, fenced or for want of the      *)
(* database, is stopped again.                                             *)
LaunchRefused(w) ==
    LET o == proc[w].op
    IN /\ proc[w].pc = "spawned"
       /\ \/ ~Owns(w) /\ UNCHANGED faults
          \/ Fault
       /\ provider' = [provider EXCEPT ![o] = "none"]
       /\ runs' = [runs EXCEPT ![o] = @ \ {"live"}]
       /\ Goto(w, "failed")
       /\ UNCHANGED <<op, mission, launching, observed, stop, editor,
                      agentRan>>

ProviderExits(o) ==
    /\ provider[o] # "none"
    /\ provider' = [provider EXCEPT ![o] = "none"]
    /\ runs' = [runs EXCEPT ![o] = @ \ {"live"}]
    /\ UNCHANGED <<op, mission, launching, proc, observed, stop, editor,
                   faults, agentRan>>

(* The awaited result arrives: go on, or fail.                             *)
ProviderResult(w) ==
    /\ proc[w].pc = "working"
    /\ provider[proc[w].op] = "none"
    /\ \E pc \in {"dispatch", "failed"} : Goto(w, pc)
    /\ UNCHANGED <<op, mission, launching, provider, runs, observed, stop,
                   editor, faults, agentRan>>

(* The final transaction.  A fenced or stopping operation is left alone; a *)
(* failure before any provider started undoes the activation.              *)
Finish(w, success) ==
    LET o == proc[w].op
        r == op[o]
    IN /\ proc[w].pc = "dispatch" \/ (proc[w].pc = "failed" /\ ~success)
       /\ IF r.gen # proc[w].gen \/ r.phase = "stopping" \/ ~IsOpen(r)
          THEN UNCHANGED <<op, mission>>
          ELSE /\ mission' = IF success \/ r.started THEN mission
                             ELSE Compensated(r)
               /\ op' = [op EXCEPT ![o].phase =
                     IF success THEN "completed" ELSE "blocked"]
       /\ Exit(w)
       /\ UNCHANGED <<launching, provider, runs, observed, stop, editor,
                      faults, agentRan>>

(* Any process may die between two steps.  Providers outlive it.           *)
Crash(w) ==
    /\ Running(w)
    /\ Fault
    /\ Exit(w)
    /\ runs' = [o \in Ops |-> RunsAfterDeath(w, o)]
    /\ observed' = [observed EXCEPT ![w] = NoVerdict]
    /\ UNCHANGED <<op, mission, launching, provider, stop, editor, agentRan>>

-----------------------------------------------------------------------------
(* Recovery.  A verdict is formed outside any transaction and committed in *)
(* one.  The supervisor reconciles its own operation the same way.         *)

(* Variant: a dead owner is enough, whatever its agents do.                *)
VerdictOnOwner(o) == Alive(op[o].owner)

Verdict(o) ==
    IF Alive(op[o].owner) = "dead" /\ ~EffectsSettled(o) THEN "unknown"
    ELSE Alive(op[o].owner)

Observe(x, o) ==
    /\ observed[x] = NoVerdict
    /\ op[o].phase = "executing"
    /\ Verdict(o) # "alive"
    /\ observed' = [observed EXCEPT ![x] =
          [op |-> o, gen |-> op[o].gen, verdict |-> Verdict(o)]]

(* Nothing to reconcile: settled, stopping, unclaimed or owned by a living *)
(* process.                                                                *)
NothingToReconcile(o) ==
    op[o].phase = "executing" => Verdict(o) = "alive"

(* Variant: the verdict is committed without looking again.                *)
CommitStaleVerdict(x) ==
    LET v == observed[x]
    IN /\ v # NoVerdict
       /\ op' = [op EXCEPT ![v.op] = Lost(op[v.op], v.verdict)]
       /\ observed' = [observed EXCEPT ![x] = NoVerdict]

CommitVerdict(x) ==
    LET v == observed[x]
        r == op[v.op]
    IN /\ v # NoVerdict
       /\ op' = IF r.gen # v.gen \/ r.phase = "stopping" \/ ~IsOpen(r)
                THEN op
                ELSE [op EXCEPT ![v.op] = Lost(r, v.verdict)]
       /\ observed' = [observed EXCEPT ![x] = NoVerdict]

RecoverObserve(x) ==
    /\ \E o \in Ops : Observe(x, o)
    /\ UNCHANGED <<op, mission, launching, proc, provider, runs, stop, editor,
                   faults, agentRan>>

RecoverCommit(x) ==
    /\ CommitVerdict(x)
    /\ UNCHANGED <<mission, launching, proc, provider, runs, stop, editor,
                   faults, agentRan>>

(* Unclaimed intent with no living launcher is launched again.             *)
RecoverLaunch(x) ==
    /\ observed[x] = NoVerdict
    /\ \E o \in Ops, w \in Procs :
          /\ Claimable(op[o])
          /\ KnownDead(op[o].launcher)
          /\ Free(w)
          /\ proc' = [proc EXCEPT ![w] = Supervisor(o)]
    /\ UNCHANGED <<op, mission, launching, provider, runs, observed, stop,
                   editor, faults, agentRan>>

SupervisorObserve(w) ==
    /\ proc[w].pc = "reconcile"
    /\ \/ Observe(w, proc[w].op) /\ UNCHANGED proc
       \/ /\ observed[w] = NoVerdict
          /\ NothingToReconcile(proc[w].op)
          /\ Exit(w)
          /\ UNCHANGED observed
    /\ UNCHANGED <<op, mission, launching, provider, runs, stop, editor,
                   faults, agentRan>>

SupervisorCommit(w) ==
    /\ proc[w].pc = "reconcile"
    /\ CommitVerdict(w)
    /\ Exit(w)
    /\ UNCHANGED <<mission, launching, provider, runs, stop, editor, faults,
                   agentRan>>

-----------------------------------------------------------------------------
(* Stopping: mark, terminate, settle.                                      *)

StopRequest(s) ==
    /\ stop[s].pc = "idle"
    /\ \E o \in Current :
          /\ op' = [op EXCEPT ![o].phase = "stopping"]
          /\ stop' = [stop EXCEPT ![s] =
                [NoSnapshot EXCEPT !.pc = "terminate", !.op = o,
                    !.gen = op[o].gen, !.owner = op[o].owner,
                    !.launcher = op[o].launcher]]
    /\ UNCHANGED <<mission, launching, proc, provider, runs, observed,
                   editor, faults, agentRan>>

(* Owner and launcher are terminated, the owner with its process tree and  *)
(* group.  Either termination may stay unconfirmed.  An executor that is a *)
(* child of the launcher and has not claimed will find nothing to claim.   *)
StopTerminate(s) ==
    LET o == stop[s].op
        Asked == {stop[s].owner, stop[s].launcher} \ {NoProc}
    IN /\ stop[s].pc = "terminate"
       /\ \E unconfirmed \in SUBSET Asked :
             LET killed == Asked \ unconfirmed
             IN /\ IF unconfirmed = {} THEN UNCHANGED faults ELSE Fault
                /\ proc' = [w \in Procs |-> IF w \in killed THEN Idle
                                            ELSE proc[w]]
                /\ observed' = [x \in Reconcilers |->
                      IF x \in killed THEN NoVerdict ELSE observed[x]]
                /\ IF stop[s].owner \in killed
                      /\ (Running(stop[s].owner) \/ provider[o] = "grouped")
                   THEN /\ provider' = [provider EXCEPT ![o] = "none"]
                        /\ runs' = [runs EXCEPT ![o] =
                              RunsAfterDeath(stop[s].owner, o) \ {"live"}]
                   ELSE UNCHANGED <<provider, runs>>
                /\ stop' = [stop EXCEPT ![s].pc = "effects",
                      ![s].ownerStopped = stop[s].owner \notin unconfirmed,
                      ![s].launcherStopped =
                          stop[s].launcher \notin unconfirmed]
    /\ UNCHANGED <<op, mission, launching, editor, agentRan>>

(* Variant: recorded agent processes are awaited but not terminated.       *)
StopAwaitsEffects(s) ==
    /\ stop[s].pc = "effects"
    /\ stop' = [stop EXCEPT ![s] =
          IF runs[stop[s].op] = {} THEN [@ EXCEPT !.pc = "commit"]
          ELSE NoSnapshot]
    /\ UNCHANGED <<op, mission, launching, proc, provider, runs, observed,
                   editor, faults, agentRan>>

(* Recorded agent processes are terminated by identity; a record that names*)
(* no process cannot be, and leaves the stop pending, as does a process    *)
(* whose end is not confirmed.                                             *)
StopEffects(s) ==
    LET o == stop[s].op
    IN /\ stop[s].pc = "effects"
       /\ \E left \in {runs[o] \ {"live"}, runs[o]} :
             /\ IF "live" \in left THEN Fault ELSE UNCHANGED faults
             /\ runs' = [runs EXCEPT ![o] = left]
             /\ provider' = IF "live" \in runs[o] \ left
                            THEN [provider EXCEPT ![o] = "none"] ELSE provider
             /\ stop' = [stop EXCEPT ![s] =
                   IF left = {} THEN [@ EXCEPT !.pc = "commit"] ELSE NoSnapshot]
       /\ UNCHANGED <<op, mission, launching, proc, observed, editor, agentRan>>

(* The operation is settled, and its generation revoked, only if both      *)
(* processes are gone and nobody changed the operation meanwhile.          *)
StopCommit(s) ==
    LET v == stop[s]
        r == op[v.op]
        gone == (v.ownerStopped \/ KnownDead(v.owner)) /\ v.launcherStopped
    IN /\ v.pc = "commit"
       /\ op' = IF gone /\ r.gen = v.gen /\ r.phase = "stopping"
                THEN [op EXCEPT ![v.op] = StopSettled(r)]
                ELSE op
       /\ stop' = [stop EXCEPT ![s] = NoSnapshot]
       /\ UNCHANGED <<mission, launching, proc, provider, runs, observed,
                      editor, faults, agentRan>>

-----------------------------------------------------------------------------
Client      == \/ \E o \in Ops, c \in Commands : Admit(o, c)
               \/ \E o \in Ops : LaunchAdmitted(o)
               \/ \E e \in Editors : EditCheck(e) \/ EditApply(e)

SupervisorStep(w) ==
    \/ Reserve(w) \/ SupervisorError(w) \/ Host(w) \/ ExecutorExited(w)
    \/ StartupFailed(w) \/ SupervisorObserve(w) \/ SupervisorCommit(w)

ExecutorStep(w) ==
    \/ Claim(w) \/ MissionWrite(w) \/ OpenRun(w) \/ AuthorizeLaunch(w)
    \/ SpawnProvider(w) \/ SpawnFails(w) \/ ProviderStarted(w)
    \/ LaunchRefused(w) \/ ProviderResult(w)
    \/ \E success \in BOOLEAN : Finish(w, success)

RecoveryStep(x) == RecoverObserve(x) \/ RecoverCommit(x) \/ RecoverLaunch(x)

StopStep(s) ==
    StopRequest(s) \/ StopTerminate(s) \/ StopEffects(s) \/ StopCommit(s)

Next ==
    \/ Client
    \/ \E w \in Procs : SupervisorStep(w) \/ ExecutorStep(w) \/ Crash(w)
    \/ \E o \in Ops : ProviderExits(o)
    \/ \E x \in Recoverers : RecoveryStep(x)
    \/ \E s \in Stoppers : StopStep(s)

Spec == Init /\ [][Next]_vars

(* Recovery workers repeat their pass every two seconds, and a started     *)
(* supervisor or executor runs on until it crashes.  Nothing is assumed of *)
(* clients, providers, or how long an executor works.                      *)
RecoveryFairness ==
    /\ \A w \in Procs : WF_vars(SupervisorStep(w)) /\ WF_vars(Claim(w))
    /\ \A x \in Recoverers : WF_vars(RecoveryStep(x))

(* An operator who was told that a stop is pending repeats it.             *)
RetryStop(s) ==
    /\ stop[s].pc = "idle" => \E o \in Ops : op[o].phase = "stopping"
    /\ StopStep(s)

RecoverySpec == Spec /\ RecoveryFairness
OperatorSpec == RecoverySpec /\ \A s \in Stoppers : WF_vars(RetryStop(s))

-----------------------------------------------------------------------------
(* Properties.                                                             *)

OpRecords == [phase : {"none"} \cup OpenPhases \cup SettledPhases, gen : Nat,
              owner : Procs \cup {NoProc}, launcher : Procs \cup {NoProc},
              started : BOOLEAN, activation : Nat, original : Lanes,
              command : AllCommands]

ProcRecords == [pc : {"off", "reserve", "host", "wait", "settle", "abort",
                      "reconcile", "claim"} \cup DispatchPcs,
                op : Ops \cup {NoOp}, gen : Nat, child : Procs \cup {NoProc}]

StopRecords == [pc : {"idle", "terminate", "effects", "commit"},
                op : Ops \cup {NoOp}, gen : Nat,
                owner : Procs \cup {NoProc}, launcher : Procs \cup {NoProc},
                ownerStopped : BOOLEAN, launcherStopped : BOOLEAN]

Verdicts == [op : Ops \cup {NoOp}, gen : Nat,
             verdict : {"none", "dead", "unknown"}]

(* Every variable keeps the shape that the record readers of the store     *)
(* insist on.                                                              *)
TypeOK ==
    /\ op \in [Ops -> OpRecords]
    /\ mission \in [lane : Lanes, ver : Nat]
    /\ launching \subseteq Ops
    /\ proc \in [Procs -> ProcRecords]
    /\ provider \in [Ops -> {"none", "grouped", "detached"}]
    /\ runs \in [Ops -> SUBSET {"open", "live", "lost"}]
    /\ observed \in [Reconcilers -> Verdicts]
    /\ stop \in [Stoppers -> StopRecords]
    /\ editor \in [Editors -> Nat]
    /\ faults \in Nat
    /\ agentRan \subseteq Ops

(* At most one operation of the mission is open, whatever clients,         *)
(* supervisors, recovery and stop do in whatever order.                    *)
OneOpenOperation ==
    \A o1, o2 \in Ops : IsOpen(op[o1]) /\ IsOpen(op[o2]) => o1 = o2

(* The guard on a mission write compares a generation and a phase, never a *)
(* process.  It lets at most one process through all the same.             *)
OneWriter ==
    \A v, w \in Procs :
        /\ proc[v].pc \in DispatchPcs /\ Owns(v)
        /\ proc[w].pc \in DispatchPcs /\ Owns(w)
        => v = w

(* A settled operation left nothing behind: no agent of it is alive and no *)
(* executor of it is still at work.  This is what makes it safe to admit   *)
(* the next command.                                                       *)
SettledIsQuiet ==
    \A o \in Ops : op[o].phase \in SettledPhases =>
        /\ provider[o] = "none"
        /\ \A w \in Procs : proc[w].op = o => proc[w].pc \notin DispatchPcs

(* A settled operation is never reopened, resettled or rewritten, by a     *)
(* late final transaction, verdict, startup failure or second stop.        *)
SettledIsFinal ==
    [][\A o \in Ops : op[o].phase \in SettledPhases => op'[o] = op[o]]_op

(* The mission leaves active for refined only when a failed start undoes   *)
(* its own activation: nothing was written since, and no agent of the      *)
(* operation had been recorded as started.                                 *)
UndoOnlyOwnActivation ==
    [][mission.lane = "active" /\ mission'.lane = "refined" =>
        \E o \in Ops : /\ IsOpen(op[o]) /\ op'[o].phase = "blocked"
                       /\ mission.ver = op[o].activation
                       /\ op[o].original = "refined"
                       /\ ~op[o].started]_<<op, mission>>

(* The same, judged by what happened and not by what was recorded: no      *)
(* agent of the undone operation was ever spawned.                         *)
UndoOnlyBeforeAgent ==
    [][mission.lane = "active" /\ mission'.lane = "refined" =>
        \E o \in Ops : IsOpen(op[o]) /\ op'[o].phase = "blocked"
                       /\ o \notin agentRan]_<<op, mission>>

(* While an operation owns the mission, no client edits or deletes it.     *)
EditOnlyUnowned ==
    [][(\E e \in Editors : editor[e] # 0 /\ editor'[e] = 0)
       /\ mission' # mission => Current = {}]_vars

(* Accepted intent is claimed or settled in the end, whichever client,     *)
(* supervisor or executor died on the way.                                 *)
AcceptedProgress ==
    \A o \in Ops : op[o].phase = "accepted" ~> op[o].phase # "accepted"

(* The death of an owner never leaves its operation executing.             *)
OwnerLossNoticed ==
    \A o \in Ops :
        op[o].phase = "executing" /\ ~Running(op[o].owner)
            ~> op[o].phase # "executing"

(* A stop that is retried settles the operation.                           *)
StopSettles ==
    \A o \in Ops : op[o].phase = "stopping" ~> op[o].phase = "stopped"

(* It does so unless a run record names no process.                        *)
StopSettlesAttributed ==
    \A o \in Ops : op[o].phase = "stopping" ~>
        op[o].phase = "stopped" \/ "lost" \in runs[o]

-----------------------------------------------------------------------------
(* The lease that the service implements.                                  *)

Stage(r) ==
    CASE r.phase = "none"                             -> "new"
      [] r.phase = "accepted"                         -> "waiting"
      [] r.phase = "executing"                        -> "held"
      [] r.phase = "stopping" /\ r.owner = NoProc    -> "withdrawn"
      [] r.phase = "stopping" /\ r.owner # NoProc    -> "draining"
      [] OTHER                                        -> "ended"

Lease == INSTANCE MissionLease WITH
    stage <- [o \in Ops |-> Stage(op[o])],
    busy  <- [o \in Ops |-> provider[o] # "none"]

(* Every step of clients, processes, recovery and stop is a step of the    *)
(* lease or invisible to it.                                               *)
LeaseSpec == Lease!Spec

(* Two operations never have agents at work on the mission at once: a      *)
(* replacement is not admitted while an agent of its predecessor may live. *)
OneAgent == Lease!OneAgentHolder
=============================================================================
