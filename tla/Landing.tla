------------------------------ MODULE Landing ------------------------------
(***************************************************************************)
(* Several approved missions land on one base branch.  Each integrate run  *)
(* rebases the mission branch onto the base, runs the gates on the result, *)
(* takes the base for itself, squashes the branch onto it and closes the   *)
(* mission: remote sync, delivery, statistics, hook, removal of worktree   *)
(* and branch, closure.  A run can stop at every step, by a failure it     *)
(* reports or because its process dies; the operator tries again, or asks  *)
(* for the closeout of the commit that is already on the base.             *)
(*                                                                         *)
(* The base is the sequence of its commits.  "on" is the length of the     *)
(* base that a mission branch contains; a rebase is needed as long as that *)
(* is not all of it.                                                       *)
(***************************************************************************)
EXTENDS Naturals, Sequences, FiniteSets

CONSTANTS
  Missions,
  Outside,        \* author of the base commits that no mission landed
  Disturbances,   \* subset of {"run", "lock"}: what others may do meanwhile
  MaxChange,      \* bound: versions of a mission's change
  MaxOutside,     \* bound: base commits by others
  MaxFaults       \* bound: failed steps and dead processes

ASSUME OutsideAssumption == Outside \notin Missions
ASSUME DisturbancesAssumption == Disturbances \subseteq {"run", "lock"}
ASSUME LandingBounds == MaxChange \in Nat \ {0} /\ MaxOutside \in Nat /\ MaxFaults \in Nat

VARIABLES
  base,      \* commits of the base branch, oldest first
  holder,    \* the run that has the base for itself, Outside if none
  mission,   \* the stored mission: lane, approved change, closed
  branch,    \* its branch: change, base it contains, and whether it exists
  gated,     \* the branch as the gates of the current run last saw it
  effects,   \* closeout effects that happened
  pc,        \* what the integrate process of a mission does next
  tries,     \* 0 before the first recheck of the base, then landing attempts
  faults

vars == <<base, holder, mission, branch, gated, effects, pc, tries, faults>>
stored == <<mission, branch, effects>>

Changes == 1..MaxChange
Tree == [change : Changes, on : Nat]
NoTree == [change |-> 0, on |-> 0]

Steps == {"prepare", "gate", "gated", "land", "publish", "sync",
          "deliver", "measure", "hook", "clean", "close"}
Ended == {"idle", "contended", "gaveUp"}

Commit == [mission : Missions \cup {Outside}, change : 0..MaxChange]

TypeOK ==
  /\ base \in Seq(Commit)
  /\ holder \in Missions \cup {Outside}
  /\ mission \in [Missions -> [lane : {"review", "integration", "done"},
                               approved : 0..MaxChange, closed : BOOLEAN]]
  /\ branch \in [Missions -> [change : Changes, on : Nat, exists : BOOLEAN]]
  /\ gated \in [Missions -> Tree \cup {NoTree}]
  /\ effects \in [Missions -> SUBSET {"statistics", "hook"}]
  /\ pc \in [Missions -> Steps \cup Ended]
  /\ tries \in [Missions -> 0..4]
  /\ faults \in 0..MaxFaults

Init ==
  /\ base = << >> /\ holder = Outside
  /\ mission = [m \in Missions |-> [lane |-> "integration", approved |-> 1, closed |-> FALSE]]
  /\ branch = [m \in Missions |-> [change |-> 1, on |-> 0, exists |-> TRUE]]
  /\ gated = [m \in Missions |-> NoTree]
  /\ effects = [m \in Missions |-> {}]
  /\ pc = [m \in Missions |-> "idle"]
  /\ tries = [m \in Missions |-> 0]
  /\ faults = 0

Running(m) == pc[m] \notin Ended

(* A landed squash is recognised by the mission it names, nothing else. *)
LandedSquash(m) == \E i \in DOMAIN base : base[i].mission = m

RebaseNeeded(m) == branch[m].on # Len(base)
TreeOf(m) == [change |-> branch[m].change, on |-> branch[m].on]
Integrable(m) == mission[m].lane \in {"integration", "done"}

Goto(m, step) == pc' = [pc EXCEPT ![m] = step]

(* Variant: the base stays claimed. *)
EndHolding(m, how) ==
  /\ Goto(m, how)
  /\ gated' = [gated EXCEPT ![m] = NoTree]
  /\ tries' = [tries EXCEPT ![m] = 0]
  /\ UNCHANGED holder

(* The run is over: its claims are released and its process forgets. *)
End(m, how) ==
  /\ Goto(m, how)
  /\ gated' = [gated EXCEPT ![m] = NoTree]
  /\ tries' = [tries EXCEPT ![m] = 0]
  /\ holder' = IF holder = m THEN Outside ELSE holder

(***************************************************************************)
(* The integrate run.                                                      *)
(***************************************************************************)
(* A closed mission is reported as integrated, or refused; nothing runs. *)
Start(m) ==
  /\ ~Running(m) /\ ~mission[m].closed /\ Integrable(m) /\ branch[m].exists
  /\ Goto(m, "prepare")
  /\ UNCHANGED <<base, holder, stored, gated, tries, faults>>

(* A mission whose squash has landed is not rebased. *)
Prepare(m) ==
  /\ pc[m] = "prepare"
  /\ branch' = IF LandedSquash(m) THEN branch ELSE [branch EXCEPT ![m].on = Len(base)]
  /\ Goto(m, "gate")
  /\ UNCHANGED <<base, holder, mission, gated, effects, tries, faults>>

(* The gates are green, or the operator or the configuration has none to run. *)
GatesPass(m) ==
  /\ pc[m] = "gate"
  /\ gated' = [gated EXCEPT ![m] = TreeOf(m)]
  /\ Goto(m, "gated")
  /\ UNCHANGED <<base, holder, stored, tries, faults>>

(* A red gate gives the mission back to its implementer: the approval is gone. *)
(* (A repair the approval is retained over ends in GatesPass.)                 *)
GatesFail(m) ==
  /\ pc[m] = "gate" /\ mission[m].lane = "integration"
  /\ branch[m].change < MaxChange
  /\ mission' = [mission EXCEPT ![m].lane = "review", ![m].approved = 0]
  /\ End(m, "idle")
  /\ UNCHANGED <<base, branch, effects, faults>>

(* The base moved while the gates ran: once more, on the base as it is. *)
BaseAdvanced(m) ==
  /\ pc[m] = "gated" /\ tries[m] = 0 /\ RebaseNeeded(m)
  /\ tries' = [tries EXCEPT ![m] = 1]
  /\ Goto(m, "prepare")
  /\ UNCHANGED <<base, holder, stored, gated, faults>>

(* Variant: no bound on the landing attempts. *)
ReadyForever(m) ==
  /\ pc[m] = "gated" /\ Integrable(m)
  /\ tries[m] = 0 => ~RebaseNeeded(m)
  /\ tries' = [tries EXCEPT ![m] = IF @ = 0 THEN 1 ELSE @]
  /\ Goto(m, "land")
  /\ UNCHANGED <<base, holder, stored, gated, faults>>

Ready(m) ==
  /\ pc[m] = "gated" /\ Integrable(m) /\ tries[m] < 4
  /\ tries[m] = 0 => ~RebaseNeeded(m)
  /\ tries' = [tries EXCEPT ![m] = IF @ = 0 THEN 1 ELSE @]
  /\ Goto(m, "land")
  /\ UNCHANGED <<base, holder, stored, gated, faults>>

(* The lane was taken back meanwhile and nothing restores it (an approval  *)
(* that stands has restored lane and approval at once, in Approve), or     *)
(* three landing attempts were made.                                       *)
NotReady(m) ==
  /\ pc[m] = "gated"
  /\ \/ ~Integrable(m) /\ (tries[m] = 0 => ~RebaseNeeded(m)) /\ End(m, "idle")
     \/ Integrable(m) /\ tries[m] = 4 /\ End(m, "gaveUp")
  /\ UNCHANGED <<base, stored, faults>>

(* Variant: the base is not compared once more. *)
TakeBaseUnchecked(m) ==
  /\ pc[m] = "land" /\ holder = Outside
  /\ holder' = m
  /\ Goto(m, "publish")
  /\ UNCHANGED <<base, stored, gated, tries, faults>>

(* With the base for itself, the run checks that the gates saw this base. *)
TakeBase(m) ==
  /\ pc[m] = "land" /\ holder = Outside /\ ~RebaseNeeded(m)
  /\ holder' = m
  /\ Goto(m, "publish")
  /\ UNCHANGED <<base, stored, gated, tries, faults>>

Reconcile(m) ==
  /\ pc[m] = "land" /\ holder = Outside /\ RebaseNeeded(m)
  /\ tries' = [tries EXCEPT ![m] = @ + 1]
  /\ Goto(m, "prepare")
  /\ UNCHANGED <<base, holder, stored, gated, faults>>

BaseIsTaken(m) ==
  /\ pc[m] = "land" /\ holder # Outside
  /\ End(m, "contended")
  /\ UNCHANGED <<base, stored, faults>>

(* A squash that is already on the base is resumed, never made again. *)
Resume(m) ==
  /\ pc[m] = "publish" /\ LandedSquash(m)
  /\ Goto(m, "sync")
  /\ UNCHANGED <<base, holder, stored, gated, tries, faults>>

(* Variant: a squash that has landed is not looked for. *)
SquashAlways(m) ==
  /\ pc[m] = "publish"
  /\ base' = Append(base, [mission |-> m, change |-> branch[m].change])
  /\ Goto(m, "sync")
  /\ UNCHANGED <<holder, stored, gated, tries, faults>>

(* Variant: a failed commit is taken for the landed one. *)
SquashUnverified(m) ==
  /\ pc[m] = "publish" /\ ~LandedSquash(m)
  /\ \/ base' = Append(base, [mission |-> m, change |-> branch[m].change])
     \/ UNCHANGED base
  /\ Goto(m, "sync")
  /\ UNCHANGED <<holder, stored, gated, tries, faults>>

Squash(m) ==
  /\ pc[m] = "publish" /\ ~LandedSquash(m)
  /\ base' = Append(base, [mission |-> m, change |-> branch[m].change])
  /\ Goto(m, "sync")
  /\ UNCHANGED <<holder, stored, gated, tries, faults>>

(* The lane is checked before the remote is touched. *)
Sync(m) ==
  /\ pc[m] = "sync"
  /\ IF Integrable(m)
     THEN Goto(m, "deliver") /\ UNCHANGED <<holder, gated, tries>>
     ELSE End(m, "idle")
  /\ UNCHANGED <<base, stored, faults>>

(* Variant: the closeout of a delivered mission is not taken up again. *)
RecoverUndelivered(m) ==
  /\ ~Running(m) /\ LandedSquash(m) /\ mission[m].lane = "integration"
  /\ Goto(m, "deliver")
  /\ UNCHANGED <<base, holder, stored, gated, tries, faults>>

(***************************************************************************)
(* The closeout of a landed squash.                                        *)
(***************************************************************************)
RecoverLanded(m) ==
  /\ ~Running(m) /\ LandedSquash(m) /\ ~mission[m].closed /\ Integrable(m)
  /\ Goto(m, "deliver")
  /\ UNCHANGED <<base, holder, stored, gated, tries, faults>>

Deliver(m) ==
  /\ pc[m] = "deliver"
  /\ IF Integrable(m)
     THEN /\ mission' = [mission EXCEPT ![m].lane = "done"]
          /\ Goto(m, "measure") /\ UNCHANGED <<holder, gated, tries>>
     ELSE End(m, "idle") /\ UNCHANGED mission
  /\ UNCHANGED <<base, branch, effects, faults>>

(* Variant: cleanup comes right after the delivery. *)
MeasureLater(m) ==
  /\ pc[m] = "measure"
  /\ Goto(m, "clean")
  /\ UNCHANGED <<base, holder, stored, gated, tries, faults>>

Measure(m) ==
  /\ pc[m] = "measure"
  /\ effects' = [effects EXCEPT ![m] = @ \cup {"statistics"}]
  /\ Goto(m, "hook")
  /\ UNCHANGED <<base, holder, mission, branch, gated, tries, faults>>

RunHook(m) ==
  /\ pc[m] = "hook"
  /\ effects' = [effects EXCEPT ![m] = @ \cup {"hook"}]
  /\ Goto(m, "clean")
  /\ UNCHANGED <<base, holder, mission, branch, gated, tries, faults>>

CleanUp(m) ==
  /\ pc[m] = "clean"
  /\ branch' = [branch EXCEPT ![m].exists = FALSE]
  /\ Goto(m, "close")
  /\ UNCHANGED <<base, holder, mission, gated, effects, tries, faults>>

Close(m) ==
  /\ pc[m] = "close"
  /\ mission' = [mission EXCEPT ![m].closed = TRUE]
  /\ End(m, "idle")
  /\ UNCHANGED <<base, branch, effects, faults>>

(* A step reports a failure, or the process dies: its locks go with it. *)
Stop(m) ==
  /\ Running(m) /\ faults < MaxFaults
  /\ faults' = faults + 1
  /\ End(m, "idle")
  /\ UNCHANGED <<base, stored>>

(***************************************************************************)
(* What others do.                                                         *)
(***************************************************************************)
(* May the mission's approval and branch change while its run goes on? *)
Open(m) == Running(m) => "run" \in Disturbances

Revoke(m) ==
  /\ Open(m) /\ mission[m].lane = "integration" /\ branch[m].change < MaxChange
  /\ mission' = [mission EXCEPT ![m].lane = "review", ![m].approved = 0]
  /\ UNCHANGED <<base, holder, branch, gated, effects, pc, tries, faults>>

(* The implementer's rework; the review loop rebases it before the round. *)
Rework(m) ==
  /\ Open(m) /\ mission[m].lane = "review" /\ mission[m].approved = 0
  /\ branch[m].exists /\ branch[m].change < MaxChange
  /\ branch' = [branch EXCEPT ![m].change = @ + 1, ![m].on = Len(base)]
  /\ UNCHANGED <<base, holder, mission, gated, effects, pc, tries, faults>>

Approve(m) ==
  /\ Open(m) /\ mission[m].lane = "review"
  /\ mission' = [mission EXCEPT ![m].lane = "integration",
                                ![m].approved = branch[m].change]
  /\ UNCHANGED <<base, holder, branch, gated, effects, pc, tries, faults>>

OutsideCommits == Cardinality({i \in DOMAIN base : base[i].mission = Outside})

AdvanceBase ==
  /\ OutsideCommits < MaxOutside
  /\ holder # Outside => "lock" \in Disturbances
  /\ base' = Append(base, [mission |-> Outside, change |-> 0])
  /\ UNCHANGED <<holder, stored, gated, pc, tries, faults>>

Run(m) ==
  \/ Prepare(m) \/ GatesPass(m) \/ GatesFail(m) \/ BaseAdvanced(m) \/ Ready(m)
  \/ NotReady(m) \/ TakeBase(m) \/ Reconcile(m) \/ BaseIsTaken(m) \/ Resume(m)
  \/ Squash(m) \/ Sync(m) \/ Deliver(m) \/ Measure(m) \/ RunHook(m) \/ CleanUp(m)
  \/ Close(m)

Operator(m) ==
  \/ Start(m) \/ RecoverLanded(m) \/ Stop(m) \/ Revoke(m) \/ Rework(m) \/ Approve(m)

Next == AdvanceBase \/ \E m \in Missions : Run(m) \/ Operator(m)

(* A run goes on unless it dies; reviewers decide; the operator who sees a *)
(* run of a landed mission fail asks in the end for its closeout.          *)
Fairness ==
  \A m \in Missions :
    WF_vars(Run(m)) /\ WF_vars(Approve(m)) /\ SF_vars(RecoverLanded(m))

Spec == Init /\ [][Next]_vars /\ Fairness

(***************************************************************************)
(* Properties.                                                             *)
(***************************************************************************)
LandedNow(m) == Len(base') > Len(base) /\ base'[Len(base')].mission = m

(* What lands is what the gates of this very run passed: the same change,  *)
(* on the base exactly as it is when the squash is made, however many      *)
(* other missions landed while the gates ran ("never squash a comparison   *)
(* tree the gates did not see").                                           *)
LandsGatedTree ==
  [][\A m \in Missions :
       LandedNow(m) => gated[m] = [change |-> base'[Len(base')].change, on |-> Len(base)]]_vars

(* Documented, and refuted where the approval may be withdrawn under a run *)
(* ("Integration requires a recorded reviewer approval"; a mission that is *)
(* not in integration is refused "before any landing effect"): what lands  *)
(* is the approved change of a mission that can still be delivered.        *)
LandsApprovedChange ==
  [][\A m \in Missions :
       LandedNow(m) => Integrable(m) /\ base'[Len(base')].change = mission[m].approved]_vars

(* Crashes, retries and rework never land a mission twice. *)
OneSquash ==
  \A i, j \in DOMAIN base :
    base[i].mission = base[j].mission /\ base[i].mission \in Missions => i = j

(* No mission is recorded as delivered, and no mission branch is deleted,  *)
(* before the base holds a squash of the mission.                          *)
DeliveredIsLanded ==
  \A m \in Missions :
    mission[m].lane = "done" \/ ~branch[m].exists => LandedSquash(m)

(* The branch is only deleted after the delivery is durable, and the       *)
(* mission is only closed after every closeout effect, whatever run made   *)
(* which of them.                                                          *)
ClosedIsFinished ==
  \A m \in Missions :
    /\ ~branch[m].exists => mission[m].lane = "done"
    /\ mission[m].closed => effects[m] = {"statistics", "hook"} /\ ~branch[m].exists

(* The base is never left claimed by a run that is over or not landing. *)
HolderIsLanding ==
  \A m \in Missions :
    holder = m => pc[m] \in {"publish", "sync", "deliver", "measure", "hook", "clean", "close"}

(* A landed mission is closed in the end, whatever failed on the way. *)
LandedIsClosed == \A m \in Missions : LandedSquash(m) ~> mission[m].closed

(* Documented, and refuted: a retry that finds its squash on the base      *)
(* resumes the closeout ("skip it so the publish step resumes the landing  *)
(* closeout"); it does not give up because "the base kept advancing".      *)
LandedRunResumes ==
  \A m \in Missions : pc[m] = "gaveUp" => ~LandedSquash(m)

(* Documented, and refuted: "A concurrent landing never forces an operator *)
(* to restart the command."                                                *)
ContentionIsAbsorbed == \A m \in Missions : pc[m] # "contended"

(* Documented, and refuted: a branch is deleted because its payload is     *)
(* delivered ("The payload is already delivered, so the stored approved    *)
(* round is the authority for recovery").                                  *)
DeletedWorkIsDelivered ==
  \A m \in Missions :
    ~branch[m].exists => \E i \in DOMAIN base :
                           base[i] = [mission |-> m, change |-> branch[m].change]

============================================================================
