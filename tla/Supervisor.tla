----------------------------- MODULE Supervisor -----------------------------
(***************************************************************************)
(* Runs of px lead watch one mission of the board's attention queue.  A    *)
(* run reads the queue, presses the command the board advertises once per  *)
(* state, and when that does not help it claims the mission, has a model   *)
(* judge what is known about it and launches a fresh recovery agent.       *)
(* Forwarded commands, recovery agents and the operator change the mission *)
(* meanwhile; every await of the code is a point between two actions here. *)
(*                                                                         *)
(* A run reads, decides and awaits in "loop"; the step it has in flight    *)
(* for the mission is "step".                                              *)
(***************************************************************************)
EXTENDS Naturals, FiniteSets

CONSTANTS
  Sups,            \* the px lead processes
  Reasons,         \* failures the board shows before it looks for live work
  Blockers,        \* those recorded as blockers; the others are failed gates
  OperatorOnly,    \* the blockers no lifecycle command answers
  FirstLanes,      \* where the mission is when the watch begins
  Budget,          \* RECOVERY_BUDGET
  ActionAttempts,  \* ACTION_ATTEMPTS
  ReadAttempts,    \* BOARD_READ_ATTEMPTS
  MaxInvocations,  \* MAX_INVOCATIONS
  MaxVersion,      \* bound: changes by workers and the operator
  MaxFaults        \* bound: interrupts, and reads or launches that fail

ASSUME BlockerAssumption == OperatorOnly \subseteq Blockers /\ Blockers \subseteq Reasons
ASSUME FirstLaneAssumption == FirstLanes \subseteq {"active", "review", "fixing", "integration"}
ASSUME SupsAssumption == "none" \notin Sups /\ "none" \notin Reasons
ASSUME SupervisorBounds ==
  /\ {Budget, MaxInvocations, MaxVersion, MaxFaults} \subseteq Nat
  /\ {ActionAttempts, ReadAttempts} \subseteq Nat \ {0}

VARIABLES
  mission,  \* stored facts: lane, recorded cause, version
  command,  \* of each run: the px command it forwarded
  op,       \* the run whose command holds the workflow operation, or "none"
  claim,    \* the run that holds the recovery claim, or "none"
  loop,     \* of each run: where it is, failed board reads in a row
  run,      \* of each run: what it remembers of the mission
  judge,    \* of each run: what its judgment service remembers
  step,     \* of each run: the step in flight
  signal,   \* of each run: whether it was interrupted
  faults

vars == <<mission, command, op, claim, loop, run, judge, step, signal, faults>>

(* The review lane has three: undecided, findings to fix, and approved.    *)
Lanes == {"active", "review", "fixing", "approved", "integration", "done"}
Causes == Reasons \cup {"none"}
Versions == 0..(MaxVersion + 1)
BoardLane(l) == IF l \in {"fixing", "approved"} THEN "review" ELSE l
Implementing(f) == f.lane \in {"active", "fixing"}

Facts == [lane : Lanes, cause : Causes, version : Versions, op : Sups \cup {"none"}, working : BOOLEAN]
NoFacts == [lane |-> "none", cause |-> "none", version |-> 0, op |-> "none", working |-> FALSE]
Fingerprints == Reasons \cup {BoardLane(l) : l \in Lanes}
Keys == Versions \X Fingerprints

(* The last admission reads one authority after the other.                 *)
Admitting == {"admit", "operation", "board", "liveness"}
Claiming == Admitting \cup {"confirm", "judge", "consult", "recheck", "spawn", "recovering", "release"}
Steps == {"none", "dispatch", "press", "claim"} \cup Claiming

(* A process's command and its recovery agent are published as current     *)
(* work.                                                                   *)
At(s, where) == step[s].at = where
Working == \E s \in Sups : command[s] # "none" \/ At(s, "recovering")
Now == [lane |-> mission.lane, cause |-> mission.cause, version |-> mission.version,
        op |-> op, working |-> Working]

-----------------------------------------------------------------------------
(* What the board shows of the mission's facts f.                          *)

Kind(f) ==
  CASE f.op # "none" -> "none"
    [] f.op = "none" /\ f.cause \in Blockers
         /\ (f.cause \in OperatorOnly \/ ~Implementing(f) \/ f.working) -> "manual"
    [] f.op = "none" /\ f.cause \notin Blockers /\ f.lane = "integration" -> "merge"
    [] f.op = "none" /\ f.cause \notin Blockers /\ Implementing(f) /\ f.working -> "none"
    [] OTHER -> "press"

OnQueue(f) ==
  /\ f.lane # "done"
  /\ f.cause # "none" \/ ~f.working
  /\ Kind(f) # "none" \/ f.op # "none"

Fingerprint(f) == IF f.cause # "none" THEN f.cause ELSE BoardLane(f.lane)
Key(f) == <<f.version, Fingerprint(f)>>

(* What judgment reads: a mission that left the queue has no lane to       *)
(* continue in, and a held operation counts as work.                       *)
Evidence(f) == [f EXCEPT !.working = f.working \/ f.op # "none",
                         !.lane = IF OnQueue(f) THEN f.lane ELSE "done"]
MayContinue(e) == ~e.working /\ BoardLane(e.lane) \in {"active", "review"}

-----------------------------------------------------------------------------
NewRun == [outcome |-> "none", settled |-> "none", pressed |-> {},
           tries |-> [k \in Keys |-> 0], spent |-> [f \in Fingerprints |-> 0]]
NewJudge == [seen |-> {}, count |-> 0, started |-> FALSE, late |-> FALSE]
Idle == [at |-> "none", item |-> NoFacts, envelope |-> NoFacts]

Runs == [outcome : {"none", "open", "cleared", "human", "escalated"},
         settled : Fingerprints \cup {"none"}, pressed : SUBSET Keys,
         tries : [Keys -> 0..ActionAttempts], spent : [Fingerprints -> 0..Budget]]
Judges == [seen : SUBSET Facts, count : 0..MaxInvocations, started : BOOLEAN, late : BOOLEAN]

TypeOK ==
  /\ mission \in [lane : Lanes, cause : Causes, version : Versions]
  /\ command \in [Sups -> {"none", "forwarded", "running"}]
  /\ op \in Sups \cup {"none"} /\ claim \in Sups \cup {"none"}
  /\ loop \in [Sups -> [at : {"read", "clear", "stopped"}, failures : 0..ReadAttempts]]
  /\ run \in [Sups -> Runs] /\ judge \in [Sups -> Judges]
  /\ step \in [Sups -> [at : Steps, item : Facts \cup {NoFacts}, envelope : Facts \cup {NoFacts}]]
  /\ signal \in [Sups -> BOOLEAN] /\ faults \in 0..MaxFaults

Init ==
  /\ mission \in [lane : FirstLanes, cause : {"none"}, version : {0}]
  /\ command = [s \in Sups |-> "none"]
  /\ op = "none" /\ claim = "none"
  /\ loop = [s \in Sups |-> [at |-> "read", failures |-> 0]]
  /\ run = [s \in Sups |-> NewRun]
  /\ judge = [s \in Sups |-> NewJudge]
  /\ step = [s \in Sups |-> Idle]
  /\ signal = [s \in Sups |-> FALSE]
  /\ faults = 0

world == <<mission, command, op>>

-----------------------------------------------------------------------------
(* Everybody else: workers change the mission and end; the operator runs   *)
(* commands, decides and lands; px lead is interrupted; time passes.       *)

Moves ==
  [active |-> {"active", "review"}, fixing |-> {"fixing", "active", "review"},
   review |-> {"review", "fixing", "active", "approved", "integration"},
   approved |-> {"approved", "integration"}, integration |-> {"integration", "active"}, done |-> {}]

Change(lanes) ==
  /\ mission.version < MaxVersion
  /\ \E l \in lanes, c \in Causes :
       mission' = [lane |-> l, cause |-> c, version |-> mission.version + 1]

(* The workflow admits one command at a time, and none for a closed        *)
(* mission; a refused command ends.                                        *)
Admitted(s) ==
  /\ command[s] = "forwarded"
  /\ IF op = "none" /\ mission.lane # "done"
     THEN command' = [command EXCEPT ![s] = "running"] /\ op' = s
     ELSE command' = [command EXCEPT ![s] = "none"] /\ UNCHANGED op
  /\ UNCHANGED <<mission, claim, loop, run, judge, step, signal, faults>>

CommandWorks(s) ==
  /\ command[s] = "running"
  /\ Change(Moves[mission.lane])
  /\ UNCHANGED <<command, op, claim, loop, run, judge, step, signal, faults>>

CommandEnds(s) ==
  /\ command[s] = "running"
  /\ command' = [command EXCEPT ![s] = "none"]
  /\ op' = "none"
  /\ UNCHANGED <<mission, claim, loop, run, judge, step, signal, faults>>

AgentWorks(s) ==
  /\ At(s, "recovering")
  /\ Change(Moves[mission.lane])
  /\ UNCHANGED <<command, op, claim, loop, run, judge, step, signal, faults>>

OperatorDecides ==
  /\ op = "none" /\ mission.lane # "done"
  /\ Change(Moves[mission.lane] \cup (IF mission.lane = "integration" THEN {"done"} ELSE {}))
  /\ UNCHANGED <<command, op, claim, loop, run, judge, step, signal, faults>>

Interrupt(s) ==
  /\ ~signal[s] /\ faults < MaxFaults
  /\ faults' = faults + 1
  /\ signal' = [signal EXCEPT ![s] = TRUE]
  /\ UNCHANGED <<world, claim, loop, run, judge, step>>

Environment ==
  \/ \E s \in Sups : Admitted(s) \/ CommandWorks(s) \/ CommandEnds(s)
                      \/ AgentWorks(s) \/ Interrupt(s)
  \/ OperatorDecides

-----------------------------------------------------------------------------
(* The loop of a run.  A pass over a queue that has the mission on it      *)
(* starts a step without awaiting anything; one over a queue without it    *)
(* first asks whether it is being worked on.                               *)

Stop(s) ==
  /\ loop[s].at # "stopped" /\ signal[s]
  /\ loop' = [loop EXCEPT ![s].at = "stopped"]
  /\ UNCHANGED <<world, claim, run, judge, step, signal, faults>>

(* Mutant: another failure does not reopen what was escalated.             *)
ReopenedIfSame(r, f) ==
  \/ r.outcome \in {"none", "cleared"}
  \/ r.outcome = "human" /\ (f.op # "none" \/ f.working \/ Kind(f) # "merge")

(* What was settled is open again when it came back after clearing, when   *)
(* there is something to press or to wait for again, or when it is another *)
(* failure.                                                                *)
Reopened(r, f) ==
  \/ r.outcome \in {"none", "cleared"}
  \/ r.outcome = "human" /\ (f.op # "none" \/ f.working \/ Kind(f) # "merge")
  \/ r.outcome = "escalated" /\ r.settled # Fingerprint(f)

(* Mutant: what comes back starts with fresh attempts.                     *)
ReconsideredAfresh(r, f) ==
  IF Reopened(r, f)
  THEN [r EXCEPT !.outcome = "open", !.settled = "none", !.spent = NewRun.spent] ELSE r

Reconsidered(r, f) ==
  IF Reopened(r, f) THEN [r EXCEPT !.outcome = "open", !.settled = "none"] ELSE r

(* Where a step for facts f begins, and what it settles at once.           *)
NeedsPress(r, f) == Kind(f) = "press" /\ Key(f) \notin r.pressed
OverBudget(r, f) == r.spent[Fingerprint(f)] >= Budget

Settle(r, f, outcome) ==
  [r EXCEPT !.outcome = outcome, !.settled = IF outcome = "escalated" THEN Fingerprint(f) ELSE "none"]

Supervise(s, r, f) ==
  IF r.outcome # "open" \/ step[s].at # "none" \/ Kind(f) = "none"
  THEN run' = [run EXCEPT ![s] = r] /\ UNCHANGED step
  ELSE \/ Kind(f) = "merge"
          /\ run' = [run EXCEPT ![s] = Settle(r, f, "human")] /\ UNCHANGED step
       \/ NeedsPress(r, f)
          /\ run' = [run EXCEPT ![s] = r]
          /\ step' = [step EXCEPT ![s] = [Idle EXCEPT !.at = "dispatch", !.item = f]]
       \/ Kind(f) # "merge" /\ ~NeedsPress(r, f) /\ OverBudget(r, f)
          /\ run' = [run EXCEPT ![s] = Settle(r, f, "escalated")] /\ UNCHANGED step
       \/ Kind(f) # "merge" /\ ~NeedsPress(r, f) /\ ~OverBudget(r, f)
          /\ run' = [run EXCEPT ![s] = r]
          /\ step' = [step EXCEPT ![s] = [Idle EXCEPT !.at = "claim", !.item = f]]

Pass(s) ==
  /\ loop[s].at = "read" /\ ~signal[s]
  /\ IF OnQueue(Now)
     THEN /\ Supervise(s, Reconsidered(run[s], Now), Now)
          /\ loop' = [loop EXCEPT ![s].failures = 0]
     ELSE /\ loop' = [loop EXCEPT ![s].failures = 0,
                ![s].at = IF run[s].outcome = "open" /\ step[s].at = "none" THEN "clear" ELSE @]
          /\ UNCHANGED <<run, step>>
  /\ UNCHANGED <<world, claim, judge, signal, faults>>

ReadFails(s) ==
  /\ loop[s].at = "read" /\ ~signal[s] /\ faults < MaxFaults
  /\ faults' = faults + 1
  /\ loop' = [loop EXCEPT ![s].failures = @ + 1,
                          ![s].at = IF loop[s].failures + 1 >= ReadAttempts THEN "stopped" ELSE "read"]
  /\ UNCHANGED <<world, claim, run, judge, step, signal>>

(* Off the queue and idle, the mission is cleared; work that cannot be     *)
(* read is not clearance.                                                  *)
Clear(s) ==
  /\ loop[s].at = "clear" /\ ~signal[s]
  /\ loop' = [loop EXCEPT ![s].at = "read"]
  /\ \/ run' = [run EXCEPT ![s].outcome = IF Working THEN @ ELSE "cleared"] /\ UNCHANGED faults
     \/ faults < MaxFaults /\ faults' = faults + 1 /\ UNCHANGED run
  /\ UNCHANGED <<world, claim, judge, step, signal>>

-----------------------------------------------------------------------------
(* The step in flight: press what the board advertises ...                 *)

Goto(s, where) == step' = [step EXCEPT ![s].at = where]
Done(s) == step' = [step EXCEPT ![s] = Idle]

Dispatch(s) ==
  /\ At(s, "dispatch")
  /\ IF signal[s] \/ Working THEN Done(s) ELSE Goto(s, "press")
  /\ UNCHANGED <<world, claim, loop, run, judge, signal, faults>>

Pressed(s) == [run EXCEPT ![s].pressed = @ \cup {Key(step[s].item)}]

(* The board advertised a review of a mission that is approved by now.     *)
Parked(s) == step[s].item.lane \in {"review", "approved"} /\ mission.lane = "approved"

(* An approval that lost its lane move gets it, and nothing else is run    *)
(* unless the move is refused.                                             *)
FinishApproval(s) ==
  /\ At(s, "press") /\ Parked(s)
  /\ mission' = [mission EXCEPT !.lane = "integration", !.version = @ + 1]
  /\ run' = Pressed(s) /\ Done(s)
  /\ UNCHANGED <<command, op, claim, loop, judge, signal, faults>>

Forward(s) ==
  /\ At(s, "press") /\ command[s] = "none"
  /\ IF Parked(s) THEN faults < MaxFaults /\ faults' = faults + 1 ELSE UNCHANGED faults
  /\ command' = [command EXCEPT ![s] = "forwarded"]
  /\ run' = Pressed(s) /\ Done(s)
  /\ UNCHANGED <<mission, op, claim, loop, judge, signal>>

PressFails(s) ==
  /\ At(s, "press") /\ faults < MaxFaults
  /\ faults' = faults + 1
  /\ LET k == Key(step[s].item) tried == run[s].tries[k] + 1 IN
       run' = [run EXCEPT ![s].tries[k] = tried,
                          ![s].pressed = IF tried < ActionAttempts THEN @ ELSE @ \cup {k}]
  /\ Done(s)
  /\ UNCHANGED <<world, claim, loop, judge, signal>>

(* Mutant: the refused claim is not noticed.                               *)
ClaimAnyway(s) ==
  /\ At(s, "claim")
  /\ claim' = s /\ Goto(s, "confirm")
  /\ UNCHANGED <<world, loop, run, judge, signal, faults>>

(* ... or claim the mission, have it judged and launch a recovery agent.   *)

Claim(s) ==
  /\ At(s, "claim")
  /\ IF claim = "none" THEN claim' = s /\ Goto(s, "confirm") ELSE Done(s) /\ UNCHANGED claim
  /\ UNCHANGED <<world, loop, run, judge, signal, faults>>

Confirm(s) ==
  /\ At(s, "confirm")
  /\ Goto(s, IF signal[s] \/ Working THEN "release" ELSE "judge")
  /\ UNCHANGED <<world, claim, loop, run, judge, signal, faults>>

Escalate(s) == run' = [run EXCEPT ![s] = Settle(@, step[s].item, "escalated")] /\ Goto(s, "release")

(* Mutant: one consultation too many.                                      *)
ExhaustedLate(s) == judge[s].count > MaxInvocations \/ judge[s].late

Exhausted(s) == judge[s].count >= MaxInvocations \/ judge[s].late

(* The model is asked once about the same evidence; asked again, the       *)
(* answer is to wait.                                                      *)
Judge(s) ==
  /\ At(s, "judge")
  /\ LET e == Evidence(Now) IN
       \/ Exhausted(s) /\ Escalate(s) /\ UNCHANGED judge
       \/ ~Exhausted(s) /\ e \in judge[s].seen /\ Goto(s, "release") /\ UNCHANGED <<run, judge>>
       \/ /\ ~Exhausted(s) /\ e \notin judge[s].seen
          /\ judge' = [judge EXCEPT ![s].seen = @ \cup {e}, ![s].count = @ + 1, ![s].started = TRUE]
          /\ step' = [step EXCEPT ![s].at = "consult", ![s].envelope = e]
          /\ UNCHANGED run
  /\ UNCHANGED <<world, claim, loop, signal, faults>>

(* An authority that cannot be read, or a decision that cannot be written  *)
(* down, is escalated without a consultation.                              *)
JudgeFails(s) ==
  /\ At(s, "judge") /\ faults < MaxFaults
  /\ faults' = faults + 1
  /\ judge' = [judge EXCEPT ![s].started = TRUE]
  /\ Escalate(s)
  /\ UNCHANGED <<world, claim, loop, signal>>

(* A mission has two minutes for judgment, from its first one on.          *)
JudgeLate(s) ==
  /\ At(s, "judge") /\ judge[s].started
  /\ judge' = [judge EXCEPT ![s].late = TRUE]
  /\ Escalate(s)
  /\ UNCHANGED <<world, claim, loop, signal, faults>>

(* A proposal counts only for the evidence it was made on.  Escalation is  *)
(* what the model chose, or what a timeout or an error amounts to.         *)
Consult(s) ==
  /\ At(s, "consult")
  /\ LET same == Evidence(Now) = step[s].envelope IN
       \/ Escalate(s)
       \/ same /\ Goto(s, "release") /\ UNCHANGED run
       \/ same /\ MayContinue(step[s].envelope) /\ Goto(s, "recheck") /\ UNCHANGED run
  /\ UNCHANGED <<world, claim, loop, judge, signal, faults>>

(* An attempt is spent before the launch is prepared.                      *)
Recheck(s) ==
  /\ At(s, "recheck")
  /\ IF Working THEN Goto(s, "release") /\ UNCHANGED run
     ELSE /\ run' = [run EXCEPT ![s].spent[Fingerprint(step[s].item)] = @ + 1]
          /\ Goto(s, "admit")
  /\ UNCHANGED <<world, claim, loop, judge, signal, faults>>

(* At the launch the proposal is admitted once more, unless it is too old: *)
(* the mission, its operation, the board and at last whether it is worked  *)
(* on are read one after the other.                                        *)
ReadOn(s, where, next, holds) ==
  /\ At(s, where)
  /\ Goto(s, "release") \/ (holds /\ Goto(s, next))
  /\ UNCHANGED <<world, claim, loop, run, judge, signal, faults>>

AdmitMission(s) ==
  ReadOn(s, "admit", "operation",
         mission.lane = step[s].envelope.lane /\ mission.version = step[s].envelope.version)

AdmitOperation(s) == ReadOn(s, "operation", "board", op = "none")

AdmitBoard(s) ==
  ReadOn(s, "board", "liveness",
         Evidence(Now) = [step[s].envelope EXCEPT !.version = mission.version])

(* Mutant: nobody looks again whether the mission is worked on.            *)
AdmitUnlooked(s) == ReadOn(s, "liveness", "spawn", TRUE)

AdmitLiveness(s) == ReadOn(s, "liveness", "spawn", ~Working)

Admit(s) == AdmitMission(s) \/ AdmitOperation(s) \/ AdmitBoard(s) \/ AdmitLiveness(s)

(* The agent is published as soon as it was spawned.                       *)
Spawn(s) ==
  /\ At(s, "spawn") /\ Goto(s, "recovering")
  /\ UNCHANGED <<world, claim, loop, run, judge, signal, faults>>

AgentExits(s) ==
  /\ At(s, "recovering") /\ Goto(s, "release")
  /\ UNCHANGED <<world, claim, loop, run, judge, signal, faults>>

(* Mutant: the claim is not given back after a failure.                    *)
StepFailsClaimed(s) ==
  /\ step[s].at \in {"dispatch", "claim", "confirm", "recheck", "spawn"} /\ faults < MaxFaults
  /\ faults' = faults + 1
  /\ Done(s)
  /\ UNCHANGED <<world, claim, loop, run, judge, signal>>

(* An authority that cannot be read, or a launch that cannot be prepared:  *)
(* before the claim the step fails, under it the claim is given back.      *)
StepFails(s) ==
  /\ step[s].at \in {"dispatch", "claim", "confirm", "recheck", "spawn"} /\ faults < MaxFaults
  /\ faults' = faults + 1
  /\ IF step[s].at \in Claiming THEN Goto(s, "release") ELSE Done(s)
  /\ UNCHANGED <<world, claim, loop, run, judge, signal>>

Release(s) ==
  /\ At(s, "release")
  /\ claim' = "none" /\ Done(s)
  /\ UNCHANGED <<world, loop, run, judge, signal, faults>>

StepMoves(s) ==
  \/ Dispatch(s) \/ FinishApproval(s) \/ Forward(s) \/ PressFails(s)
  \/ Claim(s) \/ Confirm(s) \/ Judge(s) \/ JudgeFails(s) \/ JudgeLate(s) \/ Consult(s) \/ Recheck(s) \/ Admit(s)
  \/ Spawn(s) \/ AgentExits(s) \/ StepFails(s) \/ Release(s)

LoopMoves(s) == Stop(s) \/ Pass(s) \/ ReadFails(s) \/ Clear(s)

Next == Environment \/ \E s \in Sups : LoopMoves(s) \/ StepMoves(s)

(* Every px lead keeps running, agents and commands end, time goes on.     *)
Fairness ==
  /\ \A s \in Sups : WF_vars(LoopMoves(s)) /\ WF_vars(StepMoves(s))
                     /\ SF_vars(JudgeLate(s)) /\ WF_vars(AgentExits(s)) /\ WF_vars(Admitted(s)) /\ WF_vars(CommandEnds(s))

Spec == Init /\ [][Next]_vars
FairSpec == Spec /\ Fairness

-----------------------------------------------------------------------------
AgentAlive(s) == At(s, "recovering")

(* However many px lead run, at most one recovery agent is at work on the  *)
(* mission.                                                                *)
OneRecoveryAgent == \A s, t \in Sups : AgentAlive(s) /\ AgentAlive(t) => s = t

(* The recovery claim is held by the step that took it and by no other:    *)
(* no early return, no refusal and no failure leaves it behind.            *)
ClaimHasStep == \A s \in Sups : claim = s <=> step[s].at \in Claiming

(* An agent is launched for a mission that nobody works on when the launch *)
(* is admitted, by whatever process, and on evidence that was judged, once *)
(* in this run, and allowed a continuation.                                *)
LaunchIsJudged ==
  [][\A s \in Sups : step[s].at # "spawn" /\ step'[s].at = "spawn" =>
            /\ op = "none" /\ ~Working
            /\ step[s].envelope \in judge[s].seen /\ MayContinue(step[s].envelope)]_vars

(* A launch is within the attempts of its failure, and neither clearing    *)
(* nor coming back gives an attempt back.                                  *)
BudgetIsKept ==
  [][\A s \in Sups :
       /\ \A f \in Fingerprints : run'[s].spent[f] >= run[s].spent[f]
       /\ step[s].at # "spawn" /\ step'[s].at = "spawn" =>
            run[s].spent[Fingerprint(step[s].item)] \in 1..Budget]_vars

(* A mission that asks for attention is, as long as px lead watches, sooner *)
(* or later off the queue or settled for what it now asks: with the human   *)
(* because it is ready to land, or escalated for this very failure.         *)
Attended(s) ==
  \/ run[s].outcome = "human" /\ Kind(Now) = "merge"
  \/ run[s].outcome = "escalated" /\ run[s].settled = Fingerprint(Now)
  \/ signal[s] \/ loop[s].at = "stopped"

StuckIsSettled == \A s \in Sups : OnQueue(Now) ~> (~OnQueue(Now) \/ Attended(s))

(* A different failure gets attempts of its own instead of an exhausted    *)
(* count: what is escalated for an exhausted count was tried.              *)
NewFailureIsTried ==
  [][\A s \in Sups : step[s].at = "judge" /\ run'[s].outcome = "escalated" /\ judge[s].count >= MaxInvocations
       => run[s].spent[Fingerprint(step[s].item)] > 0]_vars

(* After an interrupt no agent is launched.                                *)
NoLateLaunch ==
  [][\A s \in Sups : signal[s] /\ ~AgentAlive(s) => ~AgentAlive(s)']_vars
=============================================================================
