# TLA+ verification of Parallix

Parallix (`src/`) drives missions, units of work in a repository, through a
board: coding agents draft, execute, review and land them, and clients (CLI, web
page, terminal UI) start, watch and stop that work.  Several processes act on the
same mission at once: short-lived clients, a detached supervisor and executor per
command, agent processes, recovery workers, a fleet-level supervisor (`px lead`),
integrate runs and verification gates.  They share SQLite databases, a history of
run records, git branches and some lock directories.  This directory models who
may do what and when, checks it with TLC and proves the main safety properties
with TLAPS.

All source paths below are relative to `src/src/`, where not said otherwise.

## 1. Inventory

| Component | State | Operations | Interacts with | Modelled in |
|---|---|---|---|---|
| Workflow operations (`application/workflow-operation-service.ts`, `domain/workflow-operation.ts`, `adapters/sqlite/workflow-operation-store.ts`) | one row per operation: phase, generation, owner, launcher, whether a provider started, the version of its activation | admit, reserveLaunch, run (claim, final transaction), providerStarted, startupFailed, recover, stop | every client; the mission store, whose writes it guards | `WorkflowOwnership`, `MissionLease` |
| Workflow processes (`composition/workflow-operations.ts`, `composition/workflow-recovery.ts`, `adapters/process/workflow-process.ts`) | processes, identified by pid and start time | launch, host, claim, exit, die, probe, terminate | the operation table | `WorkflowOwnership` |
| Agent launch and run capture (`adapters/agents/agent-launch-process.ts`, `run-session.ts`, `application/run-history.ts`) | a run record per launch | open, authorize, spawn, record the start, close | executor, recovery, stop | `WorkflowOwnership` |
| Recovery claim (`adapters/filesystem/recovery-claim.ts`) | a claim directory and a lock directory per mission | publish, take over, put back, release | recovery supervisor, integration | `RecoveryClaim` |
| Mission lifecycle (`domain/mission.ts`, `domain/mission-workflow.ts`, `application/mission-lifecycle-service.ts`) | lane, version, lane history | decide a transition, record its lane event, replay | everything that moves a mission | `MissionLifecycle` |
| Mission store (`adapters/sqlite/mission-store.ts`, `database-adapter.ts`) | mission rows with versions, lane events | load, save with a version check, nested transactions | mission lifecycle, workflow guard | `MissionLifecycle` (partly) |
| Review (`domain/review.ts`, `domain/approval-coverage.ts`, `adapters/review/`) | rounds, decisions, answers, the revisions they cover, stops | submit, decide, answer, withdraw, repair, retain, supersede | lifecycle, integration | `MissionLifecycle` (partly) |
| Integration (`application/integrate-workflow.ts`, `application/integrate/`) | the base branch, its lock, mission branches, closeout effects | rebase, gate, land, close out, recover a landing | review, git, recovery claim | `Landing` (partly) |
| Recovery supervisor (`application/recovery-supervisor.ts`, `recovery-contract.ts`, `operator-judgment.ts`) | per-mission outcome, attempts, presses; judgments made | read the board, press, claim, judge, launch, settle | board, recovery claim, agents | `Supervisor` |
| Gate admission (`adapters/process/gate-admission.ts`, `adapters/config/phase-gate-resources.ts`, `gate-command-runner.ts`), custom agent admission (`adapters/sqlite/custom-agent-lease-repository.ts`) | lease rows, process groups bound to them | wait, acquire, spawn behind a pipe, bind, settle, kill, release, take back | integration and every other command that runs gates | `GateAdmission` |
| Review preparation and review loop (`application/review-preparation-*.ts`, `application/review-loop/`) | round counter | gates, rounds of review and repair | review, agents | what they write: `MissionLifecycle` |
| Rebound kernel (`application/rebound-kernel.ts`, `domain/rebound-policy.ts`) | attempts, failure fingerprints of one call | classify, repair, retry, escalate | every command | its effect on a mission: `MissionLifecycle` |
| Board and statistics | read models | the attention queue | recovery supervisor | the queue: `Supervisor` |
| Execution activity, agent selection and blocklist, checkpoints, rebase, GitHub publication, creation and authoring, migrations, mission terminal, backlog files, Forgejo, interfaces | | | | section 7 |

### What is hard, and what makes each component correct

* **Workflow operations and processes.**  One row is written by clients,
  supervisors, executors, recovery workers and stoppers.  Liveness is probed
  outside transactions and may be unknown; a process can die between any two
  steps while the agents it started live on; a stop kills processes and can only
  be confirmed later.  Correct means: one open operation per mission; one process
  that may write; nothing of a settled operation still runs; a settled operation
  stays settled; a failed start undoes its own activation only; accepted intent,
  lost owners and pending stops do not stay for ever.
* **Recovery claim.**  No system call tests and replaces a directory at once, so
  a claim is stolen by moving it aside and looking at what was moved.  Correct
  means: one living holder, whose record is on disk; somebody gets the claim of a
  dead owner.
* **Mission lifecycle, store and review.**  A mission is read, decided upon and
  saved in three steps by processes that wait for agents between them; some
  writes name no version; an approval is recorded in one write and the lane
  follows in another; a red gate keeps an approval in suspense over a repair that
  changes the branch.  Correct means: nothing is in integration without an
  approval that stands; decisions survive every write; an approval covers what was
  judged and nothing else.
* **Integration.**  Gates run for minutes while others land; a run can die
  between the squash and each of the steps that close the mission, and is
  repeated.  Correct means: what lands is what was gated and approved; it lands
  once; it is recorded, cleaned up and closed, and not before it landed.
* **Recovery supervisor.**  Each decision rests on reads that await; commands,
  agents and the operator move the mission meanwhile; several `px lead` may watch
  it.  Correct means: one recovery agent at a time, launched on what was judged
  and within its budget; the claim comes back; every mission is settled.
* **Gate admission.**  A gate's process tree outlives its owner; leases of dead
  owners are taken back by others; repositories disagree about capacities; slots
  are given back when the last gate of a resource has settled.  Correct means:
  nothing is at work without its leases, no capacity is exceeded, nobody waits for
  ever.

`PROJECT.json` lists every hazard with its line and the properties that would
catch it going wrong.

Hazards that are real and that no property covers: a pid is recorded in a claim
without the start time of its process, so that a process that got the pid of a
dead owner keeps the claim (`adapters/filesystem/recovery-claim.ts:63`); the host
of a recovery worker gives up after three failed starts
(`composition/workflow-recovery.ts:23`); a nested transaction that fails inside an
outer one only counts down its depth (`adapters/sqlite/database-adapter.ts:391`);
a landed squash is looked for among the last 200 commits of the base
(`adapters/cli/commands/landed-squash.ts:82`).

## 2. How the project is organised

Each component is a module of its own with its properties; an `MC` module gives
it an instance for TLC; a proof module states and proves its theorems.  The order
in which they were written is the order of what they protect: first the ownership
of a mission by one workflow with the abstract specification it implements, then
the claim that serialises recovery and landing, then what a mission's record may
say, then what reaches the base branch, then the fleet supervisor, then the
gates.

Components meet where one takes the other's promise for granted:

* `Landing` and `Supervisor` take the claims they use (the base lock, the recovery
  claim) for exclusive.  `ExclusiveClaim` says what that means; it is proved that
  `RecoveryClaim` implements it and that the two ask no more of it.  An attempt that
  fails although the claim is free, as two callers can make each other fail, is
  among the failures both models have anyway (`Stop`, `StepFails`);
* `Landing` keeps of the review only whether an approval stands and for which
  change; how it comes to stand, and what a red gate does to it, is
  `MissionLifecycle`;
* `Supervisor` lets a workflow admit one command at a time; that is an
  `ExclusiveClaim` on the open operation, which `WorkflowOwnership` implements;
* `MissionLifecycle` leaves to `WorkflowOwnership` which process may write at all;
  its own writers are therefore bound only by the version check.

What could still be added: a model of the rebound kernel's loop with the number of
attempts as its variant; the current-work projection (`execution-activity.ts`) in
place of the exact view `Supervisor` takes; two missions in `Supervisor` that
compete for the passes of one `px lead`.

## 3. The modules

| Module | What it is |
|---|---|
| `WorkflowOwnership` | One mission's operations, its processes, providers and run records |
| `MissionLease` | What that service promises, with no process or generation in sight |
| `RecoveryClaim` | The claim and the lock directory, one action per file system call |
| `ExclusiveClaim` | What those who use a claim rely on: it is taken when free, and left |
| `MissionLifecycle` | One mission as stored: lane, review rounds, lane history; its writers and its branch |
| `Landing` | Several missions that land on one base |
| `Supervisor` | Several `px lead` that watch one mission |
| `GateAdmission` | Phase runs, their gates, process trees and leases |
| `MC...` | Instances and symmetries for TLC |
| `WorkflowOwnershipSafety`, `...Quiet`, `...Lease` | Proofs: types and the table of operations; settled means quiet; the lease is implemented |
| `RecoveryClaimProofs`, `MissionLifecycleProofs`, `LandingProofs`, `SupervisorProofs`, `GateAdmissionProofs` | Proofs of the other components |

A definition marked as a variant or mutant (`MovedBlindly`, `SaveUnchecked`, ...) is
the operation beside it with a plausible mistake; nothing uses it, except that
`PROJECT.json` says which property notices it in place of the real one.

### WorkflowOwnership

One mission is modelled: operations of different missions share no record.

| Variable | In the code |
|---|---|
| `op` | table `workflow_operations`: `phase`, `generation`, `owner`, `launcher`, `providerStarted`, `activationVersion`, `originalLane`, `command` |
| `mission` | lane and version of the row in `missions`; `fixing` is the review lane whose last round is being repaired, `gone` a deleted mission |
| `launching` | admitted operations whose client has not spawned the supervisor yet |
| `proc` | per process identity: where its code stands, its operation, the generation it carries, the executor it waits for |
| `provider` | the living agent of each operation, in the executor's process group or detached from it |
| `runs` | the run records that are not settled: `open` (no process yet), `live`, `lost` (closed or orphaned before a process was recorded) |
| `observed` | the verdict on an owner that a recovery pass has formed and not committed |
| `stop` | per caller of `px stop`: its progress and the snapshot it works with |
| `editor` | per editing client: the version of the form it was cleared to save |
| `faults` | bound on crashes, failed spawns and failed transactions |
| `agentRan` | history: operations for which an agent was ever spawned |

Each transaction is one action, and everything between two transactions is an
action of its own:

* clients: `Admit`, `LaunchAdmitted`, and for commands that are no workflow
  `EditCheck`, `EditApply`;
* supervisor (`superviseWorkflow`): `Reserve`, `Host`, `ExecutorExited`,
  `StartupFailed`, `SupervisorObserve`, `SupervisorCommit`; any error before or
  while hosting is `SupervisorError`;
* executor (`run`, `launchPrepared`, `openRunSession`): `Claim`, `MissionWrite`,
  `OpenRun`, `AuthorizeLaunch`, `SpawnProvider` or `SpawnFails`,
  `ProviderStarted` or `LaunchRefused`, `ProviderResult`, `Finish`;
* recovery (`recover`): `RecoverObserve`, `RecoverCommit`, `RecoverLaunch`;
* stop: `StopRequest`, `StopTerminate`, `StopEffects`, `StopCommit`;
* the environment: `Crash`, `ProviderExits`.

A pid may be used again: a process identity is taken by a new process when
nothing durable or awaited names it (`Unreferenced`), because start times make a
reused pid a different identity.

Left out or left open: the observation before admission (the transaction checks
everything again); request keys that return an earlier admission to its client;
the review approval that a merge of an active mission takes and the request that
a review of a mission in integration takes (both are nondeterministic); a mission
write that loses a version check (the executor reads and retries); the turn
between spawning an agent and recording its pid (the code has no await there).
That a stop could not confirm the end of a recorded agent is modelled
(`StopEffects`, at the cost of a fault): the stop stays pending and is repeated.  A
termination that reaches only a part of a process tree and is confirmed all the same
is not.

### MissionLease

The promise to clients: operations are granted one at a time; agents begin only
while the operation is held or draining; an operation ends only when its agent is
gone.  `WorkflowOwnership` implements it by `Stage` and the presence of a provider
(`LeaseSpec`, a property of the run `safety`).

### RecoveryClaim

`disk` is what each of the two directories shows: nothing, a directory without a
record, or a token.  A directory appears with its record inside because a staging
directory is renamed.  A caller of `claimRecoveryLock` is a process and its token;
`pc` is its next file system call, `target` the directory it is about, `seen` the
tokens it read and `aside` what it moved out of the way.  `holds` is the set of
callers that were given the claim and count on it.  Processes may be dead when the
model starts, having left a claim, a lock, or both; a caller may die between any
two calls.

`ExclusiveClaim` is the same thing for its users: a set of holders, empty or with
one member, that a run enters in one step when it is empty.  `ClaimSpec` says that
the protocol implements it with `holds` for the holders: all the calls between are
invisible, and what is visible is that a claim never goes from a living holder to
another.

`crowded` is no state of the protocol but a history of it: it becomes true when more
than two living callers meet what a dead one has left behind, which is an abandoned
lock at the start, or a directory with the record of a caller that dies.  From there
on two of them may hold the claim (section 5), and `ClaimSpec` promises nothing
more; nothing keeps the protocol from getting there.

### MissionLifecycle

| Variable | In the code |
|---|---|
| `mission` | the aggregate in `missions`: lane, whether a preparation is under way, the rounds of its review, whether the loop stopped for the operator |
| `branch`, `gated` | which change (patch identity) each revision of the mission branch would land, and the revisions whose integration gates passed |
| `copy`, `fresh` | per writer: the aggregate it read, and whether the version it would name is still the stored one |
| `history`, `keys` | the newest lane event, and the events remembered by idempotency key |

A round records its subject, the decision and the revision it judged, who withdrew
it, the branch move recorded against it, the implementer's answer, whether it is
blocked, and the state of a repair under it with the repaired candidate.

`Store` is `saveAggregateWithTransition` with the lane event of
`MissionLifecycleService.transition`: a lane event under a key already used for the
same transition is a replay, for another one a refusal.  `Save` adds the version
check.  Every transition of the decision table (`mission-workflow.ts`) is an action
as its callers make it: `Refine`, `Activate`, `AbortActivation`,
`BeginPreparation`, `SubmitForReview`, `OpenRound`, `RequestChanges`,
`SettleChanges`, `Resolve`, `Approve`, `SettleApproval`,
`GateRebound`, `RepairRebound`, `RepairResubmit`, `AssessRepair`,
`RecordBranchMove`, `RevokeReview`, `LoopWrite`, `Resume`, `InvalidateBlocker`,
`ResetReview`, `RecordImplementer`, `Integrate`.  Two of them do not save what they
read: `SubmitForReview` prepares a review from one read and has it decided upon by
a second, and `LoopWrite` applies the loop's bookkeeping to whatever round is
stored.  Integrate's repair of an approved mission that it finds active
(`application/integrate/recovery.ts:128-160`) is no action: by `NoStrandedApproval`
no such mission is reachable, unless its gate repair is pending, which that code
leaves alone.  `SettleApproval` also takes an approval whose repair was assessed as
retained back to integration; `AssessRepair` may block a repair whether or not the
change differs, as the comparison itself can fail.

Left out or left open: single findings and their resolutions; an approval that
integrate finds at a review provider, which names no revision; which revision a
reviewer judges (any up to the tip); verdict documents, prompts, briefs;
cancellation (`WorkflowOwnership` has it); several repairs whose
evidence is compared criterion by criterion (`AssessRepair` may block at any time).

### Landing

`base` is the sequence of commits on the base branch, each with the mission it
squashes and the version of its change; `branch` is, per mission, the version of
its change, how much of the base it contains and whether it exists; `holder` is
the run inside `withBaseMutation`; `gated` what the current run's gates saw;
`effects` the closeout effects that happened; `pc` and `tries` where the process
of each mission's run is.  A run is `Start`, `Prepare` (rebase, skipped for a landed
squash), `GatesPass` or `GatesFail`, `BaseAdvanced` (the comparison before landing),
`Ready` or `NotReady`, `TakeBase`, `Reconcile` or `BaseIsTaken` (the comparison
under the lock), `Squash` or `Resume`, `Sync`, and the closeout `Deliver`,
`Measure`, `RunHook`, `CleanUp`, `Close`.  `RecoverLanded` is `--recover-landed`,
which goes to the closeout directly and takes no base lock.  `Stop` is a reported
failure or a dead process at any step.  `AdvanceBase` is somebody else's commit,
`Revoke`, `Rework` and `Approve` are what reviewers and implementers do.

`Disturbances` says what others may do at a bad time: `"run"`, withdraw and rework
an approved mission while its run is under way; `"lock"`, commit to the base while
a run has it for itself.  The code excludes neither; it takes no lock against the
first, and the second is up to people with a checkout.

Left out: landing through a pull request, dry runs, preflight checks, conflicts of
a rebase, and the repair agent of a failed gate.  `GatesFail` ends the run and takes
the approval away, as when the repair changed what was approved; a repair over which
the approval is kept lets the same run go on, which is `GatesPass`.  So are runs
without configured gates or with `--no-integration-gates`.  A lane that the run puts
back itself after its gates is in `MissionLifecycle`; here it is `Approve` followed
by `Ready`, and `NotReady` is the run that finds nothing to put back.

### Supervisor

`mission` has the facts the board shows (lane, recorded cause, version); of the
review lane it says whether the round is undecided, has findings to be fixed
(`fixing`: the board advertises `px active`) or is approved; `command`,
`op` are the px commands that the runs forwarded and the one that a workflow
admitted; `claim` is the recovery claim.  Per run, `loop` is `superviseFleet`, `run`
what it remembers of the mission (outcome, states pressed, attempts spent per
failure), `judge` the judgment service (evidence seen, consultations, its deadline),
and `step` the step in flight.  `OnQueue`, `Kind` and `Fingerprint` are the
attention queue, the advertised action and the failure's name.

A pass that finds the mission reopens or settles it and starts a step without
awaiting anything (`Pass`); the step is one action per await: `Dispatch`, then
`FinishApproval` or `Forward` or `PressFails`; or `Claim`, `Confirm`, `Judge` (or
`JudgeLate`, or `JudgeFails`), `Consult`, `Recheck`, the four reads of the last
admission, `Spawn`, `AgentExits`, `Release`, and `StepFails` anywhere an authority or
a launch can fail.  The four reads (`AdmitMission`, `AdmitOperation`, `AdmitBoard`,
`AdmitLiveness`, `composition/lead-operator-judgment.ts:21-27`) are awaited one after
the other, and anything may happen between two of them: what is compared in the end
may never have been true at one time.  `Forward` also forwards a parked approval,
when the move of its lane was refused (`composition/lead-supervisor.ts:104-110`).

Left out or left open: other missions of the queue; `--once` and `--dry-run`; stale
work as a reason; integrate and review actions that the board shows as disabled;
the reads of the evidence before and around a consultation (each is taken at one moment,
and the two after the proposal are one; only the reads of the admission, on which the launch
rests, are apart); time (`JudgeLate` may happen at any judgment after
the first); when a sleeping pass is woken; a crash of `px lead`, which is a new
process that remembers nothing.  What the board knows about running work is taken
for exact.

### GateAdmission

`run` is a phase run in a process of its own, `slot` its admission to each
partition (a resource, or `"run"` for whole runs), `rows` the lease table with the
holder of each row, `bound` the process groups recorded with leases, `gate` the
progress of each gate and `tree` what is alive of it: the command, children in its
group, children in a session of their own.  `limit` is the capacity each run's
repository is configured with.

`Begin`, `Acquire`, `GiveUp`, `SettleKill`, `Release` are the admission;
`StartPending`, `Launch` (behind a pipe), `Bind` or `BindFails`, `Refuse`,
`Terminate`, `SettleOutcome`, `Close`, `Leave` the phase; `Fork`, `LeaderExits`,
`BackgroundExits`, `Cancel`, `Crash` the environment.  `Terminate` may leave
members of the gate's group alive: the group is killed only if the gate's output is
not closed within the grace period (`adapters/config/gate-command-runner.ts:28-38`).  `Seen` is what a lease finds
alive: processes that inherited its token, and groups bound to it.

Left out: the synchronous variant, reuse of pids, platforms without `/proc`, reuse
of an earlier proof, the dashboard, gates a mission declares.  `Leave` waits until
every slot of a run is settled; `Promise.all` (`adapters/config/phase-gate-resources.ts:57`)
stops waiting when one of them fails, so that with two resources the slot of the
whole run could go while the other is still being settled.  The run `gates` has one
resource.  A custom agent's
lease is a row of the same table; the replacement of the launcher by the agent as
the owner of the row is not modelled (a launcher that dies between spawning an
agent and `bindChild` leaves an agent without a lease).

## 4. What the runs check

| Run | Instance | States | Question |
|---|---|---|---|
| `safety` | two operations, three processes, a recovery worker, a stopper, one fault | 1.2 million | exclusion, fencing, quiet and final settlement, undo, refinement of the lease |
| `liveness` | one operation of every command from every lane, two processes, a recovery worker, a stopper who retries, an editing client, one fault | 273 thousand | accepted intent, lost owners and stops come to an end |
| `claims` | up to three callers after a dead owner's claim, with or without a dead owner's lock, one crash, until `crowded` | 219 thousand | one holder, with its record on disk, who took the claim when it was free; somebody gets the claim |
| `lifecycle` | a slow and a prompt writer, two rounds, two revisions | 1.6 million | what integration rests on; decisions survive |
| `landing` | two missions, two versions of each change, one commit by others, two faults | 0.9 million | what lands, after which gates, how often, and that it is closed |
| `supervisor` | two `px lead`, a mission in review, one failure, one attempt, one fault | 3.3 million | one agent, as judged, within the budget; the claim comes back |
| `lead` | one `px lead`, two failures, a mission in active or integration, two attempts, one fault | 582 thousand | a stuck mission is settled |
| `gates` | two runs of three gates, two of them on one resource, equal and unequal capacities, children in both places, one fault | 254 thousand | leases, capacities, cancellation, no deadlock |
| `stop_forever`, `two_holders`, `resume`, `detached` | see section 5 | up to the counterexample | where the code does not do what it says |

The properties:

* `WorkflowOwnership`.  `OneOpenOperation`: admission, done twice at once or after
  a client looked at an old table, leaves one open operation.  `OneWriter`: the
  guard on mission writes compares generation and phase and never the process; it
  lets at most one process through all the same.  `SettledIsQuiet`: when an
  operation is settled, by its executor, recovery or a stop, no agent of it is
  alive and no executor of it is at work.  `OneAgent`: two operations never have
  agents at work at once; the replacement of an operation whose executor died
  waits for the agents it left.  `SettledIsFinal`: no late transaction touches a
  settled row.  `UndoOnlyOwnActivation`: the mission goes back from active to
  refined only if nothing was written since the activation and no start was
  recorded.  `LeaseSpec`: the refinement.  `AcceptedProgress`, `OwnerLossNoticed`,
  `StopSettlesAttributed`: liveness.
* `RecoveryClaim`.  `ClaimSpec` (the refinement, which contains `OneHolder` until
  `crowded`), `HolderOnDisk`, and `SomeoneSucceeds`: somebody
  gets the claim of a dead owner, if its lock was not abandoned and no caller dies
  over it.
* `MissionLifecycle`.  `IntegrationIsApproved`: a mission is in integration or done
  only under an approval nobody withdrew and whose failed gate is not open.
  `NoStrandedApproval`: an active mission has an approval in force only while a
  failed gate is being repaired under it.  `OnlyNewestRoundOpen`.
  `RetainedIsJudged`: an approval kept over a repair covers the judged change at a
  revision whose gates passed.  `DecisionsAreKept`: no write, however old the copy
  it was made from, removes a round or alters what was decided.
  `RepairIsAnswered`: an approval whose gate failed comes back to integration
  only retained or through a later round.
* `Landing`.  `LandsGatedTree`: what lands is the change this very run's gates
  passed, on exactly the base it lands on.  `OneSquash`, `DeliveredIsLanded`,
  `ClosedIsFinished`: over any number of interrupted and repeated runs.
  `LandedIsClosed`: a landed mission is closed in the end.
* `Supervisor`.  `OneRecoveryAgent`, `ClaimHasStep` (the claim is held exactly by
  the step that took it), `LaunchIsJudged` (when the fourth read of the admission
  lets a launch through, nobody works on the mission and its operation is free, by
  whatever process, although the operation was read two awaits earlier),
  `BudgetIsKept` and, for `lead`,
  `StuckIsSettled`: a mission on the queue leaves it, or waits for the human
  because it is ready to land, or is escalated for the failure it has now.
* `GateAdmission`.  `WorkIsAdmitted`, `CapacityIsKept`, `CancelSettles`, and
  `EveryRunEnds` provided that what gates leave in the background is gone time and
  again.

**Bounds.**  *Ownership*: two operations are what exclusion and the succession of
one by another need; three processes are a supervisor, its executor and one more
that takes a freed identity or duplicates the supervisor.  One fault reaches every
error path, since each needs one.  `MaxVersion` allows the activation and one more
write, which is what the version check of the undo tells apart.  Recovery workers
hold no state between passes, so that one stands for several in a row; the
supervisor's own reconciliation competes with it.  *Claim*: the constraint `Uncrowded`
leaves out the states after more than two living callers have met what a dead one
left (with three callers: those that begin with an abandoned lock and all three), where `ClaimSpec` says nothing; the run `two_holders` goes there, with one
caller whose fresh claim is moved aside, one that moves it, one that publishes into
the gap.  *Lifecycle*: only a
writer that is slow between its read and its write makes a version stale; the
other stands for all that are not, and the two alternate freely.  Two rounds
suffice for a withdrawn approval and the round that answers it, and two revisions for
a repair, which either changes what would land or does not.  Event keys are taken
for unique (`Reusable = {}`), so that no replay happens in the run; what happens when
they are not is in section 5.
*Landing*: two missions contend, one commit by others may come at any time, and
each mission's change may be reworked once.  Two faults allow the run that repairs
the first to fail as well.  `Disturbances = {}`: see section 5.  *Supervisor*: two
`px lead` with one attempt contend for the claim and the launch; one with two
failures and two attempts shows how settlement follows the failure.  The
constants of the code are 2 attempts, 2 failed reads, 3 consultations; the last is
smaller here so that it can be used up.  *Gates*: two runs contend for the one slot
of a resource while each may hold a slot for whole runs; three gates are one that
is not tagged and two that share a slot.

**Fairness.**  `RecoverySpec` assumes that a recovery worker repeats its pass,
as `composition/workflow-recovery.ts:107-112` does every two seconds, and that a
process that was started reaches its next step unless it dies: nothing blocks a
supervisor or the claim.  Nothing is assumed of clients, of providers (an agent
may run for ever) or of how long an executor works.  `OperatorSpec` adds an
operator who repeats a pending `px stop`, which is what the command tells him to
do (`workflow-operation-service.ts:349`).  `FairSpec` of `RecoveryClaim` lets every
living caller go on to its next file system call.  In `Landing` a run goes on
unless it dies, reviewers decide, and the operator who sees the run of a landed
mission fail again and again asks in the end for `--recover-landed`; that last
assumption is strong fairness, because a run in progress disables it, and the
finding `resume` is why it is needed.  `Supervisor` assumes that a `px lead` that
was not interrupted goes on, that commands and agents end (an assumption about
them) and that time passes: the two minutes a mission has for judgment are over sooner or
later, however often it is judged in between (strong fairness of `JudgeLate`).  In
`GateAdmission` every process goes on polling, and commands end; what they leave
behind need not.

Deadlock is not checked: with every version and fault used up, or every caller or
run done, the system rightly stops.

## 5. Where code and documents differ

Each of these runs ends in a counterexample to one property.

* `stop_forever`: a stop that kills an executor between the opening of the run
  record and the spawn leaves a record that names no process; no later stop can
  settle the operation (`application/run-history.ts:88-90`).
* `two_holders`: with an abandoned lock, two callers come under the lock, a stale
  mover takes the fresh claim of the other aside and a third publishes into the
  gap.
* `resume`: a run that dies after its squash is not resumed by the plain retry.
  Its branch is not rebased any more, so that the comparison under the base lock
  takes the squash itself for an advance of the base, three times.
* `detached`: a tagged gate inherits the lease token of its resource in place of
  that of its run.  When the owner of the run dies, a child of that gate in a
  session of its own is not seen by the lease of the run, and the next run
  starts beside it.

Further statements of the documents are written down as properties in the modules
and are refuted by TLC, but have no run of their own.  To see one, put it into the
named configuration in place of the properties there.

| Statement | Configuration | What happens | What is said |
|---|---|---|---|
| `WorkflowOwnership!UndoOnlyBeforeAgent` | `safety` | the start of an agent could not be recorded; the activation is undone although an agent ran | "Undo an activation only when no agent was ever started" (`application/mission-lifecycle-service.ts:76`) |
| `WorkflowOwnership!EditOnlyUnowned` | `liveness` | the look for an open operation and the edit are two steps; a workflow admitted in between does not stop a cancel | "A workflow owns this mission; stop it before editing or deleting it" (`application/workflow-operation-service.ts:54`) |
| `WorkflowOwnership!SettledIsQuiet` | `safety`, `CaptureMayFail = TRUE` | a launch goes on without a run record; after the executor's death a detached agent is invisible and a replacement is admitted | "Stale writers are fenced and uncertain termination excludes replacement" (`src/docs/adr/0053-...md:298`) |
| `RecoveryClaim!NoOrphanRecord` | `claims` | two callers take over the same abandoned lock and both lose; the lock stays recorded for a living process that does not want it | recovery of an abandoned lock "is itself a single-winner takeover" (`src/docs/adr/0059-...md:160-161`) |
| `MissionLifecycle!StaleWriterKeepsStop` | `lifecycle` | a submission prepared before the loop stopped for the operator is stored over the stop (`review-submission-service.ts:156-157` names no version) | "stale callers change nothing" (`src/docs/adr/0053-...md:277-278`) |
| `MissionLifecycle!HistoryIsComplete` | `lifecycle`, `Reusable = {"refine", "preparation", "open", "changes", "approve", "integrate"}` | a transition made a second time under the same key (a second preparation of one round) is taken for a replay, and its lane event is not recorded | "the history is already complete" (`application/mission-lifecycle-service.ts:134`) |
| `MissionLifecycle!RepairIsResubmitted` | `lifecycle` | a mission whose approval a failed gate withdrew is approved again in the review lane while its preparation is under way, before anything is submitted; only an active mission is asked about its repair | "requires implementation and resubmission through review before approval" (`domain/mission-workflow.ts:252-254`) |
| `Landing!ContentionIsAbsorbed` | `landing` | a run that finds the base lock taken ends with an error | "A concurrent landing never forces an operator to restart the command" (`application/integrate-workflow.ts:396`) |
| `Landing!DeletedWorkIsDelivered` | `landing`, `Disturbances = {"run"}` | a squash is recognised by the mission it names; work approved after a landing that was not closed is taken for delivered, and its branch is deleted | "The payload is already delivered" (`application/integrate/landed-recovery.ts:84`) |
| `Landing!LandsApprovedChange` | `landing`, `Disturbances = {"run"}` | `px revoke-review` takes the approval away between the look at the lane after the gates (`application/integrate-workflow.ts:376`) and the squash, which looks at nothing; the closeout refuses the mission for its lane "before any landing effect" (`application/integrate/squash.ts:77`) when its squash is on the base | "Integration requires a recorded reviewer approval" (`src/docs/config.md:625`) |
| `Landing!LandsGatedTree` | `landing`, `Disturbances = {"run"}` | the branch is reworked and approved again between the gates and the squash, which nothing compares | "never squash a comparison tree the gates did not see" (`application/integrate-workflow.ts:353`) |
| `Supervisor!NewFailureIsTried` | `lead` | consultations are counted per mission: a later failure meets an exhausted count and is escalated untried | such a mission "gets its own attempts instead of inheriting an exhausted count" (`application/recovery-contract.ts:13-14`) |
| `Supervisor!NoLateLaunch` | `supervisor` | an interrupt after the last look at the signal does not keep the recovery agent from being launched | "interrupted supervision ... refuses a late action" (`src/test/integration/mission/recovery-supervisor.test.ts:834`) |

Other things the models made visible:

* `px integrate` looks at the lane and not at what the approval covers; it relies
  on every path to integration having looked.  The loop that gates a candidate
  again after the base advanced does not ask again for the feedback a retained
  approval owes.
* A mission that was escalated, also one with attempts left, and that leaves the queue
  and comes back with the same failure stays escalated for that `px lead`; ADR 0059
  (lines 120-122) says it is "supervised afresh, keeping the attempts its failure
  already spent".
* Between the supervisor's last look for live work and the command it forwards,
  work may begin; the workflow's admission refuses the command then.
* Gates that need two resources in opposite orders wait for each other; nothing
  orders them.  `EveryRunEnds` is checked where the plan does.
* A run that failed, as opposed to one that was cancelled, waits without killing for
  what an untagged gate left behind.

## 6. What is proved

The theorems hold for every value of the constants, under the assumptions the
modules name, which TLC evaluates in every run.

**WorkflowOwnership** (`ConstantAssumption`: any number of operations, processes,
recovery workers, stoppers and editors, any bounds).

* `TypeCorrect`: `TypeOK`, together with `References` (a process, a verdict or a
  stop that is under way refers to an operation of the table; a snapshot names
  processes only).  Without `References` the type invariant is not inductive: a
  step would update the row of an operation that does not exist.
* `AtMostOneOpen`: the lemma `OpTableStep` shows that every step changes at most
  one row, in one of four ways: it opens, claims, settles or updates it.  Only
  the first makes an operation open, and it happens when none is.
* `SettledForGood`: by the same lemma; none of the four ways applies to a settled
  row.
* `AtMostOneWriter`: the invariant `Fencing` says that an executor never carries a
  generation above its operation's, and that of two executors at work for the
  same operation at most one carries its current generation, since a claim
  raises the generation and is possible only while there is no owner.
* `UndoesOwnActivation`: only two steps take an active mission back to refined
  (`UndoStep`), and both put the lane back through `Compensated`, which compares the
  mission with the operation's own activation.  What is missing is that no start was
  recorded: the block after a failed spawn does not ask.  `Unstarted` supplies it: an
  operation that nobody claimed has no start recorded.

The remaining ones also assume `Reliable`, that run records open; section 5 shows
that they fail without it.

* `SettledLeftNothing`: `SettledIsQuiet` by the inductive invariant `Quiet`.  Its
  parts are what makes each way to settle an operation safe.  `Agents`: a living
  agent is in a run record, and its operation was claimed and is not settled.
  `Executors`: a process at work is the recorded owner, its operation is not
  settled, and between two agents none is alive; so an executor may settle its own
  operation.  `Deaths`: the owner a pending verdict calls dead is still dead and
  left no unsettled record, since its identity is taken by nobody while the open
  operation names it; so the verdict may be committed late.  `Stops`: an owner
  seen terminated stays so while the stop names it, and once the effects are
  settled no launch is authorized any more, since authorization takes the phase
  `executing`; so the stop may settle.
* `ImplementsLease`: a step changes one row (which of the lease's steps that is
  follows from the four ways of `TableStep` and from `Quiet`) or one agent
  (`AgentOrRow`), never both.
* `OneAgentAtWork`: from `Quiet` and `AtMostOneOpen`.

**MissionLifecycle** (any writers, rounds and revisions, any reusable keys).  All
seven properties of the run `lifecycle` follow from one invariant, `Inv`.  Its
core is `Sound`: the stored mission has its type, each round's fields agree with
each other and only the last is open (`RoundsFit`), and the lane agrees with the
conversation (`LaneFits`).  That alone is not inductive, because a writer stores
what it made from an old copy; `CopyOf` adds that every copy is itself sound, that
the stored conversation continues it (`Continues`: what was decided then is still
there), and that a copy whose version is current is the stored mission.  Each
action is shown to keep `Inv` and to let the new conversation continue the old one
(`StepKeeps`); the second half is `DecisionsKept`, and what makes the copies of
everybody else continue to fit.  The lemmas `PreparedFits` and `MadeFromCopy` are
about the one write that names no version: a review prepared from an old copy
still continues the conversation that is stored when it is decided upon.

**Landing** (any missions, versions, commits by others, faults).  `Inv` adds to
`TypeOK` and `OneSquash` what a run knows at each of its steps (`Stage`), what was
delivered and finished (`Delivered`, `Finished`), who holds the base (`Holding`),
and, if nobody disturbs a run, that what its gates saw is what it carries to the
squash (`Undisturbed`).  From it follow `TypeCorrect`, `LandsOnce`,
`DeliveredHasLanded`, `ClosedHasFinished` and `HolderLands` under any disturbances.
Only `Squash` lands a mission (`OnlySquashLands`); that gives `LandsWhatGatesSaw`,
assuming `Disturbances = {}`.  That what lands is approved is not proved, because it
is not so (`LandsApprovedChange` in the table of section 5).

**Supervisor** (any number of `px lead`, failures, budgets).  `Inv` adds to `TypeOK`
and `ClaimHasStep` that a read of the board is left while a run goes on
(`ReadsLeft`), that what a run remembers fits its step in flight (`StepFits`: an
attempt is unspent from the claim until it is spent, and spent at the launch; what a
recovery is launched on was judged and may be continued), and that the lane move a
lost approval still gets stays within the versions (`RoomToApprove`, about the bound
only). It makes the counts of `TypeOK` inductive and gives `LaunchesAreBudgeted`.
For `LaunchedAsJudged` the last read must also speak for the second: an operation
that began after it was read belongs to a run whose command is under way
(`CommandHasOperation`), which the last read reports as work. `AtMostOneRecovery`
follows from `ClaimHasStep`, as two agents would be two holders.

**GateAdmission** (any finite set of runs; any gates, order, resources, capacities).
`Inv` says how far a run's slots and leases are by where the run is (`SlotsOf`,
`LeasesOf`), that what is alive of a gate is bound unless it waits behind its pipe
(`TreeOf`), that something alive keeps a living run's slots counted and a dead
run's rows in place (`KeptBy`), and that the leases of a partition are no more
than any holder allows (`Fair`).  The last one counts the rows that a newcomer
leaves after taking back the dead ones, which is why the runs must be finite.
`AdmittedWork` is `KeptBy`; `CapacityHolds` follows, since whoever is at work has a
lease.

**RecoveryClaim** (any finite set of callers, any corpses).  The model has two
phases as long as nobody dies.  First the corpse lies untouched (`Untouched`):
nobody is past it, and each caller remembers nothing or the corpse.  Exactly one
kind of step ends that phase, the move of the corpse out of the way, and what
holds afterwards depends on the lock.

* `TypeCorrect`: with `AsideKnown` (who is about to put something back has it) and
  `OnlyLiving` (only the living step and hold), which make it inductive.
* `HolderIsOnDisk`: the lock was not abandoned (`Peace`).  `LockInOrder` says that a
  free or living lock is stolen by nobody and that the caller under the lock is the
  one recorded there, so one caller moves the corpse.  After that (`InOrder`) being
  given the claim and being recorded on disk are the same.  That needs `Knows`: a
  caller that still remembers another one's record finds that one gone by the time
  it compares under the lock, so it never moves a living record.
* `AtMostOneHolder`: until `crowded`, there is one holder, however many callers there
  are and however many of them die.  While nobody met anything abandoned this is
  `Peace`.  Otherwise no more than two living callers are left when something is
  abandoned.  They may both get under the abandoned lock, and one may move the record
  of the other away.  `Contested` says that it then puts it back (`InPlace`,
  `Carries`), and that whoever it may take by surprise is already past its one chance
  to take the claim (`Over`).  Where the argument needs a third caller to go wrong,
  `Two` refutes it (`NobodyBetween`).  So `Holding` has three cases, and is inductive
  where none of them is alone.  The theorem assumes nothing of the constants; the
  states it is silent about are those in which `two_holders` finds its
  counterexample, and `crowded` tells where they begin.

* `ImplementsClaim`: until `crowded` there is one holder before and after every step,
  so that a step that adds one found none.

**Between the components.**  `ExclusiveClaim` is the interface.  That
`RecoveryClaim` implements it is `ImplementsClaim`; that the table of operations
does, with the open operations for the holders, is `OperationsAreExclusive`, from
`AtMostOneOpen` and `OpTableStep`.  On the other side `ReliesOnClaim` (`Landing`, the
base) and `ReliesOnClaims` (`Supervisor`, the recovery claim and the operation) show
that what these models assume are steps of the same specification.  The latter needs
`CommandHasOperation`: the operation belongs to the run whose command was admitted.

**Only model-checked.**  Liveness rests on fairness and `ENABLED`, which are out of
the prover's reach: `AcceptedProgress`, `OwnerLossNoticed`,
`StopSettlesAttributed`, `SomeoneSucceeds`, `LandedIsClosed`, `StuckIsSettled`,
`CancelSettles`, `EveryRunEnds`.

## 7. What is not modelled

* **Rebound kernel.**  The retry loop of one command.  Its attempts and fingerprints
  live in that one call, and nothing else touches them; what it does to a mission
  is in `MissionLifecycle`.
* **Review preparation and review loop.**  What they write is in `MissionLifecycle`,
  in any order; which agent runs next and how many rounds are allowed is not.
* **Checkpoints.**  Evidence recorded with a mission under its version check.
  Whether it covers a repair is a comparison of data, whose outcome
  `MissionLifecycle` leaves open.
* **Execution activity.**  A projection, each event of which is applied in one
  transaction by a pure function.  `Supervisor` takes it for exact.
* **Agent selection and blocklist.**  A sequential choice over the configuration and
  blocks with expiry; the models leave open which agent runs.
* **Rebase.**  A clean rebase is in `Landing` and `MissionLifecycle`; conflicts and
  an agent that resolves them are the state of a working tree.
* **GitHub publication.**  Only tests construct the publication engine; there are no
  callers yet that would say what its environment does.  Landing through Forgejo
  pull requests is a matter of a remote service.
* **Mission store.**  Nested transactions, contention of writers for the SQLite
  file (a busy database is an error that a caller reports), serialization.
* **The rest** is I/O (terminal, backlog files, git, interfaces), sequential
  (creation, authoring), a read model (board, statistics), or runs alone
  (migrations).
