--------------------------- MODULE GateAdmission ---------------------------
(***************************************************************************)
(* Phase runs of verification gates share lease rows in one SQLite file.   *)
(* A run waits for a slot of the partition "run", when one is configured,  *)
(* and its tagged gates wait for one slot of their resource, which the run *)
(* keeps until all gates of that resource are over and their process trees *)
(* have settled.  Gates run as process groups that outlive their owner;    *)
(* the row of a dead owner is taken back by whoever finds nothing alive    *)
(* behind it.                                                              *)
(***************************************************************************)
EXTENDS FiniteSets, Integers

CONSTANTS
  Runs,         \* phase runs, each a process of its own
  Gates,        \* keys of the gates of a phase
  After,        \* of each gate: the gates it comes after
  Resource,     \* of each gate: the resource it is tagged with, or "run"
  Leaving,      \* the gates that may leave something behind
  Partitions,   \* resources, and "run" if whole runs are limited
  Limits,       \* the capacities the runs' repositories may be configured with
  MaxParallel,  \* gates at a time in one phase
  MaxFaults     \* bound: crashes, cancellations and failing writes

ASSUME RunsAssumption == IsFiniteSet(Runs)
ASSUME PlanAssumption ==
  /\ After \in [Gates -> SUBSET Gates] /\ Resource \in [Gates -> Partitions \cup {"run"}]
  /\ Leaving \subseteq Gates
ASSUME LimitAssumption == Limits \subseteq [Runs -> [Partitions -> Nat \ {0}]]
ASSUME BoundsAssumption == MaxParallel \in Nat \ {0} /\ MaxFaults \in Nat

VARIABLES
  limit,  \* of each run: the capacity of each partition, as its repository says
  run,    \* of each run: where it is, cancelled, a gate failed
  slot,   \* of each run and partition: how far the admission is
  rows,   \* the leases
  bound,  \* gates whose process group is recorded with the run's leases
  gate,   \* of each run and gate: its progress
  tree,   \* of each run and gate: what is alive of it
  faults

vars == <<limit, run, slot, rows, bound, gate, tree, faults>>

Places == {"idle", "waiting", "running", "closing", "ended", "dead"}
Slots == {"off", "waiting", "held", "releasing", "done"}
Progress == {"pending", "ready", "guarded", "running", "passed", "failed", "ok", "bad"}
Processes == {"leader", "group", "session"}

Alive(r) == run[r].at \in {"waiting", "running", "closing"}

(* A living run has exactly the leases it knows of.                        *)
TypeOK ==
  /\ limit \in Limits
  /\ run \in [Runs -> [at : Places, cancelled : BOOLEAN, failed : BOOLEAN]]
  /\ slot \in [Runs -> [Partitions -> Slots]]
  /\ rows \subseteq Runs \X Partitions
  /\ bound \subseteq Runs \X Gates
  /\ gate \in [Runs -> [Gates -> Progress]]
  /\ tree \in [Runs -> [Gates -> SUBSET Processes]]
  /\ faults \in 0..MaxFaults
  /\ \A r \in Runs, p \in Partitions :
       Alive(r) => (<<r, p>> \in rows <=> slot[r][p] \in {"held", "releasing"})

Init ==
  /\ limit \in Limits
  /\ run = [r \in Runs |-> [at |-> "idle", cancelled |-> FALSE, failed |-> FALSE]]
  /\ slot = [r \in Runs |-> [p \in Partitions |-> "off"]]
  /\ rows = {} /\ bound = {}
  /\ gate = [r \in Runs |-> [g \in Gates |-> "pending"]]
  /\ tree = [r \in Runs |-> [g \in Gates |-> {}]]
  /\ faults = 0

Tagged(g) == Resource[g] # "run"

(* A failed gate stops the gates of its run and their waiting; only a      *)
(* cancellation stops the wait for, and the settling of, the run's slot.   *)
Stopped(r) == run[r].cancelled \/ run[r].failed
SlotStopped(r, p) == IF p = "run" THEN run[r].cancelled ELSE Stopped(r)

Active == {"ready", "guarded", "running", "passed", "failed"}
ActiveGates(r) == {g \in Gates : gate[r][g] \in Active}

(* What a lease finds alive of a gate: everything that inherited its token *)
(* and the groups bound to it.  A tagged gate inherits the token of its    *)
(* resource slot instead of that of its run.                               *)
Seen(r, p, g) ==
  IF p = Resource[g] THEN tree[r][g]
  ELSE IF p = "run" /\ <<r, g>> \in bound THEN tree[r][g] \ {"session"} ELSE {}

Settled(r, p) == \A g \in Gates : Seen(r, p, g) = {}

Abandoned(r, p) == run[r].at = "dead" /\ Settled(r, p)

-----------------------------------------------------------------------------
(* Admission.                                                              *)

Begin(r) ==
  /\ run[r].at = "idle"
  /\ IF "run" \in Partitions
     THEN run' = [run EXCEPT ![r].at = "waiting"] /\ slot' = [slot EXCEPT ![r]["run"] = "waiting"]
     ELSE run' = [run EXCEPT ![r].at = "running"] /\ UNCHANGED slot
  /\ UNCHANGED <<limit, rows, bound, gate, tree, faults>>

(* Mutant: the row of a dead owner stays.                                  *)
HoldersForEver(p) == {r \in Runs : <<r, p>> \in rows}

Holders(p) == {r \in Runs : <<r, p>> \in rows /\ ~Abandoned(r, p)}

(* Mutant: a run looks at its own capacity only.                           *)
AdmissibleByOwn(r, p) == Cardinality(Holders(p)) < limit[r][p]

(* The smallest capacity of anybody concerned counts.                      *)
Admissible(r, p) == \A q \in Holders(p) \cup {r} : Cardinality(Holders(p)) < limit[q][p]

Acquire(r, p) ==
  /\ Alive(r) /\ slot[r][p] = "waiting"
  /\ Admissible(r, p)
  /\ rows' = {q \in rows : q[2] = p => q[1] \in Holders(p)} \cup {<<r, p>>}
  /\ slot' = [slot EXCEPT ![r][p] = "held"]
  /\ run' = IF p = "run" THEN [run EXCEPT ![r].at = "running"] ELSE run
  /\ UNCHANGED <<limit, bound, gate, tree, faults>>

(* Mutant: whoever waits for a resource is not woken by a stop.            *)
GiveUpRunOnly(r, p) ==
  /\ p = "run" /\ Alive(r) /\ slot[r][p] = "waiting" /\ SlotStopped(r, p)
  /\ slot' = [slot EXCEPT ![r][p] = "done"]
  /\ run' = IF p = "run" THEN [run EXCEPT ![r].at = "ended"] ELSE run
  /\ UNCHANGED <<limit, rows, bound, gate, tree, faults>>

GiveUp(r, p) ==
  /\ Alive(r) /\ slot[r][p] = "waiting" /\ SlotStopped(r, p)
  /\ slot' = [slot EXCEPT ![r][p] = "done"]
  /\ run' = IF p = "run" THEN [run EXCEPT ![r].at = "ended"] ELSE run
  /\ UNCHANGED <<limit, rows, bound, gate, tree, faults>>

(* Whoever settles a slot after a stop kills what it sees.                 *)
SettleKill(r, p) ==
  /\ Alive(r) /\ slot[r][p] = "releasing" /\ SlotStopped(r, p) /\ ~Settled(r, p)
  /\ tree' = [tree EXCEPT ![r] = [g \in Gates |-> tree[r][g] \ Seen(r, p, g)]]
  /\ UNCHANGED <<limit, run, slot, rows, bound, gate, faults>>

Release(r, p) ==
  /\ Alive(r) /\ slot[r][p] = "releasing" /\ Settled(r, p)
  /\ rows' = rows \ {<<r, p>>}
  /\ slot' = [slot EXCEPT ![r][p] = "done"]
  /\ run' = IF p = "run" THEN [run EXCEPT ![r].at = "ended"] ELSE run
  /\ UNCHANGED <<limit, bound, gate, tree, faults>>

-----------------------------------------------------------------------------
(* A phase run and its gates.                                              *)

StartPending(r, g) ==
  /\ run[r].at = "running" /\ ~Stopped(r)
  /\ gate[r][g] = "pending" /\ \A d \in After[g] : gate[r][d] = "ok"
  /\ Cardinality(ActiveGates(r)) < MaxParallel
  /\ gate' = [gate EXCEPT ![r][g] = "ready"]
  /\ slot' = IF Tagged(g) /\ slot[r][Resource[g]] = "off"
             THEN [slot EXCEPT ![r][Resource[g]] = "waiting"] ELSE slot
  /\ UNCHANGED <<limit, run, rows, bound, tree, faults>>

(* Mutant: a gate does not wait for its slot.                              *)
LaunchUnadmitted(r, g) ==
  /\ run[r].at = "running" /\ gate[r][g] = "ready" /\ ~Stopped(r)
  /\ gate' = [gate EXCEPT ![r][g] = "guarded"]
  /\ tree' = [tree EXCEPT ![r][g] = {"leader"}]
  /\ UNCHANGED <<limit, run, slot, rows, bound, faults>>

(* The child waits at a pipe until its group is bound.                     *)
Launch(r, g) ==
  /\ run[r].at = "running" /\ gate[r][g] = "ready" /\ ~Stopped(r)
  /\ Tagged(g) => slot[r][Resource[g]] = "held"
  /\ gate' = [gate EXCEPT ![r][g] = "guarded"]
  /\ tree' = [tree EXCEPT ![r][g] = {"leader"}]
  /\ UNCHANGED <<limit, run, slot, rows, bound, faults>>

Refuse(r, g) ==
  /\ run[r].at = "running" /\ gate[r][g] = "ready" /\ Stopped(r)
  /\ Tagged(g) => slot[r][Resource[g]] # "waiting"
  /\ gate' = [gate EXCEPT ![r][g] = "failed"]
  /\ UNCHANGED <<limit, run, slot, rows, bound, tree, faults>>

Bind(r, g) ==
  /\ run[r].at = "running" /\ gate[r][g] = "guarded"
  /\ gate' = [gate EXCEPT ![r][g] = "running"]
  /\ bound' = bound \cup {<<r, g>>}
  /\ UNCHANGED <<limit, run, slot, rows, tree, faults>>

BindFails(r, g) ==
  /\ run[r].at = "running" /\ gate[r][g] = "guarded" /\ faults < MaxFaults
  /\ faults' = faults + 1
  /\ gate' = [gate EXCEPT ![r][g] = "failed"]
  /\ tree' = [tree EXCEPT ![r][g] = {}]
  /\ UNCHANGED <<limit, run, slot, rows, bound>>

(* A stopped run terminates the group of a gate.  The group is killed only *)
(* if the command is not over within the grace period: a child that does   *)
(* not heed the first signal, and holds no output open, stays.             *)
Terminate(r, g) ==
  /\ run[r].at = "running" /\ gate[r][g] \in {"guarded", "running"} /\ Stopped(r)
  /\ gate' = [gate EXCEPT ![r][g] = "failed"]
  /\ \E over \in {{"leader"}, {"leader", "group"}} : tree' = [tree EXCEPT ![r][g] = @ \ over]
  /\ UNCHANGED <<limit, run, slot, rows, bound, faults>>

(* The last gate of a resource gives its slot up.                          *)
SettleOutcome(r, g) ==
  /\ run[r].at = "running" /\ gate[r][g] \in {"passed", "failed"}
  /\ gate' = [gate EXCEPT ![r][g] = IF gate[r][g] = "passed" THEN "ok" ELSE "bad"]
  /\ run' = IF gate[r][g] = "failed" THEN [run EXCEPT ![r].failed = TRUE] ELSE run
  /\ slot' = IF /\ Tagged(g) /\ slot[r][Resource[g]] = "held"
                /\ \A h \in Gates : Resource[h] = Resource[g] => gate'[r][h] \in {"ok", "bad"}
             THEN [slot EXCEPT ![r][Resource[g]] = "releasing"] ELSE slot
  /\ UNCHANGED <<limit, rows, bound, tree, faults>>

(* Mutant: a phase that is over forgets its slots.                         *)
CloseForgetful(r) ==
  /\ run[r].at = "running" /\ ActiveGates(r) = {}
  /\ Stopped(r) \/ \A g \in Gates : gate[r][g] # "pending"
  /\ run' = [run EXCEPT ![r].at = "closing"]
  /\ slot' = [slot EXCEPT ![r] = [p \in Partitions |->
       IF p # "run" /\ slot[r][p] = "held" THEN "done" ELSE slot[r][p]]]
  /\ UNCHANGED <<limit, rows, bound, gate, tree, faults>>

(* Nothing is active and nothing more will start: slots are given up, the  *)
(* run's own after those of the resources.                                 *)
Close(r) ==
  /\ run[r].at = "running" /\ ActiveGates(r) = {}
  /\ Stopped(r) \/ \A g \in Gates : gate[r][g] # "pending"
  /\ run' = [run EXCEPT ![r].at = "closing"]
  /\ slot' = [slot EXCEPT ![r] = [p \in Partitions |->
       IF p # "run" /\ slot[r][p] = "held" THEN "releasing" ELSE slot[r][p]]]
  /\ UNCHANGED <<limit, rows, bound, gate, tree, faults>>

Leave(r) ==
  /\ run[r].at = "closing"
  /\ \A p \in Partitions \ {"run"} : slot[r][p] \in {"off", "done"}
  /\ IF "run" \in Partitions
     THEN slot[r]["run"] = "held" /\ slot' = [slot EXCEPT ![r]["run"] = "releasing"] /\ UNCHANGED run
     ELSE run' = [run EXCEPT ![r].at = "ended"] /\ UNCHANGED slot
  /\ UNCHANGED <<limit, rows, bound, gate, tree, faults>>

-----------------------------------------------------------------------------
(* The commands themselves, the operator and the machine.                  *)

(* A command may leave a child behind, in its group or in a new session.   *)
Fork(r, g, k) ==
  /\ g \in Leaving /\ tree[r][g] = {"leader"} /\ k \in {"group", "session"}
  /\ gate[r][g] = "running"
  /\ tree' = [tree EXCEPT ![r][g] = @ \cup {k}]
  /\ UNCHANGED <<limit, run, slot, rows, bound, gate, faults>>

(* A guarded child whose owner died reads the end of its pipe and exits.   *)
LeaderExits(r, g) ==
  /\ "leader" \in tree[r][g] /\ (gate[r][g] = "running" \/ run[r].at = "dead")
  /\ tree' = [tree EXCEPT ![r][g] = @ \ {"leader"}]
  /\ IF run[r].at = "running"
     THEN \E outcome \in {"passed", "failed"} : gate' = [gate EXCEPT ![r][g] = outcome]
     ELSE UNCHANGED gate
  /\ UNCHANGED <<limit, run, slot, rows, bound, faults>>

BackgroundExits(r, g, k) ==
  /\ k \in tree[r][g] \ {"leader"}
  /\ tree' = [tree EXCEPT ![r][g] = @ \ {k}]
  /\ UNCHANGED <<limit, run, slot, rows, bound, gate, faults>>

Cancel(r) ==
  /\ Alive(r) /\ ~run[r].cancelled /\ faults < MaxFaults
  /\ faults' = faults + 1
  /\ run' = [run EXCEPT ![r].cancelled = TRUE]
  /\ UNCHANGED <<limit, slot, rows, bound, gate, tree>>

Crash(r) ==
  /\ Alive(r) /\ faults < MaxFaults
  /\ faults' = faults + 1
  /\ run' = [run EXCEPT ![r].at = "dead"]
  /\ UNCHANGED <<limit, slot, rows, bound, gate, tree>>

Admission(r) == \E p \in Partitions : Acquire(r, p) \/ GiveUp(r, p) \/ SettleKill(r, p) \/ Release(r, p)
Phase(r) ==
  \/ Close(r) \/ Leave(r)
  \/ \E g \in Gates : StartPending(r, g) \/ Launch(r, g) \/ Refuse(r, g) \/ Bind(r, g)
                      \/ Terminate(r, g) \/ SettleOutcome(r, g)
Commands(r, g) == LeaderExits(r, g) \/ \E k \in Processes : Fork(r, g, k) \/ BackgroundExits(r, g, k)

Next ==
  \E r \in Runs :
    \/ Begin(r) \/ Admission(r) \/ Phase(r) \/ Cancel(r) \/ Crash(r)
    \/ \E g \in Gates : BindFails(r, g) \/ Commands(r, g)

(* Every process goes on polling and settling, and gates end; what they    *)
(* leave in the background need not.                                       *)
Fairness ==
  \A r \in Runs : /\ WF_vars(Admission(r) \/ Phase(r))
                  /\ WF_vars(\E g \in Gates : LeaderExits(r, g))

Spec == Init /\ [][Next]_vars
FairSpec == Spec /\ Fairness

-----------------------------------------------------------------------------
(* A command is at work once it passed the pipe, until nothing is left of  *)
(* it.                                                                     *)
AtWork(r, g) == tree[r][g] # {} /\ gate[r][g] \notin {"guarded", "pending", "ready"}
Accounted(r, p, g) ==
  AtWork(r, g) /\ (p = Resource[g] \/ (p = "run" /\ tree[r][g] \ {"session"} # {}))

(* A command that is at work, or has left something at work in its group   *)
(* or, if it is tagged, anywhere, is in a run that has a lease of each     *)
(* partition concerned; crashes, cancellations and stale rows included.    *)
WorkIsAdmitted ==
  \A r \in Runs, g \in Gates, p \in Partitions : Accounted(r, p, g) => <<r, p>> \in rows

(* No more runs are at work in a partition than any of them allows, also   *)
(* where repositories with different capacities share it.                  *)
RunsAtWork(p) == {r \in Runs : \E g \in Gates : Accounted(r, p, g)}
CapacityIsKept ==
  \A p \in Partitions : \A r \in RunsAtWork(p) : Cardinality(RunsAtWork(p)) <= limit[r][p]

(* "A waiting run starts when the previous holder and its gate descendants *)
(* have settled", whatever the gates of the holder are tagged with.        *)
WholeRunsSettle ==
  "run" \in Partitions =>
    LET working == {r \in Runs : \E g \in Gates : AtWork(r, g)} IN
      \A r \in working : Cardinality(working) <= limit[r]["run"]

(* A cancelled run gives all its leases back and leaves, even when its     *)
(* gates left processes behind that would never end.                       *)
CancelSettles == \A r \in Runs : run[r].cancelled /\ Alive(r) ~> run[r].at \in {"ended", "dead"}

(* If there is time and again nothing left in the background, every run    *)
(* that waits ends: with gates that need resources in one order, no two    *)
(* runs wait for each other, and no dead owner keeps a slot.               *)
NoBackground == \A r \in Runs, g \in Gates : tree[r][g] \subseteq {"leader"}
EveryRunEnds ==
  []<>NoBackground => \A r \in Runs : run[r].at = "waiting" ~> run[r].at \in {"ended", "dead"}
=============================================================================
