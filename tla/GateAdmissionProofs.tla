------------------------- MODULE GateAdmissionProofs -------------------------
(***************************************************************************)
(* What GateAdmission promises for any number of runs, gates, resources    *)
(* and capacities: types, leases behind everything that is at work, and    *)
(* no more runs at work in a partition than any of them allows.            *)
(***************************************************************************)
EXTENDS GateAdmission, FiniteSetTheorems, TLAPS

Counted == {"held", "releasing"}
Over == {"off", "done"}

(* One conjunct of TypeOK per name, so that a step can be cited for it.     *)
RunOK == run \in [Runs -> [at : Places, cancelled : BOOLEAN, failed : BOOLEAN]]
SlotOK == slot \in [Runs -> [Partitions -> Slots]]
LeaseOK == rows \subseteq Runs \X Partitions /\ bound \subseteq Runs \X Gates
GateOK == gate \in [Runs -> [Gates -> Progress]]
TreeOK == tree \in [Runs -> [Gates -> SUBSET Processes]]
RestOK == limit \in Limits /\ faults \in 0..MaxFaults

(* How far the slots of a run are, by where the run is.                    *)
SlotsOf(r) ==
  /\ run[r].at = "idle" => \A p \in Partitions : slot[r][p] = "off"
  /\ run[r].at \in {"idle", "waiting"} => \A g \in Gates : gate[r][g] = "pending"
  /\ run[r].at = "waiting" =>
       "run" \in Partitions /\ \A p \in Partitions : slot[r][p] = IF p = "run" THEN "waiting" ELSE "off"
  /\ run[r].at = "running" /\ "run" \in Partitions => slot[r]["run"] = "held"
  /\ run[r].at = "closing" => ActiveGates(r) = {}
  /\ run[r].at = "closing" /\ "run" \in Partitions =>
       \/ slot[r]["run"] = "held"
       \/ slot[r]["run"] = "releasing" /\ \A p \in Partitions \ {"run"} : slot[r][p] \in Over
  /\ run[r].at = "ended" => \A p \in Partitions : slot[r][p] \in Over

(* A run that lives, or ended, has exactly the leases it knows of.         *)
LeasesOf(r) ==
  run[r].at # "dead" => \A p \in Partitions : <<r, p>> \in rows <=> slot[r][p] \in Counted

(* What is alive of a gate, by how far the gate is.                        *)
TreeOf(r, g) ==
  /\ gate[r][g] \in {"pending", "ready"} => tree[r][g] = {}
  /\ gate[r][g] = "guarded" => tree[r][g] \subseteq {"leader"}
  /\ gate[r][g] \notin {"pending", "ready", "guarded"} /\ tree[r][g] # {} => <<r, g>> \in bound

(* Something alive keeps the slots of a living run; of a dead one it keeps *)
(* the rows.                                                               *)
KeptBy(r, g) ==
  /\ run[r].at # "dead" /\ Resource[g] \in Partitions /\ tree[r][g] # {} => slot[r][Resource[g]] \in Counted
  /\ run[r].at # "dead" /\ "run" \in Partitions /\ tree[r][g] \ {"session"} # {} => slot[r]["run"] \in Counted
  /\ run[r].at = "dead" => \A p \in Partitions : Accounted(r, p, g) => <<r, p>> \in rows

(* The leases of a partition are no more than any of their holders allows. *)
Leased(p) == {r \in Runs : <<r, p>> \in rows}
Fair(p) == \A r \in Leased(p) : Cardinality(Leased(p)) <= limit[r][p]

Types == RunOK /\ SlotOK /\ LeaseOK /\ GateOK /\ TreeOK /\ RestOK

Inv ==
  /\ Types
  /\ \A r \in Runs : SlotsOf(r) /\ LeasesOf(r) /\ \A g \in Gates : TreeOf(r, g) /\ KeptBy(r, g)
  /\ \A p \in Partitions : Fair(p)

-----------------------------------------------------------------------------
LEMMA InvType == Inv => TypeOK
BY DEF Inv, Types, TypeOK, RunOK, SlotOK, LeaseOK, GateOK, TreeOK, RestOK, LeasesOf, Alive, Counted

(* Whatever is at work has its leases.                                     *)
LEMMA InvAdmitted == Inv => WorkIsAdmitted
<1> SUFFICES ASSUME Inv, NEW r \in Runs, NEW g \in Gates, NEW p \in Partitions, Accounted(r, p, g)
             PROVE  <<r, p>> \in rows
  BY DEF WorkIsAdmitted
<1>1. KeptBy(r, g) /\ LeasesOf(r)
  BY DEF Inv
<1>2. CASE run[r].at = "dead"
  BY <1>1, <1>2 DEF KeptBy
<1>3. CASE run[r].at # "dead"
  BY <1>1, <1>3 DEF KeptBy, LeasesOf, Accounted, AtWork
<1>4. QED
  BY <1>2, <1>3

LEMMA LimitType == Inv => \A r \in Runs, p \in Partitions : limit[r][p] \in Nat \ {0}
BY LimitAssumption DEF Inv, Types, RestOK

LEMMA LeasedFinite == \A p : IsFiniteSet(Leased(p)) /\ Cardinality(Leased(p)) \in Nat
BY RunsAssumption, FS_Subset, FS_CardinalityType DEF Leased

(* ... and so no partition is used beyond what any of its runs allows.     *)
LEMMA InvCapacity == Inv => CapacityIsKept
<1> SUFFICES ASSUME Inv, NEW p \in Partitions, NEW r \in RunsAtWork(p)
             PROVE  Cardinality(RunsAtWork(p)) <= limit[r][p]
  BY DEF CapacityIsKept
<1>1. RunsAtWork(p) \subseteq Leased(p)
  BY InvAdmitted DEF WorkIsAdmitted, RunsAtWork, Leased
<1>2. Cardinality(RunsAtWork(p)) <= Cardinality(Leased(p)) /\ Cardinality(RunsAtWork(p)) \in Nat
  BY <1>1, LeasedFinite, FS_Subset, FS_CardinalityType
<1>3. Cardinality(Leased(p)) <= limit[r][p]
  BY <1>1 DEF Inv, Fair
<1>4. limit[r][p] \in Nat
  BY LimitType DEF RunsAtWork
<1>5. QED
  BY <1>2, <1>3, <1>4, LeasedFinite

LEMMA InitInv == Init => Inv
<1> SUFFICES ASSUME Init
             PROVE  Inv
  OBVIOUS
<1>1. Types
  BY BoundsAssumption DEF Init, Types, RunOK, SlotOK, LeaseOK, GateOK, TreeOK, RestOK, Places, Slots, Progress
<1>2. ASSUME NEW r \in Runs
      PROVE  SlotsOf(r) /\ LeasesOf(r) /\ \A g \in Gates : TreeOf(r, g) /\ KeptBy(r, g)
  BY DEF Init, SlotsOf, LeasesOf, TreeOf, KeptBy, Counted
<1>3. ASSUME NEW p \in Partitions
      PROVE  Fair(p)
  BY DEF Init, Fair, Leased
<1>4. QED
  BY <1>1, <1>2, <1>3 DEF Inv

(* One field of a run's record changes.                                    *)
LEMMA RunTypes ==
  ASSUME RunOK, NEW r \in Runs
  PROVE  /\ \A at \in Places : run' = [run EXCEPT ![r].at = at] => RunOK'
         /\ run' = [run EXCEPT ![r].cancelled = TRUE] => RunOK'
         /\ run' = [run EXCEPT ![r].failed = TRUE] => RunOK'
         /\ UNCHANGED run => RunOK'
BY DEF RunOK

(* Rows that stay, or go, leave the partitions within their capacities.    *)
LEMMA FewerRows ==
  ASSUME Inv, rows' \subseteq rows, UNCHANGED limit
  PROVE  \A p \in Partitions : Fair(p)'
<1> SUFFICES ASSUME NEW p \in Partitions, NEW r \in Leased(p)'
             PROVE  Cardinality(Leased(p)') <= limit[r][p]
  BY DEF Fair
<1>1. Leased(p)' \subseteq Leased(p)
  BY DEF Leased
<1>2. Cardinality(Leased(p)') <= Cardinality(Leased(p)) /\ Cardinality(Leased(p)') \in Nat
  BY <1>1, LeasedFinite, FS_Subset, FS_CardinalityType
<1>3. Cardinality(Leased(p)) <= limit[r][p]
  BY <1>1 DEF Inv, Fair
<1>4. limit[r][p] \in Nat
  BY LimitType DEF Leased
<1>5. QED
  BY <1>2, <1>3, <1>4, LeasedFinite

LEMMA BeginInv ==
  ASSUME Inv, NEW r \in Runs, Begin(r)
  PROVE  Inv'
<1>1. Types'
  <2>1. RunOK'
    BY RunTypes DEF Inv, Types, Begin, Places
  <2>2. SlotOK'
    BY DEF Inv, Types, Begin, SlotOK, Slots
  <2>3. LeaseOK' /\ GateOK' /\ TreeOK'
    BY DEF Inv, Types, Begin, LeaseOK, GateOK, TreeOK
  <2>4. RestOK'
    BY BoundsAssumption DEF Inv, Types, Begin, RestOK
  <2>5. QED
    BY <2>1, <2>2, <2>3, <2>4 DEF Types
<1>2. ASSUME NEW q \in Runs
      PROVE  SlotsOf(q)' /\ LeasesOf(q)'
  <2>1. SlotsOf(q) /\ LeasesOf(q)
    BY DEF Inv
  <2>2. SlotsOf(q)'
    <3>1. CASE q # r
      BY <2>1, <3>1 DEF Inv, Types, RunOK, SlotOK, Begin, SlotsOf, ActiveGates
    <3>2. CASE q = r /\ "run" \in Partitions
      BY <2>1, <3>2 DEF Inv, Types, RunOK, SlotOK, Begin, SlotsOf
    <3>3. CASE q = r /\ "run" \notin Partitions
      BY <2>1, <3>3 DEF Inv, Types, RunOK, Begin, SlotsOf
    <3>4. QED
      BY <3>1, <3>2, <3>3
  <2>3. LeasesOf(q)'
    BY <2>1 DEF Inv, Types, RunOK, SlotOK, Begin, SlotsOf, LeasesOf, Counted
  <2>4. QED
    BY <2>2, <2>3
<1>3. ASSUME NEW q \in Runs, NEW h \in Gates
      PROVE  TreeOf(q, h)' /\ KeptBy(q, h)'
  <2>1. SlotsOf(q) /\ LeasesOf(q) /\ TreeOf(q, h) /\ KeptBy(q, h)
    BY DEF Inv
  <2>2. TreeOf(q, h)'
    BY <2>1 DEF Begin, TreeOf
  <2>3. KeptBy(q, h)'
    <3>1. CASE q = r
      <4>1. tree[q][h] = {}
        BY <2>1, <3>1 DEF Begin, SlotsOf, TreeOf
      <4>2. run'[q].at # "dead" /\ tree'[q][h] = {}
        BY <3>1, <4>1 DEF Inv, Types, RunOK, Begin
      <4>3. QED
        BY <4>2 DEF KeptBy
    <3>2. CASE q # r
      <4>1. run'[q] = run[q] /\ slot'[q] = slot[q]
        BY <3>2 DEF Inv, Types, RunOK, SlotOK, Begin
      <4>2. UNCHANGED <<rows, gate, tree>>
        BY DEF Begin
      <4>3. QED
        BY <2>1, <4>1, <4>2 DEF KeptBy, Accounted, AtWork
    <3>3. QED
      BY <3>1, <3>2
  <2>4. QED
    BY <2>2, <2>3
<1>4. \A p \in Partitions : Fair(p)'
  BY FewerRows DEF Begin
<1>5. QED
  BY <1>1, <1>2, <1>3, <1>4 DEF Inv

LEMMA GiveUpInv ==
  ASSUME Inv, NEW r \in Runs, NEW p \in Partitions, GiveUp(r, p)
  PROVE  Inv'
<1>1. Types'
  BY BoundsAssumption DEF Inv, Types, GiveUp, RunOK, SlotOK, LeaseOK, GateOK, TreeOK, RestOK, Places, Slots
<1>2. ASSUME NEW q \in Runs
      PROVE  SlotsOf(q)' /\ LeasesOf(q)'
  <2>1. SlotsOf(q) /\ LeasesOf(q)
    BY DEF Inv
  <2>2. SlotsOf(q)'
    BY <2>1 DEF Inv, Types, RunOK, SlotOK, GiveUp, SlotsOf, Over, Alive, ActiveGates
  <2>3. LeasesOf(q)'
    BY <2>1 DEF GiveUp, LeasesOf, Counted, Alive
  <2>4. QED
    BY <2>2, <2>3
<1>3. ASSUME NEW q \in Runs, NEW h \in Gates
      PROVE  TreeOf(q, h)' /\ KeptBy(q, h)'
  <2>1. SlotsOf(q) /\ LeasesOf(q) /\ TreeOf(q, h) /\ KeptBy(q, h)
    BY DEF Inv
  <2>2. TreeOf(q, h)'
    BY <2>1 DEF GiveUp, TreeOf
  <2>3. KeptBy(q, h)'
    BY <2>1 DEF GiveUp, KeptBy, Accounted, AtWork, Counted, Alive
  <2>4. QED
    BY <2>2, <2>3
<1>4. \A o \in Partitions : Fair(o)'
  BY FewerRows DEF GiveUp
<1>5. QED
  BY <1>1, <1>2, <1>3, <1>4 DEF Inv

LEMMA SettleKillInv ==
  ASSUME Inv, NEW r \in Runs, NEW p \in Partitions, SettleKill(r, p)
  PROVE  Inv'
<1>1. Types'
  BY BoundsAssumption DEF Inv, Types, SettleKill, RunOK, SlotOK, LeaseOK, GateOK, TreeOK, RestOK
<1>2. ASSUME NEW q \in Runs
      PROVE  SlotsOf(q)' /\ LeasesOf(q)'
  <2>1. SlotsOf(q) /\ LeasesOf(q)
    BY DEF Inv
  <2>2. SlotsOf(q)'
    BY <2>1 DEF SettleKill, SlotsOf, ActiveGates
  <2>3. LeasesOf(q)'
    BY <2>1 DEF SettleKill, LeasesOf
  <2>4. QED
    BY <2>2, <2>3
<1>3. ASSUME NEW q \in Runs, NEW h \in Gates
      PROVE  TreeOf(q, h)' /\ KeptBy(q, h)'
  <2>1. SlotsOf(q) /\ LeasesOf(q) /\ TreeOf(q, h) /\ KeptBy(q, h)
    BY DEF Inv
  <2>2. TreeOf(q, h)'
    BY <2>1 DEF SettleKill, TreeOf
  <2>3. KeptBy(q, h)'
    BY <2>1 DEF SettleKill, KeptBy, Accounted, AtWork
  <2>4. QED
    BY <2>2, <2>3
<1>4. \A o \in Partitions : Fair(o)'
  BY FewerRows DEF SettleKill
<1>5. QED
  BY <1>1, <1>2, <1>3, <1>4 DEF Inv

LEMMA ReleaseInv ==
  ASSUME Inv, NEW r \in Runs, NEW p \in Partitions, Release(r, p)
  PROVE  Inv'
<1>1. Types'
  BY BoundsAssumption DEF Inv, Types, Release, RunOK, SlotOK, LeaseOK, GateOK, TreeOK, RestOK, Places, Slots
<1>2. ASSUME NEW q \in Runs
      PROVE  SlotsOf(q)' /\ LeasesOf(q)'
  <2>1. SlotsOf(q) /\ LeasesOf(q)
    BY DEF Inv
  <2>2. SlotsOf(q)'
    BY <2>1 DEF Inv, Types, RunOK, SlotOK, Release, SlotsOf, Over, Alive, ActiveGates
  <2>3. LeasesOf(q)'
    BY <2>1 DEF Inv, Types, SlotOK, Release, LeasesOf, Counted, Alive
  <2>4. QED
    BY <2>2, <2>3
<1>3. ASSUME NEW q \in Runs, NEW h \in Gates
      PROVE  TreeOf(q, h)' /\ KeptBy(q, h)'
  <2>1. SlotsOf(q) /\ LeasesOf(q) /\ TreeOf(q, h) /\ KeptBy(q, h)
    BY DEF Inv
  <2>2. TreeOf(q, h)'
    BY <2>1 DEF Release, TreeOf
  <2>3. KeptBy(q, h)'
    <3>1. CASE q # r
      BY <2>1, <3>1 DEF Release, KeptBy, Accounted, AtWork
    <3>2. CASE q = r
      <4>1. /\ Seen(r, p, h) = {} /\ slot[r][p] = "releasing" /\ run'[r].at # "dead"
            /\ slot' = [slot EXCEPT ![r][p] = "done"] /\ UNCHANGED tree
        BY DEF Release, Settled, Alive
      <4>2. Resource[h] \in Partitions /\ tree[r][h] # {} => slot'[r][Resource[h]] \in Counted
        BY <2>1, <3>2, <4>1 DEF Release, Seen, KeptBy, Alive
      <4>3. "run" \in Partitions /\ tree[r][h] \ {"session"} # {} => slot'[r]["run"] \in Counted
        <5>1. CASE p # "run"
          BY <2>1, <3>2, <4>1, <5>1 DEF Release, KeptBy
        <5>2. CASE p = "run"
          <6>1. run[r].at = "closing"
            BY <2>1, <3>2, <4>1, <5>2 DEF Release, Alive, SlotsOf
          <6>2. gate[r][h] # "guarded"
            BY <2>1, <3>2, <6>1 DEF SlotsOf, ActiveGates, Active
          <6>3. tree[r][h] \ {"session"} = {}
            BY <2>1, <3>2, <4>1, <5>2, <6>2 DEF TreeOf, Seen
          <6>4. QED
            BY <6>3
        <5>3. QED
          BY <5>1, <5>2
      <4>4. QED
        BY <3>2, <4>1, <4>2, <4>3 DEF KeptBy
    <3>3. QED
      BY <3>1, <3>2
  <2>4. QED
    BY <2>2, <2>3
<1>4. \A o \in Partitions : Fair(o)'
  BY FewerRows DEF Release
<1>5. QED
  BY <1>1, <1>2, <1>3, <1>4 DEF Inv

LEMMA StartPendingInv ==
  ASSUME Inv, NEW r \in Runs, NEW g \in Gates, StartPending(r, g)
  PROVE  Inv'
<1>1. Types'
  BY BoundsAssumption, PlanAssumption
    DEF Inv, Types, StartPending, RunOK, SlotOK, LeaseOK, GateOK, TreeOK, RestOK, Slots, Progress
<1>2. ASSUME NEW q \in Runs
      PROVE  SlotsOf(q)' /\ LeasesOf(q)'
  <2>1. SlotsOf(q) /\ LeasesOf(q)
    BY DEF Inv
  <2>2. SlotsOf(q)'
    BY <2>1, PlanAssumption DEF StartPending, SlotsOf, ActiveGates
  <2>3. LeasesOf(q)'
    BY <2>1, PlanAssumption DEF StartPending, LeasesOf, Counted
  <2>4. QED
    BY <2>2, <2>3
<1>3. ASSUME NEW q \in Runs, NEW h \in Gates
      PROVE  TreeOf(q, h)' /\ KeptBy(q, h)'
  <2>1. SlotsOf(q) /\ LeasesOf(q) /\ TreeOf(q, h) /\ KeptBy(q, h)
    BY DEF Inv
  <2>2. TreeOf(q, h)'
    BY <2>1, PlanAssumption DEF StartPending, TreeOf
  <2>3. KeptBy(q, h)'
    BY <2>1, PlanAssumption DEF StartPending, KeptBy, Accounted, AtWork, Counted
  <2>4. QED
    BY <2>2, <2>3
<1>4. \A p \in Partitions : Fair(p)'
  BY FewerRows DEF StartPending
<1>5. QED
  BY <1>1, <1>2, <1>3, <1>4 DEF Inv

LEMMA LaunchInv ==
  ASSUME Inv, NEW r \in Runs, NEW g \in Gates, Launch(r, g)
  PROVE  Inv'
<1>1. Types'
  BY BoundsAssumption, PlanAssumption
    DEF Inv, Types, Launch, RunOK, SlotOK, LeaseOK, GateOK, TreeOK, RestOK, Progress, Processes
<1>2. ASSUME NEW q \in Runs
      PROVE  SlotsOf(q)' /\ LeasesOf(q)'
  <2>1. SlotsOf(q) /\ LeasesOf(q)
    BY DEF Inv
  <2>2. SlotsOf(q)'
    BY <2>1, PlanAssumption DEF Launch, SlotsOf, ActiveGates
  <2>3. LeasesOf(q)'
    BY <2>1, PlanAssumption DEF Launch, LeasesOf
  <2>4. QED
    BY <2>2, <2>3
<1>3. ASSUME NEW q \in Runs, NEW h \in Gates
      PROVE  TreeOf(q, h)' /\ KeptBy(q, h)'
  <2>1. SlotsOf(q) /\ LeasesOf(q) /\ TreeOf(q, h) /\ KeptBy(q, h)
    BY DEF Inv
  <2>2. TreeOf(q, h)'
    BY <2>1, PlanAssumption DEF Inv, Types, GateOK, Launch, TreeOf
  <2>3. KeptBy(q, h)'
    BY <2>1, PlanAssumption DEF Launch, SlotsOf, KeptBy, Accounted, AtWork, Counted, Tagged
  <2>4. QED
    BY <2>2, <2>3
<1>4. \A p \in Partitions : Fair(p)'
  BY FewerRows DEF Launch
<1>5. QED
  BY <1>1, <1>2, <1>3, <1>4 DEF Inv

LEMMA RefuseInv ==
  ASSUME Inv, NEW r \in Runs, NEW g \in Gates, Refuse(r, g)
  PROVE  Inv'
<1>1. Types'
  BY BoundsAssumption, PlanAssumption
    DEF Inv, Types, Refuse, RunOK, SlotOK, LeaseOK, GateOK, TreeOK, RestOK, Progress
<1>2. ASSUME NEW q \in Runs
      PROVE  SlotsOf(q)' /\ LeasesOf(q)'
  <2>1. SlotsOf(q) /\ LeasesOf(q)
    BY DEF Inv
  <2>2. SlotsOf(q)'
    BY <2>1, PlanAssumption DEF Refuse, SlotsOf, ActiveGates
  <2>3. LeasesOf(q)'
    BY <2>1, PlanAssumption DEF Refuse, LeasesOf
  <2>4. QED
    BY <2>2, <2>3
<1>3. ASSUME NEW q \in Runs, NEW h \in Gates
      PROVE  TreeOf(q, h)' /\ KeptBy(q, h)'
  <2>1. SlotsOf(q) /\ LeasesOf(q) /\ TreeOf(q, h) /\ KeptBy(q, h)
    BY DEF Inv
  <2>2. TreeOf(q, h)'
    BY <2>1, PlanAssumption DEF Refuse, TreeOf
  <2>3. KeptBy(q, h)'
    BY <2>1, PlanAssumption DEF Refuse, KeptBy, Accounted, AtWork
  <2>4. QED
    BY <2>2, <2>3
<1>4. \A p \in Partitions : Fair(p)'
  BY FewerRows DEF Refuse
<1>5. QED
  BY <1>1, <1>2, <1>3, <1>4 DEF Inv

LEMMA BindInv ==
  ASSUME Inv, NEW r \in Runs, NEW g \in Gates, Bind(r, g)
  PROVE  Inv'
<1>1. Types'
  BY BoundsAssumption DEF Inv, Types, Bind, RunOK, SlotOK, LeaseOK, GateOK, TreeOK, RestOK, Progress
<1>2. ASSUME NEW q \in Runs
      PROVE  SlotsOf(q)' /\ LeasesOf(q)'
  <2>1. SlotsOf(q) /\ LeasesOf(q)
    BY DEF Inv
  <2>2. SlotsOf(q)'
    BY <2>1 DEF Bind, SlotsOf, ActiveGates
  <2>3. LeasesOf(q)'
    BY <2>1 DEF Bind, LeasesOf
  <2>4. QED
    BY <2>2, <2>3
<1>3. ASSUME NEW q \in Runs, NEW h \in Gates
      PROVE  TreeOf(q, h)' /\ KeptBy(q, h)'
  <2>1. SlotsOf(q) /\ LeasesOf(q) /\ TreeOf(q, h) /\ KeptBy(q, h)
    BY DEF Inv
  <2>2. TreeOf(q, h)'
    BY <2>1 DEF Bind, TreeOf
  <2>3. KeptBy(q, h)'
    BY <2>1 DEF Bind, KeptBy, Accounted, AtWork
  <2>4. QED
    BY <2>2, <2>3
<1>4. \A p \in Partitions : Fair(p)'
  BY FewerRows DEF Bind
<1>5. QED
  BY <1>1, <1>2, <1>3, <1>4 DEF Inv

LEMMA BindFailsInv ==
  ASSUME Inv, NEW r \in Runs, NEW g \in Gates, BindFails(r, g)
  PROVE  Inv'
<1>1. Types'
  BY BoundsAssumption DEF Inv, Types, BindFails, RunOK, SlotOK, LeaseOK, GateOK, TreeOK, RestOK, Progress
<1>2. ASSUME NEW q \in Runs
      PROVE  SlotsOf(q)' /\ LeasesOf(q)'
  <2>1. SlotsOf(q) /\ LeasesOf(q)
    BY DEF Inv
  <2>2. SlotsOf(q)'
    BY <2>1 DEF BindFails, SlotsOf, ActiveGates
  <2>3. LeasesOf(q)'
    BY <2>1 DEF BindFails, LeasesOf
  <2>4. QED
    BY <2>2, <2>3
<1>3. ASSUME NEW q \in Runs, NEW h \in Gates
      PROVE  TreeOf(q, h)' /\ KeptBy(q, h)'
  <2>1. SlotsOf(q) /\ LeasesOf(q) /\ TreeOf(q, h) /\ KeptBy(q, h)
    BY DEF Inv
  <2>2. TreeOf(q, h)'
    BY <2>1 DEF Inv, Types, TreeOK, BindFails, TreeOf
  <2>3. KeptBy(q, h)'
    BY <2>1 DEF BindFails, KeptBy, Accounted, AtWork
  <2>4. QED
    BY <2>2, <2>3
<1>4. \A p \in Partitions : Fair(p)'
  BY FewerRows DEF BindFails
<1>5. QED
  BY <1>1, <1>2, <1>3, <1>4 DEF Inv

LEMMA TerminateInv ==
  ASSUME Inv, NEW r \in Runs, NEW g \in Gates, Terminate(r, g)
  PROVE  Inv'
<1> PICK over \in {{"leader"}, {"leader", "group"}} : tree' = [tree EXCEPT ![r][g] = @ \ over]
  BY DEF Terminate
<1>1. Types'
  BY BoundsAssumption DEF Inv, Types, Terminate, RunOK, SlotOK, LeaseOK, GateOK, TreeOK, RestOK, Progress
<1>2. ASSUME NEW q \in Runs
      PROVE  SlotsOf(q)' /\ LeasesOf(q)'
  <2>1. SlotsOf(q) /\ LeasesOf(q)
    BY DEF Inv
  <2>2. SlotsOf(q)'
    BY <2>1 DEF Terminate, SlotsOf, ActiveGates
  <2>3. LeasesOf(q)'
    BY <2>1 DEF Terminate, LeasesOf
  <2>4. QED
    BY <2>2, <2>3
<1>3. ASSUME NEW q \in Runs, NEW h \in Gates
      PROVE  TreeOf(q, h)' /\ KeptBy(q, h)'
  <2>1. SlotsOf(q) /\ LeasesOf(q) /\ TreeOf(q, h) /\ KeptBy(q, h)
    BY DEF Inv
  <2>2. TreeOf(q, h)'
    BY <2>1 DEF Inv, Types, TreeOK, Terminate, TreeOf
  <2>3. KeptBy(q, h)'
    BY <2>1 DEF Terminate, KeptBy, Accounted, AtWork
  <2>4. QED
    BY <2>2, <2>3
<1>4. \A p \in Partitions : Fair(p)'
  BY FewerRows DEF Terminate
<1>5. QED
  BY <1>1, <1>2, <1>3, <1>4 DEF Inv

LEMMA SettleOutcomeInv ==
  ASSUME Inv, NEW r \in Runs, NEW g \in Gates, SettleOutcome(r, g)
  PROVE  Inv'
<1>1. Types'
  BY BoundsAssumption, PlanAssumption
    DEF Inv, Types, SettleOutcome, RunOK, SlotOK, LeaseOK, GateOK, TreeOK, RestOK, Slots, Progress
<1>2. ASSUME NEW q \in Runs
      PROVE  SlotsOf(q)' /\ LeasesOf(q)'
  <2>1. SlotsOf(q) /\ LeasesOf(q)
    BY DEF Inv
  <2>2. SlotsOf(q)'
    BY <2>1, PlanAssumption DEF SettleOutcome, SlotsOf, ActiveGates, Tagged
  <2>3. LeasesOf(q)'
    BY <2>1, PlanAssumption DEF SettleOutcome, LeasesOf, Counted
  <2>4. QED
    BY <2>2, <2>3
<1>3. ASSUME NEW q \in Runs, NEW h \in Gates
      PROVE  TreeOf(q, h)' /\ KeptBy(q, h)'
  <2>1. SlotsOf(q) /\ LeasesOf(q) /\ TreeOf(q, h) /\ KeptBy(q, h)
    BY DEF Inv
  <2>2. TreeOf(q, h)'
    BY <2>1, PlanAssumption DEF SettleOutcome, TreeOf
  <2>3. KeptBy(q, h)'
    BY <2>1, PlanAssumption DEF SettleOutcome, KeptBy, Accounted, AtWork, Counted
  <2>4. QED
    BY <2>2, <2>3
<1>4. \A p \in Partitions : Fair(p)'
  BY FewerRows DEF SettleOutcome
<1>5. QED
  BY <1>1, <1>2, <1>3, <1>4 DEF Inv

LEMMA LeaderExitsInv ==
  ASSUME Inv, NEW r \in Runs, NEW g \in Gates, LeaderExits(r, g)
  PROVE  Inv'
<1>1. Types'
  <2>1. GateOK'
    BY DEF Inv, Types, LeaderExits, GateOK, Progress
  <2>2. TreeOK'
    BY DEF Inv, Types, LeaderExits, TreeOK
  <2>3. RunOK' /\ SlotOK' /\ LeaseOK' /\ RestOK'
    BY DEF Inv, Types, LeaderExits, RunOK, SlotOK, LeaseOK, RestOK
  <2>4. QED
    BY <2>1, <2>2, <2>3 DEF Types
<1>2. ASSUME NEW q \in Runs
      PROVE  SlotsOf(q)' /\ LeasesOf(q)'
  <2>1. SlotsOf(q) /\ LeasesOf(q)
    BY DEF Inv
  <2>2. SlotsOf(q)'
    <3>1. UNCHANGED <<run, slot, gate>> => SlotsOf(q)'
      BY <2>1 DEF SlotsOf, ActiveGates
    <3>2. CASE run[r].at = "running" /\ q = r
      BY <2>1, <3>2 DEF LeaderExits, SlotsOf
    <3>3. CASE q # r
      <4>1. run'[q] = run[q] /\ slot'[q] = slot[q] /\ gate'[q] = gate[q]
        BY <3>3 DEF Inv, Types, GateOK, LeaderExits
      <4>2. QED
        BY <2>1, <4>1 DEF SlotsOf, ActiveGates
    <3>4. QED
      BY <3>1, <3>2, <3>3 DEF LeaderExits
  <2>3. LeasesOf(q)'
    BY <2>1 DEF LeaderExits, LeasesOf
  <2>4. QED
    BY <2>2, <2>3
<1>3. ASSUME NEW q \in Runs, NEW h \in Gates
      PROVE  TreeOf(q, h)' /\ KeptBy(q, h)'
  <2>1. SlotsOf(q) /\ LeasesOf(q) /\ TreeOf(q, h) /\ KeptBy(q, h)
    BY DEF Inv
  <2>2. TreeOf(q, h)'
    BY <2>1 DEF Inv, Types, GateOK, LeaderExits, TreeOf
  <2>3. KeptBy(q, h)'
    BY <2>1 DEF Inv, Types, GateOK, LeaderExits, KeptBy, Accounted, AtWork
  <2>4. QED
    BY <2>2, <2>3
<1>4. \A p \in Partitions : Fair(p)'
  BY FewerRows DEF LeaderExits
<1>5. QED
  BY <1>1, <1>2, <1>3, <1>4 DEF Inv

LEMMA ForkInv ==
  ASSUME Inv, NEW r \in Runs, NEW g \in Gates, NEW k \in Processes, Fork(r, g, k)
  PROVE  Inv'
<1>1. Types'
  BY BoundsAssumption DEF Inv, Types, Fork, RunOK, SlotOK, LeaseOK, GateOK, TreeOK, RestOK
<1>2. ASSUME NEW q \in Runs
      PROVE  SlotsOf(q)' /\ LeasesOf(q)'
  <2>1. SlotsOf(q) /\ LeasesOf(q)
    BY DEF Inv
  <2>2. SlotsOf(q)'
    BY <2>1 DEF Fork, SlotsOf, ActiveGates
  <2>3. LeasesOf(q)'
    BY <2>1 DEF Fork, LeasesOf
  <2>4. QED
    BY <2>2, <2>3
<1>3. ASSUME NEW q \in Runs, NEW h \in Gates
      PROVE  TreeOf(q, h)' /\ KeptBy(q, h)'
  <2>1. SlotsOf(q) /\ LeasesOf(q) /\ TreeOf(q, h) /\ KeptBy(q, h)
    BY DEF Inv
  <2>2. TreeOf(q, h)'
    BY <2>1 DEF TreeOK, Fork, TreeOf
  <2>3. KeptBy(q, h)'
    <3>1. CASE q # r \/ h # g
      <4>1. tree'[q][h] = tree[q][h] /\ UNCHANGED <<run, slot, rows, gate>>
        BY <3>1 DEF Inv, Types, TreeOK, Fork
      <4>2. QED
        BY <2>1, <4>1 DEF KeptBy, Accounted, AtWork
    <3>2. CASE q = r /\ h = g
      <4>1. tree[q][h] \ {"session"} # {} /\ gate[q][h] = "running" /\ UNCHANGED <<run, slot, rows, gate>>
        BY <3>2 DEF Fork
      <4>2. \A p \in Partitions : Accounted(q, p, h)' => Accounted(q, p, h)
        BY <4>1 DEF Accounted, AtWork
      <4>3. QED
        BY <2>1, <4>1, <4>2 DEF KeptBy
    <3>3. QED
      BY <3>1, <3>2
  <2>4. QED
    BY <2>2, <2>3
<1>4. \A p \in Partitions : Fair(p)'
  BY FewerRows DEF Fork
<1>5. QED
  BY <1>1, <1>2, <1>3, <1>4 DEF Inv

LEMMA BackgroundExitsInv ==
  ASSUME Inv, NEW r \in Runs, NEW g \in Gates, NEW k \in Processes, BackgroundExits(r, g, k)
  PROVE  Inv'
<1>1. Types'
  BY BoundsAssumption DEF Inv, Types, BackgroundExits, RunOK, SlotOK, LeaseOK, GateOK, TreeOK, RestOK
<1>2. ASSUME NEW q \in Runs
      PROVE  SlotsOf(q)' /\ LeasesOf(q)'
  <2>1. SlotsOf(q) /\ LeasesOf(q)
    BY DEF Inv
  <2>2. SlotsOf(q)'
    BY <2>1 DEF BackgroundExits, SlotsOf, ActiveGates
  <2>3. LeasesOf(q)'
    BY <2>1 DEF BackgroundExits, LeasesOf
  <2>4. QED
    BY <2>2, <2>3
<1>3. ASSUME NEW q \in Runs, NEW h \in Gates
      PROVE  TreeOf(q, h)' /\ KeptBy(q, h)'
  <2>1. SlotsOf(q) /\ LeasesOf(q) /\ TreeOf(q, h) /\ KeptBy(q, h)
    BY DEF Inv
  <2>2. TreeOf(q, h)'
    BY <2>1 DEF BackgroundExits, TreeOf
  <2>3. KeptBy(q, h)'
    BY <2>1 DEF BackgroundExits, KeptBy, Accounted, AtWork
  <2>4. QED
    BY <2>2, <2>3
<1>4. \A p \in Partitions : Fair(p)'
  BY FewerRows DEF BackgroundExits
<1>5. QED
  BY <1>1, <1>2, <1>3, <1>4 DEF Inv

LEMMA CloseInv ==
  ASSUME Inv, NEW r \in Runs, Close(r)
  PROVE  Inv'
<1>1. Types'
  BY BoundsAssumption DEF Inv, Types, Close, RunOK, SlotOK, LeaseOK, GateOK, TreeOK, RestOK, Places, Slots
<1>2. ASSUME NEW q \in Runs
      PROVE  SlotsOf(q)' /\ LeasesOf(q)'
  <2>1. SlotsOf(q) /\ LeasesOf(q)
    BY DEF Inv
  <2>2. SlotsOf(q)'
    BY <2>1 DEF Close, SlotsOf, ActiveGates
  <2>3. LeasesOf(q)'
    BY <2>1 DEF Close, LeasesOf, Counted
  <2>4. QED
    BY <2>2, <2>3
<1>3. ASSUME NEW q \in Runs, NEW h \in Gates
      PROVE  TreeOf(q, h)' /\ KeptBy(q, h)'
  <2>1. SlotsOf(q) /\ LeasesOf(q) /\ TreeOf(q, h) /\ KeptBy(q, h)
    BY DEF Inv
  <2>2. TreeOf(q, h)'
    BY <2>1 DEF Close, TreeOf
  <2>3. KeptBy(q, h)'
    BY <2>1 DEF Close, KeptBy, Accounted, AtWork, Counted
  <2>4. QED
    BY <2>2, <2>3
<1>4. \A p \in Partitions : Fair(p)'
  BY FewerRows DEF Close
<1>5. QED
  BY <1>1, <1>2, <1>3, <1>4 DEF Inv

LEMMA LeaveInv ==
  ASSUME Inv, NEW r \in Runs, Leave(r)
  PROVE  Inv'
<1>1. Types'
  <2>1. RunOK'
    BY RunTypes DEF Inv, Types, Leave, Places
  <2>2. SlotOK'
    BY DEF Inv, Types, Leave, SlotOK, Slots
  <2>3. LeaseOK' /\ GateOK' /\ TreeOK'
    BY DEF Inv, Types, Leave, LeaseOK, GateOK, TreeOK
  <2>4. RestOK'
    BY BoundsAssumption DEF Inv, Types, Leave, RestOK
  <2>5. QED
    BY <2>1, <2>2, <2>3, <2>4 DEF Types
<1>2. ASSUME NEW q \in Runs
      PROVE  SlotsOf(q)' /\ LeasesOf(q)'
  <2>1. SlotsOf(q) /\ LeasesOf(q)
    BY DEF Inv
  <2>2. SlotsOf(q)'
    BY <2>1 DEF Inv, Types, RunOK, SlotOK, Leave, SlotsOf, Over, ActiveGates
  <2>3. LeasesOf(q)'
    BY <2>1 DEF Inv, Types, RunOK, SlotOK, Leave, SlotsOf, LeasesOf, Counted
  <2>4. QED
    BY <2>2, <2>3
<1>3. ASSUME NEW q \in Runs, NEW h \in Gates
      PROVE  TreeOf(q, h)' /\ KeptBy(q, h)'
  <2>1. SlotsOf(q) /\ LeasesOf(q) /\ TreeOf(q, h) /\ KeptBy(q, h)
    BY DEF Inv
  <2>2. TreeOf(q, h)'
    BY <2>1 DEF Leave, TreeOf
  <2>3. KeptBy(q, h)'
    <3>1. /\ run'[q].at # "dead" <=> run[q].at # "dead"
          /\ \A p \in Partitions : slot[q][p] \in Counted => slot'[q][p] \in Counted
      BY DEF Inv, Types, RunOK, SlotOK, Leave, Counted
    <3>2. UNCHANGED <<rows, gate, tree>>
      BY DEF Leave
    <3>3. QED
      BY <2>1, <3>1, <3>2 DEF KeptBy, Accounted, AtWork
  <2>4. QED
    BY <2>2, <2>3
<1>4. \A p \in Partitions : Fair(p)'
  BY FewerRows DEF Leave
<1>5. QED
  BY <1>1, <1>2, <1>3, <1>4 DEF Inv

LEMMA CancelInv ==
  ASSUME Inv, NEW r \in Runs, Cancel(r)
  PROVE  Inv'
<1>1. Types'
  <2>1. RunOK'
    BY RunTypes DEF Inv, Types, Cancel, Places
  <2>2. SlotOK'
    BY DEF Inv, Types, Cancel, SlotOK, Slots
  <2>3. LeaseOK' /\ GateOK' /\ TreeOK'
    BY DEF Inv, Types, Cancel, LeaseOK, GateOK, TreeOK
  <2>4. RestOK'
    BY BoundsAssumption DEF Inv, Types, Cancel, RestOK
  <2>5. QED
    BY <2>1, <2>2, <2>3, <2>4 DEF Types
<1>2. ASSUME NEW q \in Runs
      PROVE  SlotsOf(q)' /\ LeasesOf(q)'
  <2>1. SlotsOf(q) /\ LeasesOf(q)
    BY DEF Inv
  <2>2. SlotsOf(q)'
    BY <2>1 DEF Cancel, SlotsOf, ActiveGates
  <2>3. LeasesOf(q)'
    BY <2>1 DEF Cancel, LeasesOf
  <2>4. QED
    BY <2>2, <2>3
<1>3. ASSUME NEW q \in Runs, NEW h \in Gates
      PROVE  TreeOf(q, h)' /\ KeptBy(q, h)'
  <2>1. SlotsOf(q) /\ LeasesOf(q) /\ TreeOf(q, h) /\ KeptBy(q, h)
    BY DEF Inv
  <2>2. TreeOf(q, h)'
    BY <2>1 DEF Cancel, TreeOf
  <2>3. KeptBy(q, h)'
    BY <2>1 DEF Cancel, KeptBy, Accounted, AtWork
  <2>4. QED
    BY <2>2, <2>3
<1>4. \A p \in Partitions : Fair(p)'
  BY FewerRows DEF Cancel
<1>5. QED
  BY <1>1, <1>2, <1>3, <1>4 DEF Inv

LEMMA CrashInv ==
  ASSUME Inv, NEW r \in Runs, Crash(r)
  PROVE  Inv'
<1>1. Types'
  <2>1. RunOK'
    BY RunTypes DEF Inv, Types, Crash, Places
  <2>2. SlotOK'
    BY DEF Inv, Types, Crash, SlotOK, Slots
  <2>3. LeaseOK' /\ GateOK' /\ TreeOK'
    BY DEF Inv, Types, Crash, LeaseOK, GateOK, TreeOK
  <2>4. RestOK'
    BY BoundsAssumption DEF Inv, Types, Crash, RestOK
  <2>5. QED
    BY <2>1, <2>2, <2>3, <2>4 DEF Types
<1>2. ASSUME NEW q \in Runs
      PROVE  SlotsOf(q)' /\ LeasesOf(q)'
  <2>1. SlotsOf(q) /\ LeasesOf(q)
    BY DEF Inv
  <2>2. SlotsOf(q)'
    BY <2>1 DEF Crash, SlotsOf, ActiveGates
  <2>3. LeasesOf(q)'
    BY <2>1 DEF Crash, LeasesOf
  <2>4. QED
    BY <2>2, <2>3
<1>3. ASSUME NEW q \in Runs, NEW h \in Gates
      PROVE  TreeOf(q, h)' /\ KeptBy(q, h)'
  <2>1. SlotsOf(q) /\ LeasesOf(q) /\ TreeOf(q, h) /\ KeptBy(q, h)
    BY DEF Inv
  <2>2. TreeOf(q, h)'
    BY <2>1 DEF Crash, TreeOf
  <2>3. KeptBy(q, h)'
    BY <2>1 DEF Crash, LeasesOf, KeptBy, Accounted, AtWork
  <2>4. QED
    BY <2>2, <2>3
<1>4. \A p \in Partitions : Fair(p)'
  BY FewerRows DEF Crash
<1>5. QED
  BY <1>1, <1>2, <1>3, <1>4 DEF Inv

-----------------------------------------------------------------------------
(* An admission takes the rows of abandoned owners back and adds its own.  *)

LEMMA SeenWhenAccounted ==
  ASSUME NEW r \in Runs, NEW p \in Partitions, NEW g \in Gates, TreeOf(r, g), Accounted(r, p, g)
  PROVE  ~Abandoned(r, p)
BY DEF TreeOf, Accounted, AtWork, Abandoned, Settled, Seen

LEMMA AcquiredRows ==
  ASSUME Inv, NEW r \in Runs, NEW p \in Partitions, Acquire(r, p)
  PROVE  /\ rows' \subseteq Runs \X Partitions
         /\ \A q \in Runs, o \in Partitions :
              <<q, o>> \in rows' <=> (q = r /\ o = p) \/ (<<q, o>> \in rows /\ (o = p => ~Abandoned(q, p)))
<1>1. rows \subseteq Runs \X Partitions
  BY DEF Inv, Types, LeaseOK
<1>2. rows' = {x \in rows : x[2] = p => x[1] \in Holders(p)} \cup {<<r, p>>}
  BY DEF Acquire
<1>3. ASSUME NEW q \in Runs, NEW o \in Partitions
      PROVE  <<q, o>> \in rows' <=> (q = r /\ o = p) \/ (<<q, o>> \in rows /\ (o = p => ~Abandoned(q, p)))
  <2>1. <<q, o>>[1] = q /\ <<q, o>>[2] = o /\ (<<q, o>> = <<r, p>> <=> q = r /\ o = p)
    OBVIOUS
  <2>2. <<q, o>> \in rows' <=> (<<q, o>> \in rows /\ (o = p => q \in Holders(p))) \/ <<q, o>> = <<r, p>>
    BY <1>2, <2>1
  <2>3. q \in Holders(p) <=> <<q, p>> \in rows /\ ~Abandoned(q, p)
    BY DEF Holders
  <2>4. CASE o = p
    <3>1. <<q, p>> \in rows' <=> (<<q, p>> \in rows /\ q \in Holders(p)) \/ q = r
      BY <2>1, <2>2, <2>4
    <3>2. <<q, p>> \in rows' <=> q = r \/ (<<q, p>> \in rows /\ ~Abandoned(q, p))
      BY <2>3, <3>1
    <3>3. QED
      BY <2>4, <3>2
  <2>5. CASE o # p
    BY <2>1, <2>2, <2>5
  <2>6. QED
    BY <2>4, <2>5
<1>4. QED
  BY <1>1, <1>2, <1>3

LEMMA AcquiredFair ==
  ASSUME Inv, NEW r \in Runs, NEW p \in Partitions, Acquire(r, p), NEW o \in Partitions
  PROVE  Fair(o)'
<1>1. UNCHANGED limit
  BY DEF Acquire
<1>2. CASE o # p
  <2>1. Leased(o)' = Leased(o)
    BY <1>2, AcquiredRows DEF Leased
  <2>2. QED
    BY <1>1, <2>1 DEF Inv, Fair
<1>3. CASE o = p
  <2>1. Leased(p)' = Holders(p) \cup {r}
    <3>1. \A q \in Runs : <<q, p>> \in rows' <=> q = r \/ q \in Holders(p)
      <4>1. SUFFICES ASSUME NEW q \in Runs
                     PROVE  <<q, p>> \in rows' <=> q = r \/ q \in Holders(p)
        OBVIOUS
      <4>2. <<q, p>> \in rows' <=> q = r \/ (<<q, p>> \in rows /\ ~Abandoned(q, p))
        BY AcquiredRows DEF Abandoned, Settled
      <4>3. q \in Holders(p) <=> <<q, p>> \in rows /\ ~Abandoned(q, p)
        BY DEF Holders
      <4>4. QED
        BY <4>2, <4>3
    <3>2. Holders(p) \subseteq Runs /\ Leased(p)' = {q \in Runs : <<q, p>> \in rows'}
      BY DEF Holders, Leased
    <3>3. QED
      BY <3>1, <3>2
  <2>2. IsFiniteSet(Holders(p))
    BY RunsAssumption, FS_Subset DEF Holders
  <2>3. Cardinality(Holders(p) \cup {r}) \in Nat /\ Cardinality(Holders(p) \cup {r}) <= Cardinality(Holders(p)) + 1
        /\ Cardinality(Holders(p)) \in Nat
    BY <2>2, FS_AddElement, FS_CardinalityType
  <2>4. \A q \in Holders(p) \cup {r} : Cardinality(Holders(p)) < limit[q][p] /\ limit[q][p] \in Nat
    BY LimitType DEF Acquire, Admissible, Holders
  <2>5. \A q \in Holders(p) \cup {r} : Cardinality(Holders(p) \cup {r}) <= limit[q][p]
    BY <2>3, <2>4
  <2>6. QED
    BY <1>1, <1>3, <2>1, <2>5 DEF Fair
<1>4. QED
  BY <1>2, <1>3

LEMMA AcquireInv ==
  ASSUME Inv, NEW r \in Runs, NEW p \in Partitions, Acquire(r, p)
  PROVE  Inv'
<1>1. Types'
  <2>1. RunOK'
    BY RunTypes DEF Inv, Types, Acquire, Places
  <2>2. SlotOK'
    BY DEF Inv, Types, Acquire, SlotOK, Slots
  <2>3. LeaseOK' /\ GateOK' /\ TreeOK' /\ RestOK'
    BY AcquiredRows DEF Inv, Types, Acquire, LeaseOK, GateOK, TreeOK, RestOK
  <2>4. QED
    BY <2>1, <2>2, <2>3 DEF Types
<1>2. ASSUME NEW q \in Runs
      PROVE  SlotsOf(q)' /\ LeasesOf(q)'
  <2>1. SlotsOf(q) /\ LeasesOf(q)
    BY DEF Inv
  <2>2. SlotsOf(q)'
    BY <2>1 DEF Inv, Types, RunOK, SlotOK, Acquire, SlotsOf, Over, ActiveGates
  <2>3. LeasesOf(q)'
    <3>1. CASE q # r
      <4>1. run'[q] = run[q] /\ slot'[q] = slot[q]
        BY <3>1 DEF Inv, Types, RunOK, SlotOK, Acquire
      <4>2. ASSUME run[q].at # "dead", NEW o \in Partitions
            PROVE  <<q, o>> \in rows' <=> <<q, o>> \in rows
        BY <3>1, <4>2, AcquiredRows DEF Abandoned
      <4>3. QED
        BY <2>1, <4>1, <4>2 DEF LeasesOf
    <3>2. CASE q = r
      BY <2>1, <3>2, AcquiredRows DEF Inv, Types, SlotOK, Acquire, LeasesOf, Counted, Alive
    <3>3. QED
      BY <3>1, <3>2
  <2>4. QED
    BY <2>2, <2>3
<1>3. ASSUME NEW q \in Runs, NEW h \in Gates
      PROVE  TreeOf(q, h)' /\ KeptBy(q, h)'
  <2>1. TreeOf(q, h) /\ KeptBy(q, h)
    BY DEF Inv
  <2>2. TreeOf(q, h)'
    BY <2>1 DEF Acquire, TreeOf
  <2>3. /\ run'[q].at = "dead" <=> run[q].at = "dead"
        /\ \A o \in Partitions : slot[q][o] \in Counted => slot'[q][o] \in Counted
    BY DEF Acquire, Alive, Counted
  <2>4. \A o \in Partitions : Accounted(q, o, h)' = Accounted(q, o, h)
    BY DEF Acquire, Accounted, AtWork
  <2>5. ASSUME run[q].at = "dead", NEW o \in Partitions, Accounted(q, o, h)
        PROVE  <<q, o>> \in rows'
    <3>1. <<q, o>> \in rows
      BY <2>1, <2>5 DEF KeptBy
    <3>2. ~Abandoned(q, o)
      BY <2>1, <2>5, SeenWhenAccounted
    <3>3. QED
      BY <3>1, <3>2, AcquiredRows
  <2>6. UNCHANGED tree
    BY DEF Acquire
  <2>7. QED
    BY <2>1, <2>2, <2>3, <2>4, <2>5, <2>6 DEF KeptBy
<1>4. \A o \in Partitions : Fair(o)'
  BY AcquiredFair
<1>5. QED
  BY <1>1, <1>2, <1>3, <1>4 DEF Inv

LEMMA NextInv == Inv /\ [Next]_vars => Inv'
<1> SUFFICES ASSUME Inv, [Next]_vars
             PROVE  Inv'
  OBVIOUS
<1>1. ASSUME NEW r \in Runs, NEW p \in Partitions,
             Acquire(r, p) \/ GiveUp(r, p) \/ SettleKill(r, p) \/ Release(r, p)
      PROVE  Inv'
  BY <1>1, AcquireInv, GiveUpInv, SettleKillInv, ReleaseInv
<1>2. ASSUME NEW r \in Runs, Begin(r) \/ Close(r) \/ Leave(r) \/ Cancel(r) \/ Crash(r)
      PROVE  Inv'
  BY <1>2, BeginInv, CloseInv, LeaveInv, CancelInv, CrashInv
<1>3. ASSUME NEW r \in Runs, NEW g \in Gates,
             \/ StartPending(r, g) \/ Launch(r, g) \/ Refuse(r, g) \/ Bind(r, g)
             \/ BindFails(r, g) \/ Terminate(r, g) \/ SettleOutcome(r, g)
      PROVE  Inv'
  BY <1>3, StartPendingInv, LaunchInv, RefuseInv, BindInv, BindFailsInv, TerminateInv, SettleOutcomeInv
<1>4. ASSUME NEW r \in Runs, NEW g \in Gates, Commands(r, g)
      PROVE  Inv'
  BY <1>4, LeaderExitsInv, ForkInv, BackgroundExitsInv DEF Commands
<1>5. CASE UNCHANGED vars
  <2>1. Types'
    BY <1>5 DEF vars, Inv, Types, RunOK, SlotOK, LeaseOK, GateOK, TreeOK, RestOK
  <2>2. ASSUME NEW q \in Runs
        PROVE  SlotsOf(q)' /\ LeasesOf(q)' /\ \A h \in Gates : TreeOf(q, h)' /\ KeptBy(q, h)'
    BY <1>5 DEF vars, Inv, SlotsOf, LeasesOf, TreeOf, KeptBy, Accounted, AtWork, ActiveGates
  <2>3. \A p \in Partitions : Fair(p)'
    BY <1>5, FewerRows DEF vars
  <2>4. QED
    BY <2>1, <2>2, <2>3 DEF Inv
<1>6. QED
  BY <1>1, <1>2, <1>3, <1>4, <1>5 DEF Next, Admission, Phase

-----------------------------------------------------------------------------
(* What every reachable state satisfies, for any constants.                *)
THEOREM Invariance == Spec => []Inv
BY InitInv, NextInv, PTL DEF Spec

(* Every variable keeps its type, and a living run has exactly the leases  *)
(* it knows of.                                                            *)
THEOREM TypeCorrect == Spec => []TypeOK
BY Invariance, InvType, PTL

(* Nothing is at work without the leases it needs, whoever died, failed or *)
(* was cancelled, and whatever rows were taken back.                       *)
THEOREM AdmittedWork == Spec => []WorkIsAdmitted
BY Invariance, InvAdmitted, PTL

(* No partition is used beyond the capacity of any run that uses it.       *)
THEOREM CapacityHolds == Spec => []CapacityIsKept
BY Invariance, InvCapacity, PTL

=============================================================================
