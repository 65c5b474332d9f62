---------------------------- MODULE LandingProofs ----------------------------
(***************************************************************************)
(* What Landing promises for any number of missions, versions of a change, *)
(* commits by others and faults: nothing lands twice, what is recorded as  *)
(* delivered has landed, a mission is closed after its closeout; and, as   *)
(* long as nobody interferes with a run, what lands is just what the gates *)
(* saw.                                                                    *)
(***************************************************************************)
EXTENDS Landing, TLAPS

After == {"sync", "deliver", "measure", "hook", "clean", "close"}
Settling == {"hook", "clean", "close"}

(* How far a mission's run has come, and what it has left behind by then.  *)
Stage(m) ==
  /\ pc[m] = "land" => tries[m] \in 1..3
  /\ pc[m] \in After => LandedSquash(m)
  /\ pc[m] \in Settling \cup {"measure"} => mission[m].lane = "done"
  /\ pc[m] \in Settling => "statistics" \in effects[m]
  /\ pc[m] \in {"clean", "close"} => "hook" \in effects[m]
  /\ pc[m] = "close" => ~branch[m].exists

Delivered(m) == mission[m].lane = "done" \/ ~branch[m].exists => LandedSquash(m)

Finished(m) ==
  /\ ~branch[m].exists => mission[m].lane = "done"
  /\ mission[m].closed => effects[m] = {"statistics", "hook"} /\ ~branch[m].exists

(* The base is held by a run that is landing, and a run that publishes     *)
(* holds it.                                                               *)
Holding(m) ==
  /\ holder = m => pc[m] \in After \cup {"publish"}
  /\ pc[m] = "publish" => holder = m

(* When nobody interferes with a run, it carries to its squash what its    *)
(* gates saw; when nobody interferes with the base under its lock, that is *)
(* still the base.                                                         *)
Undisturbed(m) ==
  /\ "run" \notin Disturbances =>
       (pc[m] \in {"gated", "land", "publish"} => gated[m] = TreeOf(m))
  /\ "lock" \notin Disturbances => (pc[m] = "publish" => ~RebaseNeeded(m))

Consistent(m) ==
  Stage(m) /\ Delivered(m) /\ Finished(m) /\ Holding(m) /\ Undisturbed(m)

Inv == TypeOK /\ OneSquash /\ \A m \in Missions : Consistent(m)

-----------------------------------------------------------------------------
(* A base that stays, and a base that grows by one commit.                 *)

LEMMA SameBase ==
  ASSUME UNCHANGED base
  PROVE  /\ \A m : LandedSquash(m)' = LandedSquash(m)
         /\ OneSquash' = OneSquash
BY DEF LandedSquash, OneSquash

LEMMA GrownBase ==
  ASSUME base \in Seq(Commit), NEW c \in Commit, base' = Append(base, c)
  PROVE  /\ base' \in Seq(Commit)
         /\ Len(base) \in Nat /\ Len(base') = Len(base) + 1 /\ base'[Len(base')] = c
         /\ DOMAIN base' = 1..(Len(base) + 1) /\ DOMAIN base = 1..Len(base)
         /\ \A i \in DOMAIN base : base'[i] = base[i]
OBVIOUS

LEMMA GrownLanded ==
  ASSUME base \in Seq(Commit), NEW c \in Commit, base' = Append(base, c), NEW m
  PROVE  LandedSquash(m)' <=> LandedSquash(m) \/ c.mission = m
<1>1. CASE LandedSquash(m)
  <2>1. PICK i \in DOMAIN base : base[i].mission = m
    BY <1>1 DEF LandedSquash
  <2>2. i \in DOMAIN base' /\ base'[i] = base[i]
    BY <2>1, GrownBase
  <2>3. QED
    BY <1>1, <2>1, <2>2 DEF LandedSquash
<1>2. CASE c.mission = m
  <2>1. Len(base') \in DOMAIN base' /\ base'[Len(base')] = c
    BY GrownBase
  <2>2. QED
    BY <1>2, <2>1 DEF LandedSquash
<1>3. CASE ~LandedSquash(m) /\ c.mission # m
  <2>1. ASSUME NEW i \in DOMAIN base', base'[i].mission = m
        PROVE  FALSE
    <3>1. CASE i = Len(base) + 1
      BY <1>3, <2>1, <3>1, GrownBase
    <3>2. CASE i # Len(base) + 1
      <4>1. i \in DOMAIN base /\ base'[i] = base[i]
        BY <3>2, GrownBase
      <4>2. QED
        BY <1>3, <2>1, <4>1 DEF LandedSquash
    <3>3. QED
      BY <3>1, <3>2
  <2>2. QED
    BY <1>3, <2>1 DEF LandedSquash
<1>4. QED
  BY <1>1, <1>2, <1>3

(* One squash per mission stays, when the new commit is the first of its   *)
(* mission or nobody's.                                                    *)
LEMMA GrownOneSquash ==
  ASSUME base \in Seq(Commit), NEW c \in Commit, base' = Append(base, c),
         OneSquash, c.mission \in Missions => ~LandedSquash(c.mission)
  PROVE  OneSquash'
<1> SUFFICES ASSUME NEW i \in DOMAIN base', NEW j \in DOMAIN base',
                    base'[i].mission = base'[j].mission, base'[i].mission \in Missions
             PROVE  i = j
  BY DEF OneSquash
<1>1. ASSUME NEW k \in DOMAIN base', k # Len(base) + 1
      PROVE  k \in DOMAIN base /\ base'[k] = base[k]
  BY <1>1, GrownBase
<1>2. base'[Len(base) + 1] = c
  BY GrownBase
<1>3. CASE i # Len(base) + 1 /\ j # Len(base) + 1
  BY <1>1, <1>3 DEF OneSquash
<1>4. CASE i = Len(base) + 1 /\ j # Len(base) + 1
  BY <1>1, <1>2, <1>4 DEF LandedSquash
<1>5. CASE i # Len(base) + 1 /\ j = Len(base) + 1
  BY <1>1, <1>2, <1>5 DEF LandedSquash
<1>6. QED
  BY <1>3, <1>4, <1>5

-----------------------------------------------------------------------------
LEMMA InitInv == Init => Inv
<1> SUFFICES ASSUME Init
             PROVE  Inv
  OBVIOUS
<1>1. TypeOK
  BY LandingBounds DEF Init, TypeOK, Changes, Ended
<1>2. OneSquash
  BY DEF Init, OneSquash
<1>3. ASSUME NEW m \in Missions
      PROVE  Consistent(m)
  BY OutsideAssumption
  DEF Init, Consistent, Stage, Delivered, Finished, Holding, Undisturbed, After, Settling, Integrable
<1>4. QED
  BY <1>1, <1>2, <1>3 DEF Inv

(* What the steps write keeps its type.                                    *)
Rows == [Missions -> [lane : {"review", "integration", "done"}, approved : 0..MaxChange, closed : BOOLEAN]]
Branches == [Missions -> [change : Changes, on : Nat, exists : BOOLEAN]]

LEMMA RowTypes ==
  ASSUME TypeOK, NEW m \in Missions
  PROVE  /\ mission \in Rows
         /\ [mission EXCEPT ![m].lane = "done"] \in Rows
         /\ [mission EXCEPT ![m].closed = TRUE] \in Rows
         /\ [mission EXCEPT ![m].lane = "review", ![m].approved = 0] \in Rows
         /\ [mission EXCEPT ![m].lane = "integration", ![m].approved = branch[m].change] \in Rows
<1>1. mission \in Rows /\ branch[m].change \in 0..MaxChange /\ 0 \in 0..MaxChange
  BY LandingBounds DEF TypeOK, Rows, Changes
<1>2. ASSUME NEW row \in [lane : {"review", "integration", "done"}, approved : 0..MaxChange, closed : BOOLEAN]
      PROVE  [mission EXCEPT ![m] = row] \in Rows
  BY <1>1 DEF Rows
<1>3. [mission EXCEPT ![m].lane = "done"] \in Rows
  BY <1>1 DEF Rows
<1>4. [mission EXCEPT ![m].closed = TRUE] \in Rows
  BY <1>1 DEF Rows
<1>5. ASSUME NEW l \in {"review", "integration"}, NEW a \in 0..MaxChange
      PROVE  [mission EXCEPT ![m].lane = l, ![m].approved = a] \in Rows
  BY <1>1 DEF Rows
<1>6. QED
  BY <1>1, <1>3, <1>4, <1>5

LEMMA BranchTypes ==
  ASSUME TypeOK, NEW m \in Missions
  PROVE  /\ branch \in Branches
         /\ [branch EXCEPT ![m].on = Len(base)] \in Branches
         /\ [branch EXCEPT ![m].exists = FALSE] \in Branches
         /\ branch[m].change < MaxChange =>
              [branch EXCEPT ![m].change = @ + 1, ![m].on = Len(base)] \in Branches
<1>1. branch \in Branches /\ Len(base) \in Nat
  BY DEF TypeOK, Branches
<1>2. branch[m].change < MaxChange => branch[m].change + 1 \in Changes
  BY <1>1, LandingBounds DEF Branches, Changes
<1>3. [branch EXCEPT ![m].on = Len(base)] \in Branches
  BY <1>1 DEF Branches
<1>4. [branch EXCEPT ![m].exists = FALSE] \in Branches
  BY <1>1 DEF Branches
<1>5. ASSUME NEW c \in Changes
      PROVE  [branch EXCEPT ![m].change = c, ![m].on = Len(base)] \in Branches
  BY <1>1 DEF Branches
<1>6. QED
  BY <1>1, <1>2, <1>3, <1>4, <1>5

LEMMA EndTypes ==
  ASSUME TypeOK, NEW m \in Missions, NEW how \in Ended, End(m, how)
  PROVE  /\ pc' \in [Missions -> Steps \cup Ended] /\ gated' \in [Missions -> Tree \cup {NoTree}]
         /\ tries' \in [Missions -> 0..4] /\ holder' \in Missions \cup {Outside}
BY DEF TypeOK, End, Goto

LEMMA GotoTypes ==
  ASSUME TypeOK, NEW m \in Missions, NEW step \in Steps, Goto(m, step)
  PROVE  pc' \in [Missions -> Steps \cup Ended]
BY DEF TypeOK, Goto

(* A step that leaves the base alone keeps the types, given those of what  *)
(* it writes.                                                              *)
LEMMA WrittenTypes ==
  ASSUME TypeOK, UNCHANGED base, mission' \in Rows, branch' \in Branches,
         effects' \in [Missions -> SUBSET {"statistics", "hook"}],
         pc' \in [Missions -> Steps \cup Ended], gated' \in [Missions -> Tree \cup {NoTree}],
         tries' \in [Missions -> 0..4], holder' \in Missions \cup {Outside}, faults' \in 0..MaxFaults
  PROVE  TypeOK'
BY DEF TypeOK, Rows, Branches, Commit

(* The steps that leave the base alone.                                    *)
LEMMA StartInv ==
  ASSUME Inv, NEW m \in Missions, Start(m)
  PROVE  Inv'
<1>1. TypeOK' /\ UNCHANGED base
  BY LandingBounds, OutsideAssumption DEF Inv, TypeOK, Start, Goto, stored, Steps
<1>2. OneSquash' /\ \A n : LandedSquash(n)' = LandedSquash(n)
  BY <1>1, SameBase DEF Inv
<1>3. ASSUME NEW n \in Missions
      PROVE  Consistent(n)'
  BY <1>1, <1>2, OutsideAssumption
    DEF Inv, TypeOK, Start, Goto, stored, Running, Ended,
        Consistent, Stage, Delivered, Finished, Holding, Undisturbed,
        After, Settling, Integrable, TreeOf, RebaseNeeded
<1>4. QED
  BY <1>1, <1>2, <1>3 DEF Inv

LEMMA CandidateInv ==
  ASSUME Inv, NEW m \in Missions, Prepare(m) \/ GatesPass(m) \/ GatesFail(m)
  PROVE  Inv'
<1>1. TypeOK' /\ UNCHANGED base
  <2>1. CASE Prepare(m)
    <3>1. TypeOK /\ UNCHANGED base
      BY <2>1 DEF Inv, Prepare, stored
    <3>2. mission' \in Rows /\ branch' \in Branches
      BY <2>1, <3>1, RowTypes, BranchTypes DEF Prepare, stored
    <3>3. /\ pc' \in [Missions -> Steps \cup Ended] /\ gated' \in [Missions -> Tree \cup {NoTree}]
          /\ tries' \in [Missions -> 0..4] /\ holder' \in Missions \cup {Outside}
      BY <2>1, <3>1, EndTypes, GotoTypes DEF Prepare, TypeOK, Steps, Ended
    <3>4. effects' \in [Missions -> SUBSET {"statistics", "hook"}] /\ faults' \in 0..MaxFaults
      BY <2>1, <3>1 DEF Prepare, TypeOK, stored
    <3>5. QED
      BY <3>1, <3>2, <3>3, <3>4, WrittenTypes
  <2>2. CASE GatesPass(m)
    BY <2>2 DEF Inv, TypeOK, GatesPass, Goto, stored, Steps, TreeOf, Tree
  <2>3. CASE GatesFail(m)
    <3>1. TypeOK /\ UNCHANGED base
      BY <2>3 DEF Inv, GatesFail, stored
    <3>2. mission' \in Rows /\ branch' \in Branches
      BY <2>3, <3>1, RowTypes, BranchTypes DEF GatesFail, stored
    <3>3. /\ pc' \in [Missions -> Steps \cup Ended] /\ gated' \in [Missions -> Tree \cup {NoTree}]
          /\ tries' \in [Missions -> 0..4] /\ holder' \in Missions \cup {Outside}
      BY <2>3, <3>1, EndTypes, GotoTypes DEF GatesFail, TypeOK, Steps, Ended
    <3>4. effects' \in [Missions -> SUBSET {"statistics", "hook"}] /\ faults' \in 0..MaxFaults
      BY <2>3, <3>1 DEF GatesFail, TypeOK, stored
    <3>5. QED
      BY <3>1, <3>2, <3>3, <3>4, WrittenTypes
  <2>4. QED
    BY <2>1, <2>2, <2>3
<1>2. OneSquash' /\ \A n : LandedSquash(n)' = LandedSquash(n)
  BY <1>1, SameBase DEF Inv
<1>3. ASSUME NEW n \in Missions
      PROVE  Consistent(n)'
  <2>1. CASE Prepare(m)
    BY <1>1, <1>2, <2>1, OutsideAssumption
    DEF Inv, TypeOK, Prepare, Goto,
        Consistent, Stage, Delivered, Finished, Holding, Undisturbed,
        After, Settling, Integrable, TreeOf, RebaseNeeded
  <2>2. CASE GatesPass(m)
    <3>1. Undisturbed(n)'
      BY <1>1, <2>2
      DEF Inv, TypeOK, GatesPass, Goto, stored, Consistent, Undisturbed, Integrable, TreeOf, RebaseNeeded
    <3>2. Stage(n)' /\ Delivered(n)' /\ Finished(n)' /\ Holding(n)'
      BY <1>1, <1>2, <2>2, OutsideAssumption
      DEF Inv, TypeOK, GatesPass, Goto, stored, Consistent, Stage, Delivered, Finished, Holding,
          After, Settling, Integrable
    <3>3. QED
      BY <3>1, <3>2 DEF Consistent
  <2>3. CASE GatesFail(m)
    BY <1>1, <1>2, <2>3, OutsideAssumption
    DEF Inv, TypeOK, GatesFail, End, Goto, Ended,
        Consistent, Stage, Delivered, Finished, Holding, Undisturbed,
        After, Settling, Integrable, TreeOf, RebaseNeeded
  <2>4. QED
    BY <2>1, <2>2, <2>3
<1>4. QED
  BY <1>1, <1>2, <1>3 DEF Inv

LEMMA ReadyInv ==
  ASSUME Inv, NEW m \in Missions, BaseAdvanced(m) \/ Ready(m) \/ NotReady(m)
  PROVE  Inv'
<1>1. TypeOK' /\ UNCHANGED base
  <2>1. CASE BaseAdvanced(m)
    BY <2>1 DEF Inv, TypeOK, BaseAdvanced, Goto, stored, Steps
  <2>2. CASE Ready(m)
    BY <2>2 DEF Inv, TypeOK, Ready, Goto, stored, Steps
  <2>3. CASE NotReady(m)
    <3>1. TypeOK /\ UNCHANGED base
      BY <2>3 DEF Inv, NotReady, stored
    <3>2. mission' \in Rows /\ branch' \in Branches
      BY <2>3, <3>1, RowTypes, BranchTypes DEF NotReady, stored
    <3>3. /\ pc' \in [Missions -> Steps \cup Ended] /\ gated' \in [Missions -> Tree \cup {NoTree}]
          /\ tries' \in [Missions -> 0..4] /\ holder' \in Missions \cup {Outside}
      BY <2>3, <3>1, EndTypes, GotoTypes DEF NotReady, TypeOK, Steps, Ended
    <3>4. effects' \in [Missions -> SUBSET {"statistics", "hook"}] /\ faults' \in 0..MaxFaults
      BY <2>3, <3>1 DEF NotReady, TypeOK, stored
    <3>5. QED
      BY <3>1, <3>2, <3>3, <3>4, WrittenTypes
  <2>4. QED
    BY <2>1, <2>2, <2>3
<1>2. OneSquash' /\ \A n : LandedSquash(n)' = LandedSquash(n)
  BY <1>1, SameBase DEF Inv
<1>3. ASSUME NEW n \in Missions
      PROVE  Consistent(n)'
  <2>1. CASE BaseAdvanced(m)
    BY <1>1, <1>2, <2>1, OutsideAssumption
    DEF Inv, TypeOK, BaseAdvanced, Goto, stored,
        Consistent, Stage, Delivered, Finished, Holding, Undisturbed,
        After, Settling, Integrable, TreeOf, RebaseNeeded
  <2>2. CASE Ready(m)
    BY <1>1, <1>2, <2>2, OutsideAssumption
    DEF Inv, TypeOK, Ready, Goto, stored,
        Consistent, Stage, Delivered, Finished, Holding, Undisturbed,
        After, Settling, Integrable, TreeOf, RebaseNeeded
  <2>3. CASE NotReady(m)
    BY <1>1, <1>2, <2>3, OutsideAssumption
    DEF Inv, TypeOK, NotReady, End, Goto, stored, Ended,
        Consistent, Stage, Delivered, Finished, Holding, Undisturbed,
        After, Settling, Integrable, TreeOf, RebaseNeeded
  <2>4. QED
    BY <2>1, <2>2, <2>3
<1>4. QED
  BY <1>1, <1>2, <1>3 DEF Inv

LEMMA LandInv ==
  ASSUME Inv, NEW m \in Missions, TakeBase(m) \/ Reconcile(m) \/ BaseIsTaken(m)
  PROVE  Inv'
<1>1. TypeOK' /\ UNCHANGED base
  <2>1. CASE TakeBase(m)
    BY <2>1 DEF Inv, TypeOK, TakeBase, Goto, stored, Steps
  <2>2. CASE Reconcile(m)
    <3>1. TypeOK /\ tries[m] \in 1..3
      BY <2>2 DEF Inv, Consistent, Stage, Reconcile
    <3>2. tries[m] + 1 \in 0..4
      BY <3>1
    <3>3. QED
      BY <2>2, <3>1, <3>2 DEF TypeOK, Reconcile, Goto, stored, Steps
  <2>3. CASE BaseIsTaken(m)
    BY <2>3 DEF Inv, TypeOK, BaseIsTaken, End, Goto, stored, Steps, Ended
  <2>4. QED
    BY <2>1, <2>2, <2>3
<1>2. OneSquash' /\ \A n : LandedSquash(n)' = LandedSquash(n)
  BY <1>1, SameBase DEF Inv
<1>3. ASSUME NEW n \in Missions
      PROVE  Consistent(n)'
  <2>1. CASE TakeBase(m)
    BY <1>1, <1>2, <2>1, OutsideAssumption
    DEF Inv, TypeOK, TakeBase, Goto, stored,
        Consistent, Stage, Delivered, Finished, Holding, Undisturbed,
        After, Settling, Integrable, TreeOf, RebaseNeeded
  <2>2. CASE Reconcile(m)
    BY <1>1, <1>2, <2>2, OutsideAssumption
    DEF Inv, TypeOK, Reconcile, Goto, stored,
        Consistent, Stage, Delivered, Finished, Holding, Undisturbed,
        After, Settling, Integrable, TreeOf, RebaseNeeded
  <2>3. CASE BaseIsTaken(m)
    BY <1>1, <1>2, <2>3, OutsideAssumption
    DEF Inv, TypeOK, BaseIsTaken, End, Goto, stored, Ended,
        Consistent, Stage, Delivered, Finished, Holding, Undisturbed,
        After, Settling, Integrable, TreeOf, RebaseNeeded
  <2>4. QED
    BY <2>1, <2>2, <2>3
<1>4. QED
  BY <1>1, <1>2, <1>3 DEF Inv

LEMMA PublishInv ==
  ASSUME Inv, NEW m \in Missions, Resume(m) \/ Sync(m) \/ RecoverLanded(m) \/ Deliver(m)
  PROVE  Inv'
<1>1. TypeOK' /\ UNCHANGED base
  <2>1. CASE Resume(m)
    BY <2>1 DEF Inv, TypeOK, Resume, Goto, stored, Steps
  <2>2. CASE Sync(m)
    <3>1. TypeOK /\ UNCHANGED base
      BY <2>2 DEF Inv, Sync, stored
    <3>2. mission' \in Rows /\ branch' \in Branches
      BY <2>2, <3>1, RowTypes, BranchTypes DEF Sync, stored
    <3>3. /\ pc' \in [Missions -> Steps \cup Ended] /\ gated' \in [Missions -> Tree \cup {NoTree}]
          /\ tries' \in [Missions -> 0..4] /\ holder' \in Missions \cup {Outside}
      BY <2>2, <3>1, EndTypes, GotoTypes DEF Sync, TypeOK, Steps, Ended
    <3>4. effects' \in [Missions -> SUBSET {"statistics", "hook"}] /\ faults' \in 0..MaxFaults
      BY <2>2, <3>1 DEF Sync, TypeOK, stored
    <3>5. QED
      BY <3>1, <3>2, <3>3, <3>4, WrittenTypes
  <2>3. CASE RecoverLanded(m)
    BY <2>3 DEF Inv, TypeOK, RecoverLanded, Goto, stored, Steps, Ended
  <2>4. CASE Deliver(m)
    <3>1. TypeOK /\ UNCHANGED base
      BY <2>4 DEF Inv, Deliver, stored
    <3>2. mission' \in Rows /\ branch' \in Branches
      BY <2>4, <3>1, RowTypes, BranchTypes DEF Deliver, stored
    <3>3. /\ pc' \in [Missions -> Steps \cup Ended] /\ gated' \in [Missions -> Tree \cup {NoTree}]
          /\ tries' \in [Missions -> 0..4] /\ holder' \in Missions \cup {Outside}
      BY <2>4, <3>1, EndTypes, GotoTypes DEF Deliver, TypeOK, Steps, Ended
    <3>4. effects' \in [Missions -> SUBSET {"statistics", "hook"}] /\ faults' \in 0..MaxFaults
      BY <2>4, <3>1 DEF Deliver, TypeOK, stored
    <3>5. QED
      BY <3>1, <3>2, <3>3, <3>4, WrittenTypes
  <2>5. QED
    BY <2>1, <2>2, <2>3, <2>4
<1>2. OneSquash' /\ \A n : LandedSquash(n)' = LandedSquash(n)
  BY <1>1, SameBase DEF Inv
<1>3. ASSUME NEW n \in Missions
      PROVE  Consistent(n)'
  <2>1. CASE Resume(m)
    BY <1>1, <1>2, <2>1, OutsideAssumption
    DEF Inv, TypeOK, Resume, Goto, stored,
        Consistent, Stage, Delivered, Finished, Holding, Undisturbed,
        After, Settling, Integrable, TreeOf, RebaseNeeded
  <2>2. CASE Sync(m)
    BY <1>1, <1>2, <2>2, OutsideAssumption
    DEF Inv, TypeOK, Sync, End, Goto, stored, Ended,
        Consistent, Stage, Delivered, Finished, Holding, Undisturbed,
        After, Settling, Integrable, TreeOf, RebaseNeeded
  <2>3. CASE RecoverLanded(m)
    BY <1>1, <1>2, <2>3, OutsideAssumption
    DEF Inv, TypeOK, RecoverLanded, Goto, stored, Running, Ended,
        Consistent, Stage, Delivered, Finished, Holding, Undisturbed,
        After, Settling, Integrable, TreeOf, RebaseNeeded
  <2>4. CASE Deliver(m)
    <3>1. Undisturbed(n)'
      BY <1>1, <2>4
      DEF Inv, TypeOK, Deliver, End, Goto, Ended, Consistent, Undisturbed, TreeOf, RebaseNeeded
    <3>2. Stage(n)' /\ Delivered(n)' /\ Finished(n)'
      BY <1>1, <1>2, <2>4
      DEF Inv, TypeOK, Deliver, End, Goto, Ended, Consistent, Stage, Delivered, Finished,
          After, Settling, Integrable
    <3>3. Holding(n)'
      BY <1>1, <2>4, OutsideAssumption
      DEF Inv, TypeOK, Deliver, End, Goto, Ended, Consistent, Holding, After
    <3>4. QED
      BY <3>1, <3>2, <3>3 DEF Consistent
  <2>5. QED
    BY <2>1, <2>2, <2>3, <2>4
<1>4. QED
  BY <1>1, <1>2, <1>3 DEF Inv

LEMMA CloseoutInv ==
  ASSUME Inv, NEW m \in Missions, Measure(m) \/ RunHook(m) \/ CleanUp(m) \/ Close(m)
  PROVE  Inv'
<1>1. TypeOK' /\ UNCHANGED base
  <2>1. CASE Measure(m)
    BY <2>1 DEF Inv, TypeOK, Measure, Goto, Steps
  <2>2. CASE RunHook(m)
    BY <2>2 DEF Inv, TypeOK, RunHook, Goto, Steps
  <2>3. CASE CleanUp(m)
    BY <2>3 DEF Inv, TypeOK, CleanUp, Goto, Steps
  <2>4. CASE Close(m)
    <3>1. TypeOK /\ UNCHANGED base
      BY <2>4 DEF Inv, Close, stored
    <3>2. mission' \in Rows /\ branch' \in Branches
      BY <2>4, <3>1, RowTypes, BranchTypes DEF Close, stored
    <3>3. /\ pc' \in [Missions -> Steps \cup Ended] /\ gated' \in [Missions -> Tree \cup {NoTree}]
          /\ tries' \in [Missions -> 0..4] /\ holder' \in Missions \cup {Outside}
      BY <2>4, <3>1, EndTypes, GotoTypes DEF Close, TypeOK, Steps, Ended
    <3>4. effects' \in [Missions -> SUBSET {"statistics", "hook"}] /\ faults' \in 0..MaxFaults
      BY <2>4, <3>1 DEF Close, TypeOK, stored
    <3>5. QED
      BY <3>1, <3>2, <3>3, <3>4, WrittenTypes
  <2>5. QED
    BY <2>1, <2>2, <2>3, <2>4
<1>2. OneSquash' /\ \A n : LandedSquash(n)' = LandedSquash(n)
  BY <1>1, SameBase DEF Inv
<1>3. ASSUME NEW n \in Missions
      PROVE  Consistent(n)'
  <2>1. CASE Measure(m)
    BY <1>1, <1>2, <2>1, OutsideAssumption
    DEF Inv, TypeOK, Measure, Goto,
        Consistent, Stage, Delivered, Finished, Holding, Undisturbed,
        After, Settling, Integrable, TreeOf, RebaseNeeded
  <2>2. CASE RunHook(m)
    BY <1>1, <1>2, <2>2, OutsideAssumption
    DEF Inv, TypeOK, RunHook, Goto,
        Consistent, Stage, Delivered, Finished, Holding, Undisturbed,
        After, Settling, Integrable, TreeOf, RebaseNeeded
  <2>3. CASE CleanUp(m)
    BY <1>1, <1>2, <2>3, OutsideAssumption
    DEF Inv, TypeOK, CleanUp, Goto,
        Consistent, Stage, Delivered, Finished, Holding, Undisturbed,
        After, Settling, Integrable, TreeOf, RebaseNeeded
  <2>4. CASE Close(m)
    BY <1>1, <1>2, <2>4, OutsideAssumption
    DEF Inv, TypeOK, Close, End, Goto, Ended,
        Consistent, Stage, Delivered, Finished, Holding, Undisturbed,
        After, Settling, Integrable, TreeOf, RebaseNeeded
  <2>5. QED
    BY <2>1, <2>2, <2>3, <2>4
<1>4. QED
  BY <1>1, <1>2, <1>3 DEF Inv

LEMMA StopInv ==
  ASSUME Inv, NEW m \in Missions, Stop(m)
  PROVE  Inv'
<1>1. TypeOK' /\ UNCHANGED base
  BY LandingBounds DEF Inv, TypeOK, Stop, End, Goto, stored, Steps, Ended
<1>2. OneSquash' /\ \A n : LandedSquash(n)' = LandedSquash(n)
  BY <1>1, SameBase DEF Inv
<1>3. ASSUME NEW n \in Missions
      PROVE  Consistent(n)'
  BY <1>1, <1>2, OutsideAssumption
    DEF Inv, TypeOK, Stop, End, Goto, stored, Running, Ended,
        Consistent, Stage, Delivered, Finished, Holding, Undisturbed,
        After, Settling, Integrable, TreeOf, RebaseNeeded
<1>4. QED
  BY <1>1, <1>2, <1>3 DEF Inv

LEMMA OthersInv ==
  ASSUME Inv, NEW m \in Missions, Revoke(m) \/ Rework(m) \/ Approve(m)
  PROVE  Inv'
<1>1. TypeOK' /\ UNCHANGED base
  <2>1. CASE Revoke(m)
    <3>1. TypeOK /\ UNCHANGED base
      BY <2>1 DEF Inv, Revoke, stored
    <3>2. mission' \in Rows /\ branch' \in Branches
      BY <2>1, <3>1, RowTypes, BranchTypes DEF Revoke, stored
    <3>3. /\ pc' \in [Missions -> Steps \cup Ended] /\ gated' \in [Missions -> Tree \cup {NoTree}]
          /\ tries' \in [Missions -> 0..4] /\ holder' \in Missions \cup {Outside}
      BY <2>1, <3>1, EndTypes, GotoTypes DEF Revoke, TypeOK, Steps, Ended
    <3>4. effects' \in [Missions -> SUBSET {"statistics", "hook"}] /\ faults' \in 0..MaxFaults
      BY <2>1, <3>1 DEF Revoke, TypeOK, stored
    <3>5. QED
      BY <3>1, <3>2, <3>3, <3>4, WrittenTypes
  <2>2. CASE Rework(m)
    <3>1. TypeOK /\ UNCHANGED base
      BY <2>2 DEF Inv, Rework, stored
    <3>2. mission' \in Rows /\ branch' \in Branches
      BY <2>2, <3>1, RowTypes, BranchTypes DEF Rework, stored
    <3>3. /\ pc' \in [Missions -> Steps \cup Ended] /\ gated' \in [Missions -> Tree \cup {NoTree}]
          /\ tries' \in [Missions -> 0..4] /\ holder' \in Missions \cup {Outside}
      BY <2>2, <3>1, EndTypes, GotoTypes DEF Rework, TypeOK, Steps, Ended
    <3>4. effects' \in [Missions -> SUBSET {"statistics", "hook"}] /\ faults' \in 0..MaxFaults
      BY <2>2, <3>1 DEF Rework, TypeOK, stored
    <3>5. QED
      BY <3>1, <3>2, <3>3, <3>4, WrittenTypes
  <2>3. CASE Approve(m)
    <3>1. TypeOK /\ UNCHANGED base
      BY <2>3 DEF Inv, Approve, stored
    <3>2. mission' \in Rows /\ branch' \in Branches
      BY <2>3, <3>1, RowTypes, BranchTypes DEF Approve, stored
    <3>3. /\ pc' \in [Missions -> Steps \cup Ended] /\ gated' \in [Missions -> Tree \cup {NoTree}]
          /\ tries' \in [Missions -> 0..4] /\ holder' \in Missions \cup {Outside}
      BY <2>3, <3>1, EndTypes, GotoTypes DEF Approve, TypeOK, Steps, Ended
    <3>4. effects' \in [Missions -> SUBSET {"statistics", "hook"}] /\ faults' \in 0..MaxFaults
      BY <2>3, <3>1 DEF Approve, TypeOK, stored
    <3>5. QED
      BY <3>1, <3>2, <3>3, <3>4, WrittenTypes
  <2>4. QED
    BY <2>1, <2>2, <2>3
<1>2. OneSquash' /\ \A n : LandedSquash(n)' = LandedSquash(n)
  BY <1>1, SameBase DEF Inv
<1>3. ASSUME NEW n \in Missions
      PROVE  Consistent(n)'
  <2>1. CASE Revoke(m)
    BY <1>1, <1>2, <2>1, OutsideAssumption
    DEF Inv, TypeOK, Revoke, Running, Ended, Open,
        Consistent, Stage, Delivered, Finished, Holding, Undisturbed,
        After, Settling, Integrable, TreeOf, RebaseNeeded
  <2>2. CASE Rework(m)
    BY <1>1, <1>2, <2>2, OutsideAssumption
    DEF Inv, TypeOK, Rework, Running, Ended, Open,
        Consistent, Stage, Delivered, Finished, Holding, Undisturbed,
        After, Settling, Integrable, TreeOf, RebaseNeeded
  <2>3. CASE Approve(m)
    BY <1>1, <1>2, <2>3, OutsideAssumption
    DEF Inv, TypeOK, Approve, Running, Ended, Open,
        Consistent, Stage, Delivered, Finished, Holding, Undisturbed,
        After, Settling, Integrable, TreeOf, RebaseNeeded
  <2>4. QED
    BY <2>1, <2>2, <2>3
<1>4. QED
  BY <1>1, <1>2, <1>3 DEF Inv

-----------------------------------------------------------------------------
(* The steps that add a commit to the base.                                *)

LEMMA SquashInv ==
  ASSUME Inv, NEW m \in Missions, Squash(m)
  PROVE  Inv'
<1> DEFINE c == [mission |-> m, change |-> branch[m].change]
<1>1. base \in Seq(Commit) /\ c \in Commit /\ base' = Append(base, c)
  BY LandingBounds DEF Inv, TypeOK, Squash, Commit, Changes
<1>2. TypeOK'
  BY <1>1, GrownBase, GotoTypes DEF Inv, TypeOK, Squash, stored, Steps
<1>3. OneSquash'
  BY <1>1, GrownOneSquash DEF Inv, Squash
<1>4. ASSUME NEW n \in Missions
      PROVE  LandedSquash(n)' <=> LandedSquash(n) \/ n = m
  BY <1>1, GrownLanded
<1>5. holder = m
  BY DEF Inv, Consistent, Holding, Squash
<1>6. ASSUME NEW n \in Missions
      PROVE  Consistent(n)'
  BY <1>4, <1>5
  DEF Inv, TypeOK, Squash, Goto, stored, Consistent, Stage, Delivered, Finished, Holding, Undisturbed, After, Settling, Integrable, TreeOf, RebaseNeeded
<1>7. QED
  BY <1>2, <1>3, <1>6 DEF Inv

LEMMA AdvanceBaseInv ==
  ASSUME Inv, AdvanceBase
  PROVE  Inv'
<1> DEFINE c == [mission |-> Outside, change |-> 0]
<1>1. base \in Seq(Commit) /\ c \in Commit /\ base' = Append(base, c)
  BY LandingBounds DEF Inv, TypeOK, AdvanceBase, Commit
<1>2. TypeOK'
  BY <1>1, GrownBase DEF Inv, TypeOK, AdvanceBase, stored
<1>3. OneSquash'
  BY <1>1, GrownOneSquash, OutsideAssumption DEF Inv
<1>4. ASSUME NEW n \in Missions
      PROVE  LandedSquash(n)' <=> LandedSquash(n)
  BY <1>1, GrownLanded, OutsideAssumption
<1>5. ASSUME NEW n \in Missions
      PROVE  Consistent(n)'
  BY <1>4, OutsideAssumption
  DEF Inv, TypeOK, AdvanceBase, stored, Consistent, Stage, Delivered, Finished, Holding, Undisturbed, After, Settling, Integrable, TreeOf, RebaseNeeded
<1>6. QED
  BY <1>2, <1>3, <1>5 DEF Inv

LEMMA NextInv == Inv /\ [Next]_vars => Inv'
<1> SUFFICES ASSUME Inv, [Next]_vars
             PROVE  Inv'
  OBVIOUS
<1>1. ASSUME NEW m \in Missions, Run(m)
      PROVE  Inv'
  BY <1>1, CandidateInv, ReadyInv, LandInv, PublishInv, CloseoutInv, SquashInv DEF Run
<1>2. ASSUME NEW m \in Missions, Operator(m)
      PROVE  Inv'
  BY <1>2, StartInv, PublishInv, StopInv, OthersInv DEF Operator
<1>3. CASE UNCHANGED vars
  BY <1>3, SameBase
  DEF vars, stored, Inv, TypeOK, Consistent, Stage, Delivered, Finished, Holding, Undisturbed, Integrable, TreeOf, RebaseNeeded
<1>4. QED
  BY <1>1, <1>2, <1>3, AdvanceBaseInv DEF Next

-----------------------------------------------------------------------------
(* What every reachable state satisfies, for any constants.                *)
THEOREM Invariance == Spec => []Inv
BY InitInv, NextInv, PTL DEF Spec

(* Every variable keeps its type; a run makes at most three attempts.      *)
THEOREM TypeCorrect == Spec => []TypeOK
<1>1. Inv => TypeOK
  BY DEF Inv
<1>2. QED
  BY Invariance, <1>1, PTL

(* However many missions land, fail, die and are tried again, each has at  *)
(* most one squash on the base.                                            *)
THEOREM LandsOnce == Spec => []OneSquash
<1>1. Inv => OneSquash
  BY DEF Inv
<1>2. QED
  BY Invariance, <1>1, PTL

(* Nothing is recorded as delivered, and no branch is deleted, before its  *)
(* squash is on the base.                                                  *)
THEOREM DeliveredHasLanded == Spec => []DeliveredIsLanded
<1>1. Inv => DeliveredIsLanded
  BY DEF Inv, Consistent, Delivered, DeliveredIsLanded
<1>2. QED
  BY Invariance, <1>1, PTL

(* A closed mission has all of its closeout behind it, whatever runs made  *)
(* it.                                                                     *)
THEOREM ClosedHasFinished == Spec => []ClosedIsFinished
<1>1. Inv => ClosedIsFinished
  BY DEF Inv, Consistent, Finished, ClosedIsFinished
<1>2. QED
  BY Invariance, <1>1, PTL

(* The base is held by a run that is landing on it.                        *)
THEOREM HolderLands == Spec => []HolderIsLanding
<1>1. Inv => HolderIsLanding
  BY DEF Inv, Consistent, Holding, After, HolderIsLanding
<1>2. QED
  BY Invariance, <1>1, PTL

(* The base grows for a mission by a squash of its run only.               *)
LEMMA OnlySquashLands ==
  ASSUME Inv, [Next]_vars, NEW m \in Missions, LandedNow(m)
  PROVE  Squash(m) /\ base'[Len(base')].change = branch[m].change
<1>1. base \in Seq(Commit)
  BY DEF Inv, TypeOK
<1>2. base' # base
  BY <1>1 DEF LandedNow
<1>3. CASE AdvanceBase
  <2>1. [mission |-> Outside, change |-> 0] \in Commit
    BY LandingBounds DEF Commit
  <2>2. base'[Len(base')] = [mission |-> Outside, change |-> 0]
    BY <1>1, <1>3, <2>1, GrownBase DEF AdvanceBase
  <2>3. QED
    BY <2>2, OutsideAssumption DEF LandedNow
<1>4. ASSUME NEW n \in Missions, Squash(n)
      PROVE  n = m /\ base'[Len(base')].change = branch[m].change
  <2>1. [mission |-> n, change |-> branch[n].change] \in Commit
    BY LandingBounds DEF Inv, TypeOK, Commit, Changes
  <2>2. base'[Len(base')] = [mission |-> n, change |-> branch[n].change]
    BY <1>1, <1>4, <2>1, GrownBase DEF Squash
  <2>3. QED
    BY <2>2 DEF LandedNow
<1>5. ASSUME NEW n \in Missions, Run(n), ~Squash(n)
      PROVE  FALSE
  BY <1>2, <1>5
  DEF Run, Prepare, GatesPass, GatesFail, BaseAdvanced, Ready, NotReady, TakeBase, Reconcile, BaseIsTaken,
      Resume, Sync, Deliver, Measure, RunHook, CleanUp, Close, stored
<1>6. ASSUME NEW n \in Missions, Operator(n)
      PROVE  FALSE
  BY <1>2, <1>6 DEF Operator, Start, RecoverLanded, Stop, Revoke, Rework, Approve, stored
<1>7. QED
  BY <1>2, <1>3, <1>4, <1>5, <1>6 DEF Next, vars

(* As long as nobody interferes with a run or with the base under its      *)
(* lock, what lands is what the gates of this run saw, on exactly that     *)
(* base, however many other missions land while the gates run.             *)
THEOREM LandsWhatGatesSaw ==
  ASSUME Disturbances = {}
  PROVE  Spec => LandsGatedTree
<1>1. Inv /\ [Next]_vars =>
        [\A m \in Missions :
           LandedNow(m) => gated[m] = [change |-> base'[Len(base')].change, on |-> Len(base)]]_vars
  <2> SUFFICES ASSUME Inv, [Next]_vars, NEW m \in Missions, LandedNow(m)
               PROVE  gated[m] = [change |-> base'[Len(base')].change, on |-> Len(base)]
    OBVIOUS
  <2>1. Squash(m) /\ base'[Len(base')].change = branch[m].change
    BY OnlySquashLands
  <2>2. gated[m] = TreeOf(m) /\ ~RebaseNeeded(m)
    BY <2>1 DEF Inv, Consistent, Undisturbed, Squash
  <2>3. QED
    BY <2>1, <2>2 DEF TreeOf, RebaseNeeded
<1>2. QED
  BY Invariance, <1>1, PTL DEF Spec, LandsGatedTree

-----------------------------------------------------------------------------
(* What is taken for granted of the claim on the base checkout.            *)
BaseClaim == INSTANCE ExclusiveClaim WITH Runs <- Missions, holders <- {holder} \ {Outside}

LEMMA HolderMoves ==
  ASSUME Inv, [Next]_vars
  PROVE  \/ holder' = holder
         \/ holder = Outside /\ holder' \in Missions
         \/ holder \in Missions /\ holder' = Outside
<1>1. CASE AdvanceBase \/ UNCHANGED vars
  BY <1>1 DEF AdvanceBase, vars
<1>2. ASSUME NEW m \in Missions, NEW how, End(m, how)
      PROVE  holder' = holder \/ (holder \in Missions /\ holder' = Outside)
  BY <1>2 DEF End
<1>3. ASSUME NEW m \in Missions, Run(m)
      PROVE  \/ holder' = holder
             \/ holder = Outside /\ holder' \in Missions
             \/ holder \in Missions /\ holder' = Outside
  BY <1>2, <1>3
  DEF Run, Prepare, GatesPass, GatesFail, BaseAdvanced, Ready, NotReady, TakeBase, Reconcile, BaseIsTaken,
      Resume, Squash, Sync, Deliver, Measure, RunHook, CleanUp, Close
<1>4. ASSUME NEW m \in Missions, Operator(m)
      PROVE  holder' = holder \/ (holder \in Missions /\ holder' = Outside)
  BY <1>2, <1>4 DEF Operator, Start, RecoverLanded, Stop, Revoke, Rework, Approve
<1>5. QED
  BY <1>1, <1>3, <1>4 DEF Next

(* A landing asks of the claim on the base no more than RecoveryClaim is   *)
(* shown to implement (claimBaseMutation in integrate.ts).                 *)
THEOREM ReliesOnClaim == Spec => BaseClaim!Spec
<1>1. Init => BaseClaim!Init
  BY DEF Init, BaseClaim!Init
<1>2. Inv /\ [Next]_vars => [BaseClaim!Next]_({holder} \ {Outside})
  <2> SUFFICES ASSUME Inv, [Next]_vars
               PROVE  [BaseClaim!Next]_({holder} \ {Outside})
    OBVIOUS
  <2>1. CASE holder = Outside /\ holder' \in Missions
    BY <2>1, OutsideAssumption DEF BaseClaim!Next, BaseClaim!Take
  <2>2. CASE holder \in Missions /\ holder' = Outside
    BY <2>2, OutsideAssumption DEF BaseClaim!Next, BaseClaim!Leave
  <2>3. QED
    BY <2>1, <2>2, HolderMoves
<1>3. QED
  BY Invariance, <1>1, <1>2, PTL DEF Spec, BaseClaim!Spec
=============================================================================
