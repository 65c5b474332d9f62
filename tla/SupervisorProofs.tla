--------------------------- MODULE SupervisorProofs ---------------------------
(***************************************************************************)
(* What Supervisor promises for any number of px lead processes, any       *)
(* failures and any budgets: types, one recovery agent, a claim that comes *)
(* back, launches within the budget and on what was judged.                *)
(***************************************************************************)
EXTENDS Supervisor, TLAPS

InFlight == [at : Steps, item : Facts \cup {NoFacts}, envelope : Facts \cup {NoFacts}]

(* One conjunct of TypeOK per name, so that a step can be cited for it.     *)
MissionOK == mission \in [lane : Lanes, cause : Causes, version : Versions]
CommandOK == command \in [Sups -> {"none", "forwarded", "running"}]
HoldersOK == op \in Sups \cup {"none"} /\ claim \in Sups \cup {"none"}
LoopOK    == loop \in [Sups -> [at : {"read", "clear", "stopped"}, failures : 0..ReadAttempts]]
RunOK     == run \in [Sups -> Runs]
JudgeOK   == judge \in [Sups -> Judges]
StepOK    == step \in [Sups -> InFlight]
RestOK    == signal \in [Sups -> BOOLEAN] /\ faults \in 0..MaxFaults

(* A mission is never left approved at the last version, so that the lane  *)
(* move a lost approval still gets stays within the versions.              *)
RoomToApprove == mission.lane = "approved" => mission.version <= MaxVersion

(* A run that still reads the board has a failed read left.                *)
ReadsLeft == \A s \in Sups : loop[s].at # "stopped" => loop[s].failures < ReadAttempts

(* What a run remembers fits its step in flight.  The step is about facts  *)
(* of the board; what was not pressed has an attempt left and what is      *)
(* about to be pressed was not pressed; between the claim and the spending *)
(* of an attempt there is one to spend, and at the launch one was spent;   *)
(* what a recovery is launched on was judged, and may be continued.        *)
Unspent == {"claim", "confirm", "judge", "consult", "recheck"}

Fits(st, r, j) ==
  /\ st.at # "none" => st.item \in Facts
  /\ \A k \in Keys : k \notin r.pressed => r.tries[k] < ActionAttempts
  /\ st.at \in {"dispatch", "press"} => Key(st.item) \notin r.pressed
  /\ st.at \in Unspent => r.spent[Fingerprint(st.item)] < Budget
  /\ st.at \in Admitting => r.spent[Fingerprint(st.item)] >= 1
  /\ st.at \in {"consult", "recheck"} \cup Admitting => st.envelope \in j.seen
  /\ st.at \in {"recheck"} \cup Admitting => MayContinue(st.envelope)

StepFits == \A s \in Sups : Fits(step[s], run[s], judge[s])

Inv == TypeOK /\ RoomToApprove /\ ReadsLeft /\ StepFits /\ ClaimHasStep

LEMMA TypeParts ==
  TypeOK <=> /\ MissionOK /\ CommandOK /\ HoldersOK /\ LoopOK
             /\ RunOK /\ JudgeOK /\ StepOK /\ RestOK
BY DEF TypeOK, MissionOK, CommandOK, HoldersOK, LoopOK, RunOK, JudgeOK, StepOK, InFlight, RestOK

-----------------------------------------------------------------------------
(* The operators of the board on well-typed facts.                         *)

LEMMA FingerprintType == \A f \in Facts : Fingerprint(f) \in Fingerprints
BY DEF Facts, Fingerprint, Fingerprints, Causes

LEMMA KeyType == \A f \in Facts : Key(f) \in Keys
BY FingerprintType DEF Facts, Key, Keys

LEMMA WorkingType == Working \in BOOLEAN
BY DEF Working

LEMMA NowType == MissionOK /\ HoldersOK => Now \in Facts
BY WorkingType DEF MissionOK, HoldersOK, Now, Facts

LEMMA EvidenceType == \A f \in Facts : Evidence(f) \in Facts
<1> SUFFICES ASSUME NEW f \in Facts
             PROVE  Evidence(f) \in Facts
  OBVIOUS
<1>1. (f.working \/ f.op # "none") \in BOOLEAN
  BY DEF Facts
<1>2. (IF OnQueue(f) THEN f.lane ELSE "done") \in Lanes
  BY DEF Facts, Lanes
<1>3. QED
  BY <1>1, <1>2 DEF Evidence, Facts

LEMMA IdleType == Idle \in InFlight
BY DEF Idle, Steps, Admitting, InFlight

(* Reconsidering and settling change the outcome of a run only.            *)
SameCounts(r, q) == r.pressed = q.pressed /\ r.tries = q.tries /\ r.spent = q.spent

LEMMA ReconsideredType ==
  \A r \in Runs, f \in Facts : Reconsidered(r, f) \in Runs /\ SameCounts(Reconsidered(r, f), r)
BY DEF Runs, Reconsidered, SameCounts

LEMMA SettleType ==
  \A r \in Runs, f \in Facts, o \in {"human", "escalated"} :
    Settle(r, f, o) \in Runs /\ SameCounts(Settle(r, f, o), r)
<1> SUFFICES ASSUME NEW r \in Runs, NEW f \in Facts, NEW o \in {"human", "escalated"}
             PROVE  Settle(r, f, o) \in Runs /\ SameCounts(Settle(r, f, o), r)
  OBVIOUS
<1> DEFINE key == IF o = "escalated" THEN Fingerprint(f) ELSE "none"
<1>1. key \in Fingerprints \cup {"none"}
  BY FingerprintType
<1>2. Settle(r, f, o) = [r EXCEPT !.outcome = o, !.settled = key]
  BY DEF Settle
<1> HIDE DEF key
<1>3. QED
  BY <1>1, <1>2 DEF Runs, SameCounts

-----------------------------------------------------------------------------
(* A run's own records are replaced, those of the other runs stay.         *)

LEMMA OwnRecords ==
  ASSUME Inv, NEW s \in Sups, NEW st \in InFlight, NEW r \in Runs, NEW j \in Judges,
         Fits(st, r, j),
         step' = [step EXCEPT ![s] = st], run' = [run EXCEPT ![s] = r],
         judge' = [judge EXCEPT ![s] = j]
  PROVE  RunOK' /\ JudgeOK' /\ StepOK' /\ StepFits'
<1>1. RunOK /\ JudgeOK /\ StepOK /\ StepFits
  BY TypeParts DEF Inv
<1>2. RunOK' /\ JudgeOK' /\ StepOK'
  BY <1>1 DEF RunOK, JudgeOK, StepOK
<1>3. ASSUME NEW t \in Sups
      PROVE  Fits(step'[t], run'[t], judge'[t])
  <2>1. CASE t = s
    BY <1>1, <2>1 DEF RunOK, JudgeOK, StepOK
  <2>2. CASE t # s
    <3>1. step'[t] = step[t] /\ run'[t] = run[t] /\ judge'[t] = judge[t]
      BY <1>1, <2>2 DEF RunOK, JudgeOK, StepOK
    <3>2. QED
      BY <1>1, <3>1 DEF StepFits
  <2>3. QED
    BY <2>1, <2>2
<1>4. StepFits'
  BY <1>3 DEF StepFits
<1>5. QED
  BY <1>2, <1>4

(* The claim stays where it is when no step takes it or gives it back.     *)
LEMMA ClaimStays ==
  ASSUME Inv, NEW s \in Sups, NEW st \in InFlight,
         step' = [step EXCEPT ![s] = st], claim' = claim,
         st.at \in Claiming <=> step[s].at \in Claiming
  PROVE  ClaimHasStep'
<1>1. StepOK /\ ClaimHasStep
  BY TypeParts DEF Inv
<1>2. QED
  BY <1>1 DEF ClaimHasStep, StepOK

LEMMA InitInv == Init => Inv
<1> SUFFICES ASSUME Init
             PROVE  Inv
  OBVIOUS
<1>1. MissionOK /\ RoomToApprove
  <2>1. mission \in [lane : {"active", "review", "fixing", "integration"}, cause : {"none"}, version : {0}]
    BY FirstLaneAssumption DEF Init
  <2>2. 0 \in Versions
    BY SupervisorBounds DEF Versions
  <2>3. QED
    BY <2>1, <2>2 DEF MissionOK, Lanes, Causes, RoomToApprove
<1>2. CommandOK /\ HoldersOK /\ RestOK
  BY SupervisorBounds DEF Init, CommandOK, HoldersOK, RestOK
<1>3. LoopOK /\ ReadsLeft
  BY SupervisorBounds DEF Init, LoopOK, ReadsLeft
<1>4. NewRun \in Runs
  BY SupervisorBounds DEF NewRun, Runs
<1>5. NewJudge \in Judges
  BY SupervisorBounds DEF NewJudge, Judges
<1>6. RunOK /\ JudgeOK /\ StepOK
  BY <1>4, <1>5, IdleType DEF Init, RunOK, JudgeOK, StepOK
<1>7. Fits(Idle, NewRun, NewJudge)
  BY SupervisorBounds DEF Fits, Idle, NewRun, Unspent, Admitting
<1>8. StepFits
  BY <1>7 DEF Init, StepFits
<1>9. ClaimHasStep
  BY SupsAssumption DEF Init, ClaimHasStep, Idle, Claiming, Admitting
<1>10. QED
  BY <1>1, <1>2, <1>3, <1>6, <1>8, <1>9, TypeParts DEF Inv

-----------------------------------------------------------------------------
(* Moves of the step in flight.                                            *)

Moved(s, where) == [step[s] EXCEPT !.at = where]

LEMMA MovedType ==
  ASSUME Inv, NEW s \in Sups, NEW where \in Steps
  PROVE  /\ Moved(s, where) \in InFlight
         /\ Moved(s, where).at = where
         /\ Moved(s, where).item = step[s].item
         /\ Moved(s, where).envelope = step[s].envelope
         /\ Goto(s, where) => step' = [step EXCEPT ![s] = Moved(s, where)]
<1>1. StepOK
  BY TypeParts DEF Inv
<1>2. QED
  BY <1>1 DEF StepOK, InFlight, Moved, Goto

LEMMA SameRecords ==
  ASSUME Inv, NEW s \in Sups
  PROVE  /\ run[s] \in Runs /\ judge[s] \in Judges /\ step[s] \in InFlight
         /\ Fits(step[s], run[s], judge[s])
         /\ run' = run => run' = [run EXCEPT ![s] = run[s]]
         /\ judge' = judge => judge' = [judge EXCEPT ![s] = judge[s]]
         /\ step' = step => step' = [step EXCEPT ![s] = step[s]]
<1>1. RunOK /\ JudgeOK /\ StepOK /\ StepFits
  BY TypeParts DEF Inv
<1>2. QED
  BY <1>1 DEF RunOK, JudgeOK, StepOK, StepFits

(* A step that ends leaves a run that fits no step.                        *)
LEMMA IdleFits ==
  ASSUME NEW st, NEW r, NEW j, Fits(st, r, j)
  PROVE  Fits(Idle, r, j)
BY DEF Fits, Idle, Unspent, Admitting

(* An action that only moves the step and its run's own records.           *)
LEMMA OwnMove ==
  ASSUME Inv, NEW s \in Sups, NEW st \in InFlight, NEW r \in Runs, NEW j \in Judges,
         Fits(st, r, j),
         step' = [step EXCEPT ![s] = st], run' = [run EXCEPT ![s] = r],
         judge' = [judge EXCEPT ![s] = j],
         st.at \in Claiming <=> step[s].at \in Claiming,
         UNCHANGED <<world, claim, loop, signal>>, faults' \in 0..MaxFaults
  PROVE  Inv'
<1>1. RunOK' /\ JudgeOK' /\ StepOK' /\ StepFits'
  BY OwnRecords
<1>2. ClaimHasStep'
  BY ClaimStays
<1>3. MissionOK' /\ CommandOK' /\ HoldersOK' /\ LoopOK' /\ RestOK'
  BY TypeParts DEF Inv, world, MissionOK, CommandOK, HoldersOK, LoopOK, RestOK
<1>4. RoomToApprove' /\ ReadsLeft'
  BY DEF Inv, world, RoomToApprove, ReadsLeft
<1>5. TypeOK'
  BY <1>1, <1>3 DEF TypeOK, MissionOK, CommandOK, HoldersOK, LoopOK, RunOK, JudgeOK, StepOK, InFlight, RestOK
<1>6. QED
  BY <1>1, <1>2, <1>4, <1>5 DEF Inv

LEMMA FaultCounted ==
  ASSUME Inv
  PROVE  faults \in 0..MaxFaults /\ (faults < MaxFaults /\ faults' = faults + 1 => faults' \in 0..MaxFaults)
BY SupervisorBounds DEF Inv, TypeOK

(* An action that only moves the step.                                     *)
LEMMA StepMove ==
  ASSUME Inv, NEW s \in Sups, NEW st \in InFlight, Fits(st, run[s], judge[s]),
         step' = [step EXCEPT ![s] = st],
         st.at \in Claiming <=> step[s].at \in Claiming,
         UNCHANGED <<world, claim, loop, run, judge, signal>>, faults' \in 0..MaxFaults
  PROVE  Inv'
<1>1. run[s] \in Runs /\ judge[s] \in Judges
  BY SameRecords
<1>2. run' = [run EXCEPT ![s] = run[s]] /\ judge' = [judge EXCEPT ![s] = judge[s]]
  BY SameRecords
<1>3. UNCHANGED <<world, claim, loop, signal>>
  OBVIOUS
<1> DEFINE r == run[s]
           j == judge[s]
<1>4. /\ r \in Runs /\ j \in Judges /\ Fits(st, r, j)
      /\ run' = [run EXCEPT ![s] = r] /\ judge' = [judge EXCEPT ![s] = j]
  BY <1>1, <1>2
<1> HIDE DEF r, j
<1>5. QED
  BY <1>3, <1>4, OwnMove

LEMMA DispatchInv ==
  ASSUME Inv, NEW s \in Sups, Dispatch(s)
  PROVE  Inv'
<1>1. Fits(step[s], run[s], judge[s]) /\ step[s].at = "dispatch"
  BY SameRecords DEF Dispatch, At
<1>2. faults' \in 0..MaxFaults
  BY FaultCounted DEF Dispatch
<1>3. CASE Done(s)
  BY <1>1, <1>2, <1>3, IdleFits, IdleType, StepMove DEF Dispatch, Done, Idle, Claiming, Admitting
<1>4. CASE Goto(s, "press")
  <2>1. Fits(Moved(s, "press"), run[s], judge[s])
    BY <1>1, MovedType DEF Fits, Steps, Unspent, Admitting
  <2>2. QED
    BY <1>1, <1>2, <1>4, <2>1, MovedType, StepMove DEF Dispatch, Steps, Claiming, Admitting
<1>5. QED
  BY <1>3, <1>4 DEF Dispatch

LEMMA PressInv ==
  ASSUME Inv, NEW s \in Sups, FinishApproval(s) \/ Forward(s) \/ PressFails(s)
  PROVE  Inv'
<1>1. /\ Fits(step[s], run[s], judge[s]) /\ step[s].at = "press"
      /\ run[s] \in Runs /\ judge[s] \in Judges
  BY SameRecords DEF FinishApproval, Forward, PressFails, At
<1>2. step[s].item \in Facts /\ Key(step[s].item) \in Keys
  BY <1>1, KeyType DEF Fits
<1> DEFINE k == Key(step[s].item)
           pressed == [run[s] EXCEPT !.pressed = @ \cup {k}]
<1>3. pressed \in Runs /\ Fits(Idle, pressed, judge[s])
  <2>1. pressed \in Runs
    BY <1>1, <1>2 DEF Runs
  <2>2. Fits(step[s], run[s], judge[s]) => Fits(Idle, pressed, judge[s])
    BY <1>1 DEF Fits, Idle, Unspent, Admitting, Runs
  <2>3. QED
    BY <1>1, <2>1, <2>2
<1>4. Pressed(s) = [run EXCEPT ![s] = pressed]
  BY TypeParts DEF Inv, Pressed, RunOK
<1>5. judge' = [judge EXCEPT ![s] = judge[s]]
  BY SameRecords DEF FinishApproval, Forward, PressFails
<1>6. step' = [step EXCEPT ![s] = Idle]
  BY DEF FinishApproval, Forward, PressFails, Done
<1>7. ClaimHasStep'
  BY <1>1, <1>6, IdleType, ClaimStays
  DEF FinishApproval, Forward, PressFails, world, Idle, Claiming, Admitting
<1>8. LoopOK' /\ ReadsLeft'
  BY TypeParts DEF Inv, LoopOK, ReadsLeft, FinishApproval, Forward, PressFails
<1>9. CASE FinishApproval(s) \/ Forward(s)
  <2>1. run' = [run EXCEPT ![s] = pressed]
    BY <1>4, <1>9 DEF FinishApproval, Forward
  <2>2. RunOK' /\ JudgeOK' /\ StepOK' /\ StepFits'
    BY <1>1, <1>3, <1>5, <1>6, <2>1, IdleType, OwnRecords
  <2>3. MissionOK' /\ RoomToApprove'
    <3>1. CASE FinishApproval(s)
      <4>1. mission.version \in 0..MaxVersion
        BY <3>1, TypeParts, SupervisorBounds
        DEF Inv, FinishApproval, Parked, RoomToApprove, MissionOK, Versions
      <4>2. mission.version + 1 \in Versions
        BY <4>1, SupervisorBounds DEF Versions
      <4>3. QED
        BY <3>1, <4>2, TypeParts DEF Inv, FinishApproval, MissionOK, RoomToApprove, Lanes
    <3>2. CASE Forward(s)
      BY <3>2, TypeParts DEF Inv, Forward, MissionOK, RoomToApprove
    <3>3. QED
      BY <1>9, <3>1, <3>2
  <2>4. CommandOK' /\ HoldersOK' /\ RestOK'
    BY <1>9, FaultCounted, TypeParts DEF Inv, FinishApproval, Forward, CommandOK, HoldersOK, RestOK
  <2>5. QED
    BY <1>7, <1>8, <2>2, <2>3, <2>4
    DEF Inv, TypeOK, MissionOK, CommandOK, HoldersOK, LoopOK, RunOK, JudgeOK, StepOK, InFlight, RestOK
<1>10. CASE PressFails(s)
  <2> DEFINE tried == run[s].tries[k] + 1
             r == [run[s] EXCEPT !.tries[k] = tried,
                                 !.pressed = IF tried < ActionAttempts THEN @ ELSE @ \cup {k}]
  <2>1. run[s].tries[k] \in Nat /\ run[s].tries[k] < ActionAttempts
    BY <1>1, <1>2 DEF Fits, Runs
  <2>2. tried \in 0..ActionAttempts
    BY <2>1, SupervisorBounds
  <2>3. [run[s].tries EXCEPT ![k] = tried] \in [Keys -> 0..ActionAttempts]
    BY <1>1, <2>2 DEF Runs
  <2>4. r = [[run[s] EXCEPT !.tries = [run[s].tries EXCEPT ![k] = tried]]
               EXCEPT !.pressed = IF tried < ActionAttempts THEN run[s].pressed ELSE run[s].pressed \cup {k}]
    BY <1>1 DEF Runs
  <2>5. r \in Runs
    BY <1>1, <1>2, <2>3, <2>4 DEF Runs
  <2>6. \A q \in Keys : q \notin r.pressed => r.tries[q] < ActionAttempts
    BY <1>1, <1>2, <2>2, <2>4 DEF Runs, Fits
  <2>7. Fits(Idle, r, judge[s])
    BY <2>6 DEF Fits, Idle, Unspent, Admitting
  <2>8. run' = [run EXCEPT ![s] = r]
    BY <1>1, <1>10, TypeParts DEF Inv, RunOK, PressFails
  <2>9. Idle.at \in Claiming <=> step[s].at \in Claiming
    BY <1>1 DEF Idle, Claiming, Admitting
  <2>10. UNCHANGED <<world, claim, loop, signal>> /\ faults' \in 0..MaxFaults
    BY <1>10, FaultCounted DEF PressFails
  <2> HIDE DEF r
  <2>11. QED
    BY <1>1, <1>5, <1>6, <2>5, <2>7, <2>8, <2>9, <2>10, IdleType, OwnMove
<1>11. QED
  BY <1>9, <1>10

LEMMA ClaimInv ==
  ASSUME Inv, NEW s \in Sups, Claim(s)
  PROVE  Inv'
<1>1. /\ Fits(step[s], run[s], judge[s]) /\ step[s].at = "claim"
      /\ run[s] \in Runs /\ judge[s] \in Judges
  BY SameRecords DEF Claim, At
<1>2. /\ run' = [run EXCEPT ![s] = run[s]] /\ judge' = [judge EXCEPT ![s] = judge[s]]
      /\ faults' \in 0..MaxFaults
  BY SameRecords, FaultCounted DEF Claim
<1>3. CASE Done(s) /\ UNCHANGED claim
  BY <1>1, <1>2, <1>3, IdleFits, IdleType, StepMove DEF Claim, Done, Idle, Claiming, Admitting
<1>4. CASE claim = "none" /\ claim' = s /\ Goto(s, "confirm")
  <2> DEFINE st == Moved(s, "confirm")
  <2>1. st \in InFlight /\ st.at = "confirm" /\ step' = [step EXCEPT ![s] = st]
    BY <1>4, MovedType DEF Steps, Claiming, Admitting
  <2>2. Fits(st, run[s], judge[s])
    BY <1>1, MovedType DEF Fits, Steps, Claiming, Admitting, Unspent
  <2> HIDE DEF st
  <2>3. RunOK' /\ JudgeOK' /\ StepOK' /\ StepFits'
    BY <1>1, <1>2, <2>1, <2>2, OwnRecords
  <2>4. ClaimHasStep'
    BY <1>4, <2>1, TypeParts, SupsAssumption DEF Inv, ClaimHasStep, StepOK, Claiming, Admitting
  <2>5. MissionOK' /\ CommandOK' /\ HoldersOK' /\ LoopOK' /\ RestOK'
    BY <1>4, TypeParts DEF Inv, Claim, world, MissionOK, CommandOK, HoldersOK, LoopOK, RestOK
  <2>6. RoomToApprove' /\ ReadsLeft'
    BY DEF Inv, Claim, world, RoomToApprove, ReadsLeft
  <2>7. QED
    BY <2>3, <2>4, <2>5, <2>6
    DEF Inv, TypeOK, MissionOK, CommandOK, HoldersOK, LoopOK, RunOK, JudgeOK, StepOK, InFlight, RestOK
<1>5. QED
  BY <1>3, <1>4 DEF Claim

LEMMA ReleaseInv ==
  ASSUME Inv, NEW s \in Sups, Release(s)
  PROVE  Inv'
<1>1. /\ Fits(step[s], run[s], judge[s]) /\ step[s].at = "release"
      /\ run[s] \in Runs /\ judge[s] \in Judges
  BY SameRecords DEF Release, At
<1>2. /\ run' = [run EXCEPT ![s] = run[s]] /\ judge' = [judge EXCEPT ![s] = judge[s]]
      /\ step' = [step EXCEPT ![s] = Idle]
  BY SameRecords DEF Release, Done
<1>3. RunOK' /\ JudgeOK' /\ StepOK' /\ StepFits'
  BY <1>1, <1>2, IdleFits, IdleType, OwnRecords
<1>4. ClaimHasStep'
  <2>1. claim = s
    BY <1>1 DEF Inv, ClaimHasStep, Claiming, Admitting
  <2>2. ASSUME NEW t \in Sups PROVE step'[t].at \notin Claiming
    BY <1>2, <2>1, TypeParts DEF Inv, ClaimHasStep, StepOK, Idle, Claiming, Admitting
  <2>3. QED
    BY <2>2, SupsAssumption DEF Release, ClaimHasStep
<1>5. MissionOK' /\ CommandOK' /\ HoldersOK' /\ LoopOK' /\ RestOK'
  BY TypeParts DEF Inv, Release, world, MissionOK, CommandOK, HoldersOK, LoopOK, RestOK
<1>6. RoomToApprove' /\ ReadsLeft'
  BY DEF Inv, Release, world, RoomToApprove, ReadsLeft
<1>7. QED
  BY <1>3, <1>4, <1>5, <1>6
  DEF Inv, TypeOK, MissionOK, CommandOK, HoldersOK, LoopOK, RunOK, JudgeOK, StepOK, InFlight, RestOK

(* A step under the claim that goes on under it, with what it needs.       *)
LEMMA UnderClaim ==
  ASSUME Inv, NEW s \in Sups, NEW where \in Claiming, step[s].at \in Claiming,
         NEW r \in Runs, run' = [run EXCEPT ![s] = r], UNCHANGED judge,
         Fits(Moved(s, where), r, judge[s]), Goto(s, where),
         UNCHANGED <<world, claim, loop, signal>>, faults' \in 0..MaxFaults
  PROVE  Inv'
<1> DEFINE st == Moved(s, where)
<1>1. where \in Steps
  BY DEF Steps, Admitting
<1>2. st \in InFlight /\ st.at = where /\ step' = [step EXCEPT ![s] = st]
  BY <1>1, MovedType
<1>3. judge[s] \in Judges /\ judge' = [judge EXCEPT ![s] = judge[s]]
  BY SameRecords
<1> HIDE DEF st
<1>4. Fits(st, r, judge[s])
  BY DEF st
<1>5. QED
  BY <1>2, <1>3, <1>4, OwnMove

(* The way out is always open: it needs nothing of what the run remembers. *)
LEMMA ReleaseFits ==
  ASSUME Inv, NEW s \in Sups, step[s].at \in Claiming, NEW r, NEW j,
         \A k \in Keys : k \notin r.pressed => r.tries[k] < ActionAttempts
  PROVE  Fits(Moved(s, "release"), r, j)
<1>1. step[s].at # "none" /\ "release" \in Steps
  BY DEF Claiming, Admitting, Steps
<1>2. step[s].item \in Facts
  BY <1>1, SameRecords DEF Fits
<1>3. QED
  BY <1>1, <1>2, MovedType DEF Fits, Unspent, Admitting

LEMMA EscalateType ==
  ASSUME Inv, NEW s \in Sups, step[s].at \in Claiming
  PROVE  LET r == Settle(run[s], step[s].item, "escalated")
         IN  /\ r \in Runs /\ SameCounts(r, run[s])
             /\ Escalate(s) => run' = [run EXCEPT ![s] = r] /\ Goto(s, "release")
<1>1. step[s].item \in Facts
  BY SameRecords DEF Fits, Claiming, Admitting
<1>2. run[s] \in Runs
  BY SameRecords
<1>3. QED
  BY <1>1, <1>2, SettleType, TypeParts DEF Inv, RunOK, Escalate

(* Going on under the claim without writing to the run.                    *)
LEMMA GoOn ==
  ASSUME Inv, NEW s \in Sups, NEW where \in Claiming, step[s].at \in Claiming,
         Goto(s, where), UNCHANGED <<world, claim, loop, run, judge, signal>>,
         faults' \in 0..MaxFaults,
         Fits(Moved(s, where), run[s], judge[s])
  PROVE  Inv'
BY SameRecords, UnderClaim

LEMMA GoToRelease ==
  ASSUME Inv, NEW s \in Sups, step[s].at \in Claiming,
         Goto(s, "release"), UNCHANGED <<world, claim, loop, run, judge, signal>>,
         faults' \in 0..MaxFaults
  PROVE  Inv'
<1>1. \A k \in Keys : k \notin run[s].pressed => run[s].tries[k] < ActionAttempts
  BY SameRecords DEF Fits
<1>2. Fits(Moved(s, "release"), run[s], judge[s])
  BY <1>1, ReleaseFits
<1>3. "release" \in Claiming
  BY DEF Claiming, Admitting
<1>4. QED
  BY <1>2, <1>3, GoOn

LEMMA GivesUp ==
  ASSUME Inv, NEW s \in Sups, step[s].at \in Claiming, Escalate(s),
         NEW j \in Judges, judge' = [judge EXCEPT ![s] = j],
         UNCHANGED <<world, claim, loop, signal>>, faults' \in 0..MaxFaults
  PROVE  Inv'
<1> DEFINE r == Settle(run[s], step[s].item, "escalated")
           st == Moved(s, "release")
<1>1. r \in Runs /\ SameCounts(r, run[s]) /\ run' = [run EXCEPT ![s] = r] /\ Goto(s, "release")
  BY EscalateType
<1>2. "release" \in Steps /\ "release" \in Claiming
  BY DEF Steps, Claiming, Admitting
<1>3. st \in InFlight /\ st.at = "release" /\ step' = [step EXCEPT ![s] = st]
  BY <1>1, <1>2, MovedType
<1>4. \A k \in Keys : k \notin r.pressed => r.tries[k] < ActionAttempts
  BY <1>1, SameRecords DEF Fits, SameCounts
<1>5. Fits(st, r, j)
  BY <1>4, ReleaseFits
<1> HIDE DEF st, r
<1>6. QED
  BY <1>1, <1>2, <1>3, <1>5, OwnMove

LEMMA ConfirmInv ==
  ASSUME Inv, NEW s \in Sups, Confirm(s)
  PROVE  Inv'
<1>1. Fits(step[s], run[s], judge[s]) /\ step[s].at = "confirm" /\ step[s].at \in Claiming
  BY SameRecords DEF Confirm, At, Claiming, Admitting
<1>2. UNCHANGED <<world, claim, loop, run, judge, signal>> /\ faults' \in 0..MaxFaults
  BY FaultCounted DEF Confirm
<1>3. CASE Goto(s, "release")
  BY <1>1, <1>2, <1>3, GoToRelease
<1>4. CASE Goto(s, "judge")
  <2>1. Fits(Moved(s, "judge"), run[s], judge[s])
    BY <1>1, MovedType DEF Fits, Steps, Claiming, Admitting, Unspent
  <2>2. "judge" \in Claiming
    BY DEF Claiming, Admitting
  <2>3. QED
    BY <1>1, <1>2, <1>4, <2>1, <2>2, GoOn
<1>5. QED
  BY <1>3, <1>4 DEF Confirm

LEMMA JudgeInv ==
  ASSUME Inv, NEW s \in Sups, Judge(s) \/ JudgeFails(s) \/ JudgeLate(s)
  PROVE  Inv'
<1>1. Fits(step[s], run[s], judge[s]) /\ step[s].at = "judge" /\ step[s].at \in Claiming
  BY SameRecords DEF Judge, JudgeFails, JudgeLate, At, Claiming, Admitting
<1>2. UNCHANGED <<world, claim, loop, signal>> /\ faults' \in 0..MaxFaults
  BY FaultCounted DEF Judge, JudgeFails, JudgeLate
<1>3. judge[s] \in Judges /\ run[s] \in Runs
  BY SameRecords
<1>4. CASE JudgeFails(s) \/ JudgeLate(s)
  <2>1. \A started, late \in BOOLEAN : [judge[s] EXCEPT !.started = started, !.late = late] \in Judges
    BY <1>3 DEF Judges
  <2>2. /\ \E started, late \in BOOLEAN :
             judge' = [judge EXCEPT ![s] = [judge[s] EXCEPT !.started = started, !.late = late]]
        /\ Escalate(s)
    <3>1. CASE JudgeFails(s)
      <4>1. judge' = [judge EXCEPT ![s] = [judge[s] EXCEPT !.started = TRUE, !.late = judge[s].late]]
        BY <3>1, TypeParts DEF Inv, JudgeOK, Judges, JudgeFails
      <4>2. judge[s].late \in BOOLEAN
        BY <1>3 DEF Judges
      <4>3. QED
        BY <3>1, <4>1, <4>2 DEF JudgeFails
    <3>2. CASE JudgeLate(s)
      <4>1. judge' = [judge EXCEPT ![s] = [judge[s] EXCEPT !.started = judge[s].started, !.late = TRUE]]
        BY <3>2, TypeParts DEF Inv, JudgeOK, Judges, JudgeLate
      <4>2. judge[s].started \in BOOLEAN
        BY <1>3 DEF Judges
      <4>3. QED
        BY <3>2, <4>1, <4>2 DEF JudgeLate
    <3>3. QED
      BY <1>4, <3>1, <3>2
  <2>3. QED
    BY <1>1, <1>2, <2>1, <2>2, GivesUp
<1> DEFINE e == Evidence(Now)
<1>5. CASE Escalate(s) /\ UNCHANGED judge
  BY <1>1, <1>2, <1>3, <1>5, SameRecords, GivesUp
<1>6. CASE Goto(s, "release") /\ UNCHANGED <<run, judge>>
  BY <1>1, <1>2, <1>6, GoToRelease
<1>7. CASE /\ ~Exhausted(s)
           /\ judge' = [judge EXCEPT ![s].seen = @ \cup {e}, ![s].count = @ + 1, ![s].started = TRUE]
           /\ step' = [step EXCEPT ![s].at = "consult", ![s].envelope = e]
           /\ UNCHANGED run
  <2> DEFINE j == [judge[s] EXCEPT !.seen = @ \cup {e}, !.count = @ + 1, !.started = TRUE]
             st == [step[s] EXCEPT !.at = "consult", !.envelope = e]
  <2>1. e \in Facts
    BY NowType, EvidenceType, TypeParts DEF Inv
  <2>2. judge[s].count + 1 \in 0..MaxInvocations
    BY <1>3, <1>7, SupervisorBounds DEF Judges, Exhausted
  <2>3. j \in Judges /\ e \in j.seen
    <3> HIDE DEF e
    <3>1. QED
      BY <1>3, <2>1, <2>2 DEF Judges
  <2>4. /\ st \in InFlight /\ st.at = "consult"
        /\ st.item = step[s].item /\ st.envelope = e
    <3>1. step[s] \in InFlight
      BY SameRecords
    <3> HIDE DEF e
    <3>2. QED
      BY <2>1, <3>1 DEF InFlight, Steps, Claiming, Admitting
  <2>5. Fits(st, run[s], j)
    BY <1>1, <2>3, <2>4 DEF Fits, Unspent, Admitting
  <2>6. judge' = [judge EXCEPT ![s] = j] /\ step' = [step EXCEPT ![s] = st]
    <3> HIDE DEF e
    <3>1. QED
      BY <1>7, TypeParts DEF Inv, JudgeOK, StepOK, Judges, InFlight
  <2>7. run' = [run EXCEPT ![s] = run[s]]
    BY <1>7, SameRecords
  <2>8. st.at \in Claiming <=> step[s].at \in Claiming
    BY <1>1, <2>4 DEF Claiming, Admitting
  <2> HIDE DEF st, j
  <2>9. QED
    BY <1>2, <1>3, <2>3, <2>4, <2>5, <2>6, <2>7, <2>8, OwnMove
<1>8. QED
  BY <1>4, <1>5, <1>6, <1>7 DEF Judge

LEMMA ConsultInv ==
  ASSUME Inv, NEW s \in Sups, Consult(s)
  PROVE  Inv'
<1>1. Fits(step[s], run[s], judge[s]) /\ step[s].at = "consult" /\ step[s].at \in Claiming
  BY SameRecords DEF Consult, At, Claiming, Admitting
<1>2. UNCHANGED <<world, claim, loop, judge, signal, faults>> /\ faults' \in 0..MaxFaults
  BY FaultCounted DEF Consult
<1>3. CASE Escalate(s)
  BY <1>1, <1>2, <1>3, SameRecords, GivesUp
<1>4. CASE Goto(s, "release") /\ UNCHANGED run
  BY <1>1, <1>2, <1>4, GoToRelease
<1>5. CASE MayContinue(step[s].envelope) /\ Goto(s, "recheck") /\ UNCHANGED run
  <2>1. Fits(Moved(s, "recheck"), run[s], judge[s])
    BY <1>1, <1>5, MovedType DEF Fits, Steps, Claiming, Unspent, Admitting
  <2>2. "recheck" \in Claiming
    BY DEF Claiming, Admitting
  <2>3. QED
    BY <1>1, <1>2, <1>5, <2>1, <2>2, GoOn
<1>6. QED
  BY <1>3, <1>4, <1>5 DEF Consult

LEMMA RecheckInv ==
  ASSUME Inv, NEW s \in Sups, Recheck(s)
  PROVE  Inv'
<1>1. Fits(step[s], run[s], judge[s]) /\ step[s].at = "recheck" /\ step[s].at \in Claiming
  BY SameRecords DEF Recheck, At, Claiming, Admitting
<1>2. UNCHANGED <<world, claim, loop, judge, signal, faults>> /\ faults' \in 0..MaxFaults
  BY FaultCounted DEF Recheck
<1>3. run[s] \in Runs
  BY SameRecords
<1>4. CASE Goto(s, "release") /\ UNCHANGED run
  BY <1>1, <1>2, <1>4, GoToRelease
<1>5. CASE /\ run' = [run EXCEPT ![s].spent[Fingerprint(step[s].item)] = @ + 1]
           /\ Goto(s, "admit")
  <2> DEFINE f == Fingerprint(step[s].item)
             spent == [run[s].spent EXCEPT ![f] = @ + 1]
             r == [run[s] EXCEPT !.spent = spent]
  <2>1. f \in Fingerprints
    BY <1>1, FingerprintType DEF Fits
  <2>2. run[s].spent[f] \in 0..Budget /\ run[s].spent[f] < Budget
    BY <1>1, <1>3, <2>1 DEF Runs, Fits, Unspent, Admitting
  <2>3. run' = [run EXCEPT ![s] = r]
    BY <1>3, <1>5, TypeParts DEF Inv, RunOK
  <2> HIDE DEF f
  <2>4. spent \in [Fingerprints -> 0..Budget] /\ spent[f] >= 1
    BY <1>3, <2>1, <2>2, SupervisorBounds DEF Runs
  <2>5. r \in Runs /\ r.spent = spent /\ r.pressed = run[s].pressed /\ r.tries = run[s].tries
    <3> HIDE DEF spent
    <3>1. QED
      BY <1>3, <2>4 DEF Runs
  <2>6. Moved(s, "admit").at = "admit" /\ Moved(s, "admit").item = step[s].item
        /\ Moved(s, "admit").envelope = step[s].envelope
    BY MovedType DEF Steps, Claiming, Admitting
  <2> HIDE DEF r, spent
  <2>7. Fits(Moved(s, "admit"), r, judge[s])
    BY <1>1, <2>4, <2>5, <2>6 DEF Fits, Unspent, Admitting, f
  <2>8. "admit" \in Claiming
    BY DEF Claiming, Admitting
  <2>9. QED
    BY <1>1, <1>2, <1>5, <2>3, <2>5, <2>7, <2>8, UnderClaim
<1>6. QED
  BY <1>4, <1>5 DEF Recheck

(* A read of the last admission goes on, or gives up.                      *)
LEMMA AdmitReads ==
  ASSUME NEW s \in Sups, Admit(s)
  PROVE  /\ step[s].at \in Admitting
         /\ \/ Goto(s, "release")
            \/ step[s].at # "liveness" /\ \E where \in Admitting : Goto(s, where)
            \/ step[s].at = "liveness" /\ ~Working /\ Goto(s, "spawn")
         /\ UNCHANGED <<world, claim, loop, run, judge, signal, faults>>
BY DEF Admit, AdmitMission, AdmitOperation, AdmitBoard, AdmitLiveness, ReadOn, At, Admitting

LEMMA LaunchInv ==
  ASSUME Inv, NEW s \in Sups, Admit(s) \/ Spawn(s) \/ AgentExits(s)
  PROVE  Inv'
<1>1. Fits(step[s], run[s], judge[s]) /\ step[s].at \in Admitting \cup {"spawn", "recovering"}
      /\ step[s].at \in Claiming
  BY SameRecords, AdmitReads DEF Spawn, AgentExits, At, Claiming, Admitting
<1>2. UNCHANGED <<world, claim, loop, run, judge, signal, faults>> /\ faults' \in 0..MaxFaults
  BY FaultCounted, AdmitReads DEF Spawn, AgentExits
<1>3. CASE Goto(s, "release")
  BY <1>1, <1>2, <1>3, GoToRelease
<1>4. ASSUME NEW where \in Admitting \cup {"spawn", "recovering"}, Goto(s, where),
             where \in Admitting => step[s].at \in Admitting
      PROVE  Inv'
  <2>1. where \in Claiming
    BY DEF Claiming, Admitting
  <2>2. Fits(Moved(s, where), run[s], judge[s])
    BY <1>1, <1>4, <2>1, MovedType DEF Fits, Steps, Claiming, Unspent, Admitting
  <2>3. QED
    BY <1>1, <1>2, <1>4, <2>1, <2>2, GoOn
<1>5. CASE Admit(s)
  <2>1. CASE \E where \in Admitting : Goto(s, where)
    BY <1>4, <1>5, <2>1, AdmitReads
  <2>2. CASE Goto(s, "spawn")
    BY <1>4, <2>2 DEF Admitting
  <2>3. QED
    BY <1>3, <1>5, <2>1, <2>2, AdmitReads
<1>6. CASE Spawn(s) \/ AgentExits(s)
  BY <1>3, <1>4, <1>6 DEF Spawn, AgentExits, Admitting
<1>7. QED
  BY <1>5, <1>6

LEMMA FailureInv ==
  ASSUME Inv, NEW s \in Sups, StepFails(s)
  PROVE  Inv'
<1>1. Fits(step[s], run[s], judge[s])
  BY SameRecords
<1>2. UNCHANGED <<world, claim, loop, run, judge, signal>> /\ faults' \in 0..MaxFaults
  BY FaultCounted DEF StepFails
<1>3. CASE step[s].at \in Claiming
  BY <1>2, <1>3, GoToRelease DEF StepFails
<1>4. CASE step[s].at \notin Claiming
  BY <1>1, <1>2, <1>4, IdleFits, IdleType, StepMove DEF StepFails, Done, Idle, Claiming, Admitting
<1>5. QED
  BY <1>3, <1>4

-----------------------------------------------------------------------------
(* Everybody else, and the loop of a run.                                  *)

LEMMA ChangeType ==
  ASSUME Inv, NEW lanes \in SUBSET Lanes, Change(lanes)
  PROVE  MissionOK' /\ RoomToApprove'
<1>1. mission.version \in Nat /\ mission.version < MaxVersion
  BY TypeParts, SupervisorBounds DEF Inv, MissionOK, Versions, Change
<1>2. mission.version + 1 \in Versions /\ mission.version + 1 <= MaxVersion
  BY <1>1, SupervisorBounds DEF Versions
<1>3. PICK l \in lanes, c \in Causes :
        mission' = [lane |-> l, cause |-> c, version |-> mission.version + 1]
  BY DEF Change
<1>4. QED
  BY <1>2, <1>3 DEF MissionOK, RoomToApprove

LEMMA MovesType == mission.lane \in Lanes => Moves[mission.lane] \cup {"done"} \in SUBSET Lanes
BY DEF Moves, Lanes

LEMMA EnvironmentInv ==
  ASSUME Inv, Environment
  PROVE  Inv'
<1>1. UNCHANGED <<claim, loop, run, judge, step>>
  BY DEF Environment, Admitted, CommandWorks, CommandEnds, AgentWorks, Interrupt, OperatorDecides, world
<1>2. LoopOK' /\ RunOK' /\ JudgeOK' /\ StepOK' /\ ReadsLeft' /\ StepFits' /\ ClaimHasStep'
  BY <1>1, TypeParts DEF Inv, LoopOK, RunOK, JudgeOK, StepOK, ReadsLeft, StepFits, ClaimHasStep
<1>3. Moves[mission.lane] \in SUBSET Lanes /\ Moves[mission.lane] \cup {"done"} \in SUBSET Lanes
  BY MovesType, TypeParts DEF Inv, MissionOK
<1>4. MissionOK' /\ RoomToApprove'
  <2>1. CASE UNCHANGED mission
    BY <2>1, TypeParts DEF Inv, MissionOK, RoomToApprove
  <2>2. CASE Change(Moves[mission.lane])
    BY <1>3, <2>2, ChangeType
  <2>3. CASE Change(Moves[mission.lane] \cup (IF mission.lane = "integration" THEN {"done"} ELSE {}))
    <3>1. Moves[mission.lane] \cup (IF mission.lane = "integration" THEN {"done"} ELSE {}) \in SUBSET Lanes
      BY <1>3
    <3>2. QED
      BY <2>3, <3>1, ChangeType
  <2>4. QED
    BY <2>1, <2>2, <2>3
    DEF Environment, Admitted, CommandWorks, CommandEnds, AgentWorks, Interrupt, OperatorDecides, world
<1>5. CommandOK' /\ HoldersOK' /\ RestOK'
  <2>1. CommandOK /\ HoldersOK /\ RestOK
    BY TypeParts DEF Inv
  <2>2. ASSUME NEW s \in Sups, Admitted(s) \/ CommandEnds(s)
        PROVE  CommandOK' /\ HoldersOK' /\ RestOK'
    BY <2>1, <2>2 DEF Admitted, CommandEnds, CommandOK, HoldersOK, RestOK
  <2>3. ASSUME NEW s \in Sups, CommandWorks(s) \/ AgentWorks(s)
        PROVE  CommandOK' /\ HoldersOK' /\ RestOK'
    BY <2>1, <2>3 DEF CommandWorks, AgentWorks, CommandOK, HoldersOK, RestOK
  <2>4. ASSUME NEW s \in Sups, Interrupt(s)
        PROVE  CommandOK' /\ HoldersOK' /\ RestOK'
    BY <2>1, <2>4, FaultCounted DEF Interrupt, world, CommandOK, HoldersOK, RestOK
  <2>5. CASE OperatorDecides
    BY <2>1, <2>5 DEF OperatorDecides, CommandOK, HoldersOK, RestOK
  <2>6. QED
    BY <2>2, <2>3, <2>4, <2>5 DEF Environment
<1>6. QED
  BY <1>2, <1>4, <1>5
  DEF Inv, TypeOK, MissionOK, CommandOK, HoldersOK, LoopOK, RunOK, JudgeOK, StepOK, InFlight, RestOK

(* The loop leaves the world, the claim and the judgment service alone;    *)
(* what it may do to a run and its step is what OwnRecords allows.         *)
LEMMA LoopMove ==
  ASSUME Inv, NEW s \in Sups, NEW st \in InFlight, NEW r \in Runs,
         Fits(st, r, judge[s]),
         step' = [step EXCEPT ![s] = st], run' = [run EXCEPT ![s] = r],
         st.at \in Claiming <=> step[s].at \in Claiming,
         LoopOK', ReadsLeft',
         UNCHANGED <<world, claim, judge, signal>>, faults' \in 0..MaxFaults
  PROVE  Inv'
<1>1. judge[s] \in Judges /\ judge' = [judge EXCEPT ![s] = judge[s]]
  BY SameRecords
<1>2. RunOK' /\ JudgeOK' /\ StepOK' /\ StepFits'
  BY <1>1, OwnRecords
<1>3. ClaimHasStep'
  BY ClaimStays
<1>4. MissionOK' /\ CommandOK' /\ HoldersOK' /\ RestOK' /\ RoomToApprove'
  BY TypeParts DEF Inv, world, MissionOK, CommandOK, HoldersOK, RestOK, RoomToApprove
<1>5. QED
  BY <1>2, <1>3, <1>4
  DEF Inv, TypeOK, MissionOK, CommandOK, HoldersOK, LoopOK, RunOK, JudgeOK, StepOK, InFlight, RestOK

LEMMA SuperviseInv ==
  ASSUME Inv, NEW s \in Sups, NEW f \in Facts, NEW r \in Runs, SameCounts(r, run[s]),
         Supervise(s, r, f), LoopOK', ReadsLeft',
         UNCHANGED <<world, claim, judge, signal>>, faults' \in 0..MaxFaults
  PROVE  Inv'
<1>1. Fits(step[s], run[s], judge[s]) /\ step[s] \in InFlight
  BY SameRecords
<1>2. /\ Fits(step[s], r, judge[s])
      /\ \A k \in Keys : k \notin r.pressed => r.tries[k] < ActionAttempts
  BY <1>1 DEF Fits, SameCounts
<1>3. ASSUME NEW q \in Runs, SameCounts(q, r), run' = [run EXCEPT ![s] = q], UNCHANGED step
      PROVE  Inv'
  <2>1. Fits(step[s], q, judge[s])
    BY <1>2, <1>3 DEF Fits, SameCounts
  <2>2. QED
    BY <1>1, <1>3, <2>1, SameRecords, LoopMove
<1>4. ASSUME NEW at \in {"dispatch", "claim"}, step[s].at = "none",
             at = "dispatch" => Key(f) \notin r.pressed,
             at = "claim" => r.spent[Fingerprint(f)] < Budget,
             run' = [run EXCEPT ![s] = r],
             step' = [step EXCEPT ![s] = [Idle EXCEPT !.at = at, !.item = f]]
      PROVE  Inv'
  <2> DEFINE st == [Idle EXCEPT !.at = at, !.item = f]
  <2>1. st \in InFlight /\ st.at = at /\ st.item = f
    BY DEF Idle, InFlight, Steps, Admitting
  <2>2. Fits(st, r, judge[s])
    BY <1>2, <1>4, <2>1 DEF Fits, Unspent, Admitting
  <2>3. st.at \in Claiming <=> step[s].at \in Claiming
    BY <1>4, <2>1 DEF Claiming, Admitting
  <2> HIDE DEF st
  <2>4. QED
    BY <1>4, <2>1, <2>2, <2>3, LoopMove DEF st
<1>5. ASSUME NEW o \in {"human", "escalated"}, run' = [run EXCEPT ![s] = Settle(r, f, o)], UNCHANGED step
      PROVE  Inv'
  BY <1>3, <1>5, SettleType
<1>6. CASE run' = [run EXCEPT ![s] = r] /\ UNCHANGED step
  BY <1>3, <1>6 DEF SameCounts
<1>7. CASE step[s].at = "none"
  <2>1. CASE NeedsPress(r, f) /\ run' = [run EXCEPT ![s] = r]
             /\ step' = [step EXCEPT ![s] = [Idle EXCEPT !.at = "dispatch", !.item = f]]
    BY <1>4, <1>7, <2>1 DEF NeedsPress
  <2>2. CASE ~OverBudget(r, f) /\ run' = [run EXCEPT ![s] = r]
             /\ step' = [step EXCEPT ![s] = [Idle EXCEPT !.at = "claim", !.item = f]]
    <3>1. r.spent[Fingerprint(f)] < Budget
      BY <2>2, FingerprintType, SupervisorBounds DEF OverBudget, Runs
    <3>2. QED
      BY <1>4, <1>7, <2>2, <3>1
  <2>3. QED
    BY <1>5, <1>6, <2>1, <2>2 DEF Supervise
<1>8. QED
  BY <1>6, <1>7 DEF Supervise

LEMMA LoopInv ==
  ASSUME Inv, NEW s \in Sups, LoopMoves(s)
  PROVE  Inv'
<1>1. LoopOK /\ ReadsLeft /\ run[s] \in Runs /\ step[s] \in InFlight /\ Fits(step[s], run[s], judge[s])
  BY SameRecords, TypeParts DEF Inv
<1>2. faults' \in 0..MaxFaults
  BY FaultCounted DEF LoopMoves, Stop, Pass, ReadFails, Clear
<1>3. UNCHANGED <<world, claim, judge, signal>>
  BY DEF LoopMoves, Stop, Pass, ReadFails, Clear
<1>4. LoopOK' /\ ReadsLeft'
  <2>1. CASE Stop(s) \/ Pass(s) \/ Clear(s)
    BY <1>1, <2>1, SupervisorBounds DEF LoopOK, ReadsLeft, Stop, Pass, Clear
  <2>2. CASE ReadFails(s)
    <3> DEFINE n == loop[s].failures + 1
               l == [loop[s] EXCEPT !.failures = n, !.at = IF n >= ReadAttempts THEN "stopped" ELSE "read"]
    <3>1. n \in 0..ReadAttempts
      BY <1>1, <2>2, SupervisorBounds DEF LoopOK, ReadsLeft, ReadFails
    <3>2. loop' = [loop EXCEPT ![s] = l]
      BY <1>1, <2>2 DEF LoopOK, ReadFails
    <3> HIDE DEF n
    <3>3. /\ l \in [at : {"read", "clear", "stopped"}, failures : 0..ReadAttempts]
          /\ l.failures = n /\ l.at = IF n >= ReadAttempts THEN "stopped" ELSE "read"
      BY <1>1, <3>1 DEF LoopOK
    <3>4. l.at # "stopped" => l.failures < ReadAttempts
      BY <3>1, <3>3, SupervisorBounds
    <3> HIDE DEF l
    <3>5. QED
      BY <1>1, <3>2, <3>3, <3>4 DEF LoopOK, ReadsLeft
  <2>3. QED
    BY <2>1, <2>2 DEF LoopMoves
<1>5. CASE UNCHANGED <<run, step>>
  BY <1>1, <1>2, <1>3, <1>4, <1>5, SameRecords, LoopMove
<1>6. CASE Clear(s) /\ run' = [run EXCEPT ![s].outcome = IF Working THEN @ ELSE "cleared"] /\ UNCHANGED step
  <2> DEFINE r == [run[s] EXCEPT !.outcome = IF Working THEN @ ELSE "cleared"]
  <2>1. r \in Runs /\ SameCounts(r, run[s])
    BY <1>1 DEF Runs, SameCounts
  <2>2. run' = [run EXCEPT ![s] = r]
    BY <1>1, <1>6, TypeParts DEF Inv, RunOK
  <2> HIDE DEF r
  <2>3. Fits(step[s], r, judge[s])
    BY <1>1, <2>1 DEF Fits, SameCounts
  <2>4. step' = [step EXCEPT ![s] = step[s]]
    BY <1>6, SameRecords
  <2>5. QED
    BY <1>1, <1>2, <1>3, <1>4, <2>1, <2>2, <2>3, <2>4, LoopMove
<1>7. CASE Supervise(s, Reconsidered(run[s], Now), Now)
  <2>1. Now \in Facts
    BY NowType, TypeParts DEF Inv
  <2>2. Reconsidered(run[s], Now) \in Runs /\ SameCounts(Reconsidered(run[s], Now), run[s])
    BY <1>1, <2>1, ReconsideredType
  <2>3. QED
    BY <1>2, <1>3, <1>4, <1>7, <2>1, <2>2, SuperviseInv
<1>8. QED
  BY <1>5, <1>6, <1>7 DEF LoopMoves, Stop, Pass, ReadFails, Clear

LEMMA NextInv == Inv /\ [Next]_vars => Inv'
<1> SUFFICES ASSUME Inv, [Next]_vars
             PROVE  Inv'
  OBVIOUS
<1>1. CASE Environment
  BY <1>1, EnvironmentInv
<1>2. ASSUME NEW s \in Sups, LoopMoves(s)
      PROVE  Inv'
  BY <1>2, LoopInv
<1>3. ASSUME NEW s \in Sups, StepMoves(s)
      PROVE  Inv'
  BY <1>3, DispatchInv, PressInv, ClaimInv, ConfirmInv, JudgeInv, ConsultInv, RecheckInv,
     LaunchInv, FailureInv, ReleaseInv DEF StepMoves
<1>4. CASE UNCHANGED vars
  BY <1>4
  DEF vars, Inv, TypeOK, RoomToApprove, ReadsLeft, StepFits, ClaimHasStep
<1>5. QED
  BY <1>1, <1>2, <1>3, <1>4 DEF Next

-----------------------------------------------------------------------------
(* What every reachable state satisfies, for any constants.                *)
THEOREM Invariance == Spec => []Inv
BY InitInv, NextInv, PTL DEF Spec

(* Every variable keeps its type, whatever the budgets: no count of        *)
(* presses, attempts, consultations or failed reads leaves its bound.      *)
THEOREM TypeCorrect == Spec => []TypeOK
<1>1. Inv => TypeOK
  BY DEF Inv
<1>2. QED
  BY Invariance, <1>1, PTL

(* The recovery claim is held by exactly the step that took it, for any    *)
(* number of px lead.                                                      *)
THEOREM ClaimComesBack == Spec => []ClaimHasStep
<1>1. Inv => ClaimHasStep
  BY DEF Inv
<1>2. QED
  BY Invariance, <1>1, PTL

(* At most one recovery agent is at work on the mission.                   *)
THEOREM AtMostOneRecovery == Spec => []OneRecoveryAgent
<1>1. Inv => OneRecoveryAgent
  BY DEF Inv, ClaimHasStep, OneRecoveryAgent, AgentAlive, At, Claiming, Admitting
<1>2. QED
  BY Invariance, <1>1, PTL

(* Only the last read of the last admission brings a step to its launch.   *)
LEMMA OnlyAdmitLaunches ==
  ASSUME Inv, [Next]_vars, NEW s \in Sups, step[s].at # "spawn", step'[s].at = "spawn"
  PROVE  step[s].at = "liveness" /\ ~Working
<1>1. StepOK
  BY TypeParts DEF Inv
<1>2. CASE Environment \/ UNCHANGED vars
  BY <1>2 DEF vars, Environment, Admitted, CommandWorks, CommandEnds, AgentWorks, Interrupt, OperatorDecides, world
<1>3. ASSUME NEW t \in Sups, LoopMoves(t)
      PROVE  FALSE
  BY <1>1, <1>3 DEF StepOK, InFlight, LoopMoves, Stop, Pass, ReadFails, Clear, Supervise, Idle
<1>4. ASSUME NEW t \in Sups, StepMoves(t)
      PROVE  step[s].at = "liveness" /\ ~Working
  <2>1. t = s
    <3>1. CASE Admit(t)
      BY <1>1, <3>1, AdmitReads DEF StepOK, Goto
    <3>2. CASE ~Admit(t)
      BY <1>1, <1>4, <3>2
      DEF StepOK, StepMoves, Dispatch, FinishApproval, Forward, PressFails, Claim, Confirm, Judge, JudgeFails,
          JudgeLate, Consult, Recheck, Spawn, AgentExits, StepFails, Release, Escalate, Goto, Done
    <3>3. QED
      BY <3>1, <3>2
  <2>2. step'[t].at = "spawn"
    BY <2>1
  <2>3. ~(Dispatch(t) \/ FinishApproval(t) \/ Forward(t) \/ PressFails(t) \/ Claim(t) \/ Release(t))
    BY <1>1, <2>2 DEF StepOK, InFlight, Dispatch, FinishApproval, Forward, PressFails, Claim, Release, Goto, Done, Idle
  <2>4. ~(Confirm(t) \/ Judge(t) \/ JudgeFails(t) \/ JudgeLate(t) \/ Consult(t) \/ Recheck(t))
    BY <1>1, <2>2 DEF StepOK, InFlight, Confirm, Judge, JudgeFails, JudgeLate, Consult, Recheck, Escalate, Goto
  <2>5. ~(Spawn(t) \/ AgentExits(t) \/ StepFails(t))
    BY <1>1, <2>2 DEF StepOK, InFlight, Spawn, AgentExits, StepFails, Goto, Done, Idle
  <2>6. Admit(t)
    BY <1>4, <2>3, <2>4, <2>5 DEF StepMoves
  <2>7. ~Goto(t, "release") /\ \A where \in Admitting : ~Goto(t, where)
    BY <1>1, <2>2 DEF StepOK, InFlight, Goto, Admitting
  <2>8. QED
    BY <2>1, <2>6, <2>7, AdmitReads
<1>5. QED
  BY <1>2, <1>3, <1>4 DEF Next

(* The operation is held by the run whose command was admitted.            *)
CommandHasOperation == \A s \in Sups : op = s <=> command[s] = "running"

LEMMA OperationMoves ==
  ASSUME Inv, CommandHasOperation, [Next]_vars
  PROVE  /\ CommandHasOperation'
         /\ \/ op' = op
            \/ op = "none" /\ op' \in Sups
            \/ op \in Sups /\ op' = "none"
<1>1. command \in [Sups -> {"none", "forwarded", "running"}]
  BY DEF Inv, TypeOK
<1>2. ASSUME op' = op, \A s \in Sups : command'[s] = "running" <=> command[s] = "running"
      PROVE  CommandHasOperation'
  BY <1>2 DEF CommandHasOperation
<1>3. CASE UNCHANGED vars
  BY <1>2, <1>3 DEF vars
<1>4. ASSUME NEW s \in Sups, Admitted(s)
      PROVE  /\ CommandHasOperation'
             /\ op' = op \/ (op = "none" /\ op' \in Sups)
  BY <1>1, <1>4, SupsAssumption DEF Admitted, CommandHasOperation
<1>5. ASSUME NEW s \in Sups, CommandEnds(s)
      PROVE  CommandHasOperation' /\ op \in Sups /\ op' = "none"
  BY <1>1, <1>5, SupsAssumption DEF CommandEnds, CommandHasOperation
<1>6. CASE Environment
  <2>1. ASSUME NEW s \in Sups, CommandWorks(s) \/ AgentWorks(s) \/ Interrupt(s)
        PROVE  op' = op /\ command' = command
    BY <2>1 DEF CommandWorks, AgentWorks, Interrupt, world
  <2>2. ASSUME OperatorDecides
        PROVE  op' = op /\ command' = command
    BY <2>2 DEF OperatorDecides
  <2>3. QED
    BY <1>2, <1>4, <1>5, <1>6, <2>1, <2>2 DEF Environment
<1>7. ASSUME NEW s \in Sups, LoopMoves(s) \/ StepMoves(s)
      PROVE  op' = op /\ \A t \in Sups : command'[t] = "running" <=> command[t] = "running"
  BY <1>1, <1>7
  DEF LoopMoves, Stop, Pass, ReadFails, Clear, StepMoves, Dispatch, FinishApproval, Forward,
      PressFails, Claim, Confirm, Judge, JudgeFails, JudgeLate, Consult, Recheck, Admit, AdmitMission,
      AdmitOperation, AdmitBoard, AdmitLiveness, ReadOn, Spawn, AgentExits, StepFails, Release, world
<1>8. QED
  BY <1>2, <1>3, <1>6, <1>7 DEF Next

(* An agent is launched while nobody works on the mission, whose command   *)
(* or agent it may be, and on evidence that was judged and may be          *)
(* continued.                                                              *)
THEOREM LaunchedAsJudged == Spec => LaunchIsJudged
<1>1. Init => CommandHasOperation
  BY SupsAssumption DEF Init, CommandHasOperation
<1>2. Inv /\ CommandHasOperation /\ [Next]_vars => CommandHasOperation'
  BY OperationMoves
<1>3. Inv /\ CommandHasOperation /\ [Next]_vars =>
        [\A s \in Sups : step[s].at # "spawn" /\ step'[s].at = "spawn" =>
            /\ op = "none" /\ ~Working
            /\ step[s].envelope \in judge[s].seen /\ MayContinue(step[s].envelope)]_vars
  <2> SUFFICES ASSUME Inv, CommandHasOperation, [Next]_vars,
                      NEW s \in Sups, step[s].at # "spawn", step'[s].at = "spawn"
               PROVE  /\ op = "none" /\ ~Working
                      /\ step[s].envelope \in judge[s].seen /\ MayContinue(step[s].envelope)
    OBVIOUS
  <2>1. step[s].at = "liveness" /\ ~Working
    BY OnlyAdmitLaunches
  <2>2. step[s].envelope \in judge[s].seen /\ MayContinue(step[s].envelope)
    BY <2>1, SameRecords DEF Admitting, Fits
  <2>3. op = "none"
    BY <2>1, TypeParts DEF Inv, HoldersOK, CommandHasOperation, Working
  <2>4. QED
    BY <2>1, <2>2, <2>3
<1>4. QED
  BY Invariance, <1>1, <1>2, <1>3, PTL DEF Spec, LaunchIsJudged

(* Only the recheck spends, and nothing gives an attempt back.             *)
LEMMA SpentStays ==
  ASSUME Inv, NEW s \in Sups, NEW t \in Sups,
         \/ UNCHANGED run
         \/ \E r \in Runs : SameCounts(r, run[t]) /\ run' = [run EXCEPT ![t] = r]
  PROVE  run'[s].spent = run[s].spent
BY TypeParts DEF Inv, RunOK, SameCounts

LEMMA LoopSpendsNothing ==
  ASSUME Inv, NEW t \in Sups, LoopMoves(t)
  PROVE  UNCHANGED run \/ \E r \in Runs : SameCounts(r, run[t]) /\ run' = [run EXCEPT ![t] = r]
<1>1. run[t] \in Runs
  BY SameRecords
<1>2. CASE Stop(t) \/ ReadFails(t)
  BY <1>2 DEF Stop, ReadFails
<1>3. CASE Clear(t)
  <2> DEFINE r == [run[t] EXCEPT !.outcome = IF Working THEN @ ELSE "cleared"]
  <2>1. r \in Runs /\ SameCounts(r, run[t])
    BY <1>1 DEF Runs, SameCounts
  <2>2. UNCHANGED run \/ run' = [run EXCEPT ![t] = r]
    BY <1>1, <1>3, TypeParts DEF Inv, RunOK, Clear
  <2> HIDE DEF r
  <2>3. QED
    BY <2>1, <2>2
<1>4. CASE Pass(t)
  <2> DEFINE r == Reconsidered(run[t], Now)
  <2>1. Now \in Facts
    BY NowType, TypeParts DEF Inv
  <2>2. r \in Runs /\ SameCounts(r, run[t])
    BY <1>1, <2>1, ReconsideredType
  <2>3. \A o \in {"human", "escalated"} : Settle(r, Now, o) \in Runs /\ SameCounts(Settle(r, Now, o), run[t])
    BY <2>1, <2>2, SettleType DEF SameCounts
  <2> HIDE DEF r
  <2>4. \/ UNCHANGED run \/ run' = [run EXCEPT ![t] = r]
        \/ \E o \in {"human", "escalated"} : run' = [run EXCEPT ![t] = Settle(r, Now, o)]
    BY <1>4 DEF Pass, Supervise, r
  <2>5. QED
    BY <2>2, <2>3, <2>4
<1>5. QED
  BY <1>2, <1>3, <1>4 DEF LoopMoves

LEMMA SpentGrows ==
  ASSUME Inv, [Next]_vars, NEW s \in Sups, NEW f \in Fingerprints
  PROVE  run'[s].spent[f] >= run[s].spent[f]
<1>1. RunOK /\ run[s].spent[f] \in Nat
  BY TypeParts DEF Inv, RunOK, Runs
<1>2. CASE UNCHANGED run
  BY <1>1, <1>2
<1>3. ASSUME NEW t \in Sups, LoopMoves(t)
      PROVE  run'[s].spent[f] >= run[s].spent[f]
  BY <1>1, <1>3, LoopSpendsNothing, SpentStays
<1>4. ASSUME NEW t \in Sups, Pressed(t) = run' \/ PressFails(t)
      PROVE  run'[s].spent[f] >= run[s].spent[f]
  <2>1. CASE Pressed(t) = run'
    <3> DEFINE q == [run[t] EXCEPT !.pressed = @ \cup {Key(step[t].item)}]
    <3>1. run' = [run EXCEPT ![t] = q]
      BY <1>1, <2>1 DEF RunOK, Pressed
    <3>2. q.spent = run[t].spent
      BY <1>1 DEF RunOK, Runs
    <3> HIDE DEF q
    <3>3. QED
      BY <1>1, <3>1, <3>2 DEF RunOK
  <2>2. CASE PressFails(t)
    <3> DEFINE k == Key(step[t].item)
               tried == run[t].tries[k] + 1
               q == [run[t] EXCEPT !.tries[k] = tried,
                                   !.pressed = IF tried < ActionAttempts THEN @ ELSE @ \cup {k}]
    <3>1. run' = [run EXCEPT ![t] = q]
      BY <1>1, <2>2 DEF RunOK, PressFails
    <3>2. q = [[run[t] EXCEPT !.tries = [run[t].tries EXCEPT ![k] = tried]]
                 EXCEPT !.pressed = IF tried < ActionAttempts THEN run[t].pressed ELSE run[t].pressed \cup {k}]
      BY <1>1 DEF RunOK, Runs
    <3> HIDE DEF tried, k
    <3>3. q.spent = run[t].spent
      BY <1>1, <3>2 DEF RunOK, Runs
    <3> HIDE DEF q
    <3>4. QED
      BY <1>1, <3>1, <3>3 DEF RunOK
  <2>3. QED
    BY <1>4, <2>1, <2>2
<1>5. ASSUME NEW t \in Sups, Escalate(t), step[t].at \in Claiming
      PROVE  run'[s].spent[f] >= run[s].spent[f]
  BY <1>1, <1>5, EscalateType, SpentStays
<1>6. ASSUME NEW t \in Sups, Recheck(t)
      PROVE  run'[s].spent[f] >= run[s].spent[f]
  <2>1. CASE run' = [run EXCEPT ![t].spent[Fingerprint(step[t].item)] = @ + 1]
    <3>1. run'[s].spent = IF s = t THEN [run[s].spent EXCEPT ![Fingerprint(step[t].item)] = @ + 1] ELSE run[s].spent
      BY <1>1, <2>1 DEF RunOK, Runs
    <3>2. QED
      BY <1>1, <3>1 DEF RunOK, Runs
  <2>2. QED
    BY <1>2, <1>6, <2>1 DEF Recheck
<1>7. ASSUME NEW t \in Sups, StepMoves(t)
      PROVE  run'[s].spent[f] >= run[s].spent[f]
  <2>1. CASE Judge(t) \/ JudgeFails(t) \/ JudgeLate(t) \/ Consult(t)
    BY <1>2, <1>5, <2>1 DEF Judge, JudgeFails, JudgeLate, Consult, At, Claiming, Admitting
  <2>2. CASE FinishApproval(t) \/ Forward(t) \/ PressFails(t)
    BY <1>4, <2>2 DEF FinishApproval, Forward
  <2>3. CASE Dispatch(t) \/ Claim(t) \/ Confirm(t) \/ Admit(t) \/ Spawn(t) \/ AgentExits(t) \/ StepFails(t) \/ Release(t)
    BY <1>2, <2>3, AdmitReads DEF Dispatch, Claim, Confirm, Spawn, AgentExits, StepFails, Release
  <2>4. QED
    BY <1>6, <1>7, <2>1, <2>2, <2>3 DEF StepMoves
<1>8. CASE Environment \/ UNCHANGED vars
  BY <1>2, <1>8 DEF vars, Environment, Admitted, CommandWorks, CommandEnds, AgentWorks, Interrupt, OperatorDecides
<1>9. QED
  BY <1>3, <1>7, <1>8 DEF Next

(* Every launch is paid for within the budget of its failure, and nothing  *)
(* gives an attempt back.                                                  *)
THEOREM LaunchesAreBudgeted == Spec => BudgetIsKept
<1>1. Inv /\ [Next]_vars =>
        [\A s \in Sups :
           /\ \A f \in Fingerprints : run'[s].spent[f] >= run[s].spent[f]
           /\ step[s].at # "spawn" /\ step'[s].at = "spawn" =>
                run[s].spent[Fingerprint(step[s].item)] \in 1..Budget]_vars
  <2> SUFFICES ASSUME Inv, [Next]_vars, NEW s \in Sups
               PROVE  /\ \A f \in Fingerprints : run'[s].spent[f] >= run[s].spent[f]
                      /\ step[s].at # "spawn" /\ step'[s].at = "spawn" =>
                           run[s].spent[Fingerprint(step[s].item)] \in 1..Budget
    OBVIOUS
  <2>1. ASSUME step[s].at # "spawn", step'[s].at = "spawn"
        PROVE  run[s].spent[Fingerprint(step[s].item)] \in 1..Budget
    <3>1. step[s].at = "liveness"
      BY <2>1, OnlyAdmitLaunches
    <3>2. Fits(step[s], run[s], judge[s]) /\ run[s] \in Runs
      BY SameRecords
    <3>3. run[s].spent[Fingerprint(step[s].item)] \in 0..Budget
      BY <3>1, <3>2, FingerprintType DEF Fits, Runs
    <3>4. QED
      BY <3>1, <3>2, <3>3, SupervisorBounds DEF Fits, Admitting
  <2>2. QED
    BY <2>1, SpentGrows
<1>2. QED
  BY Invariance, <1>1, PTL DEF Spec, BudgetIsKept

-----------------------------------------------------------------------------
(* What is taken for granted of the other components.                      *)

MissionClaim == INSTANCE ExclusiveClaim WITH Runs <- Sups, holders <- {claim} \ {"none"}
Operation == INSTANCE ExclusiveClaim WITH Runs <- Sups, holders <- {op} \ {"none"}

LEMMA ClaimMoves ==
  ASSUME Inv, [Next]_vars
  PROVE  \/ claim' = claim
         \/ claim = "none" /\ claim' \in Sups
         \/ claim \in Sups /\ claim' = "none"
<1>1. claim \in Sups \cup {"none"}
  BY DEF Inv, TypeOK
<1>2. CASE UNCHANGED vars
  BY <1>2 DEF vars
<1>3. CASE Environment
  BY <1>3 DEF Environment, Admitted, CommandWorks, CommandEnds, AgentWorks, Interrupt, OperatorDecides
<1>4. ASSUME NEW s \in Sups, LoopMoves(s)
      PROVE  claim' = claim
  BY <1>4 DEF LoopMoves, Stop, Pass, ReadFails, Clear
<1>5. ASSUME NEW s \in Sups, StepMoves(s)
      PROVE  \/ claim' = claim
             \/ claim = "none" /\ claim' \in Sups
             \/ claim \in Sups /\ claim' = "none"
  BY <1>1, <1>5
  DEF StepMoves, Dispatch, FinishApproval, Forward, PressFails, Claim, Confirm, Judge, JudgeFails, JudgeLate,
      Consult, Recheck, Admit, AdmitMission, AdmitOperation, AdmitBoard, AdmitLiveness, ReadOn,
      Spawn, AgentExits, StepFails, Release
<1>6. QED
  BY <1>2, <1>3, <1>4, <1>5 DEF Next

(* px lead asks of the recovery claim no more than RecoveryClaim is shown  *)
(* to implement, and of the workflow no more than WorkflowOwnership:       *)
(* whoever gets it gets it free, and nobody gets it from somebody else.    *)
THEOREM ReliesOnClaims == Spec => MissionClaim!Spec /\ Operation!Spec
<1>1. Init => MissionClaim!Init /\ Operation!Init /\ CommandHasOperation
  BY SupsAssumption DEF Init, MissionClaim!Init, Operation!Init, CommandHasOperation
<1>2. Inv /\ [Next]_vars => [MissionClaim!Next]_({claim} \ {"none"})
  <2> SUFFICES ASSUME Inv, [Next]_vars
               PROVE  [MissionClaim!Next]_({claim} \ {"none"})
    OBVIOUS
  <2>1. CASE claim = "none" /\ claim' \in Sups
    BY <2>1, SupsAssumption DEF MissionClaim!Next, MissionClaim!Take
  <2>2. CASE claim \in Sups /\ claim' = "none"
    BY <2>2, SupsAssumption DEF MissionClaim!Next, MissionClaim!Leave
  <2>3. QED
    BY <2>1, <2>2, ClaimMoves
<1>3. Inv /\ CommandHasOperation /\ [Next]_vars
        => CommandHasOperation' /\ [Operation!Next]_({op} \ {"none"})
  <2> SUFFICES ASSUME Inv, CommandHasOperation, [Next]_vars
               PROVE  CommandHasOperation' /\ [Operation!Next]_({op} \ {"none"})
    OBVIOUS
  <2>1. CASE op = "none" /\ op' \in Sups
    BY <2>1, OperationMoves, SupsAssumption DEF Operation!Next, Operation!Take
  <2>2. CASE op \in Sups /\ op' = "none"
    BY <2>2, OperationMoves, SupsAssumption DEF Operation!Next, Operation!Leave
  <2>3. QED
    BY <2>1, <2>2, OperationMoves
<1>4. QED
  BY Invariance, <1>1, <1>2, <1>3, PTL DEF Spec, MissionClaim!Spec, Operation!Spec
=============================================================================
