----------------------- MODULE MissionLifecycleProofs -----------------------
(***************************************************************************)
(* What MissionLifecycle promises for any number of writers, rounds and    *)
(* revisions: types, what integration rests on, and that decisions are     *)
(* kept, also by writers that act on an old copy of the mission.           *)
(***************************************************************************)
EXTENDS MissionLifecycle, TLAPS

(* What the fields of one round say about each other; b is the branch, g   *)
(* the revisions whose gates passed.                                       *)
RoundFits(b, g, r) ==
  /\ r.repair # "none" => r.decision = "approved"
  /\ r.response # 0 => r.decision = "changes"
  /\ r.blocked => r.decision = "changes"
  /\ r.revoked # "none" => r.decision = "approved"
  /\ r.superseded # 0 => r.decision = "approved"
  /\ r.decision # "none" => r.judged # 0
  /\ r.judged <= Len(b)
  /\ r.repair = "retained" => r.candidate \in 1..Len(b) /\ b[r.candidate] = b[r.judged] /\ r.candidate \in g

(* A conversation: only its last round is open, and nobody withdrew it.    *)
RoundsFit(b, g, s) ==
  /\ s \in Seq(Round)
  /\ \A i \in 1..Len(s) : RoundFits(b, g, s[i])
  /\ \A i \in 1..(Len(s) - 1) : s[i].decision # "none" /\ ~EffectiveApproval(s[i])
  /\ s # << >> => s[Len(s)].revoked = "none"

(* What a lane says of the conversation.                                   *)
LaneFits(m) ==
  /\ m.lane \in {"backlog", "refined"} => ~HasReview(m)
  /\ m.lane \in {"integration", "done"} =>
       HasReview(m) /\ EffectiveApproval(Current(m)) /\ Current(m).repair \in {"none", "retained"}
  /\ m.lane = "active" /\ HasReview(m) /\ EffectiveApproval(Current(m)) => Current(m).repair # "none"

Sound(b, g, m) == m \in Mission /\ RoundsFit(b, g, m.rounds) /\ LaneFits(m)

(* Conversation t continues conversation s: what s decided stays decided,  *)
(* and no branch move is recorded against a past round.                    *)
Continues(s, t) ==
  /\ Len(s) <= Len(t)
  /\ \A i \in 1..Len(s) : s[i].decision # "none" => KeepsDecision(s[i], t[i])
  /\ \A i \in 1..(Len(s) - 1) : t[i].superseded = s[i].superseded

BranchOK == branch \in Seq(Revisions) /\ Tip \in Revisions /\ gated \subseteq Revisions
RestOK == fresh \subseteq Writers /\ history \in Lanes /\ copy \in [Writers -> Mission]

(* Every copy is a mission that was once stored: sound in itself, and      *)
(* continued by the mission that is stored now.                            *)
CopyOf(w) ==
  /\ Sound(branch, gated, copy[w])
  /\ Continues(copy[w].rounds, mission.rounds)
  /\ w \in fresh => copy[w] = mission

Inv ==
  /\ BranchOK /\ RestOK
  /\ Sound(branch, gated, mission)
  /\ \A w \in Writers : CopyOf(w)

(* What a step has to show.                                                *)
StepKeeps == Inv' /\ Continues(mission.rounds, mission'.rounds)

(* The effect of storing m.                                                *)
Stored(w, m) ==
  /\ mission' = m
  /\ copy' = [v \in Writers |-> IF v \in Prompt \cup {w} THEN m ELSE copy[v]]
  /\ fresh' = Prompt \cup {w}
  /\ UNCHANGED <<branch, gated>>
  /\ history' \in {history, m.lane}

-----------------------------------------------------------------------------
(* Conversations.                                                          *)

LEMMA ContinuesSelf == ASSUME NEW s \in Seq(Round) PROVE Continues(s, s)
BY DEF Continues, KeepsDecision

LEMMA ContinuesOn ==
  ASSUME NEW s \in Seq(Round), NEW t \in Seq(Round), NEW u \in Seq(Round), Continues(s, t), Continues(t, u)
  PROVE  Continues(s, u)
<1>1. Len(s) <= Len(u) /\ Len(s) \in Nat /\ Len(t) \in Nat /\ Len(u) \in Nat /\ Len(s) <= Len(t)
  BY DEF Continues
<1>2. ASSUME NEW i \in 1..Len(s), s[i].decision # "none"
      PROVE  KeepsDecision(s[i], u[i])
  <2>1. KeepsDecision(s[i], t[i])
    BY <1>2 DEF Continues
  <2>2. KeepsDecision(t[i], u[i])
    BY <1>1, <1>2, <2>1 DEF Continues, KeepsDecision
  <2>3. QED
    BY <2>1, <2>2 DEF KeepsDecision
<1>3. ASSUME NEW i \in 1..(Len(s) - 1)
      PROVE  u[i].superseded = s[i].superseded
  BY <1>1 DEF Continues
<1>4. QED
  BY <1>1, <1>2, <1>3 DEF Continues

(* The last round is written again.                                        *)
LEMMA Rewritten ==
  ASSUME NEW b, NEW g, NEW s, RoundsFit(b, g, s), s # << >>,
         NEW r \in Round, RoundFits(b, g, r), r.revoked = "none",
         s[Len(s)].decision # "none" => KeepsDecision(s[Len(s)], r)
  PROVE  LET t == [s EXCEPT ![Len(s)] = r] IN
         RoundsFit(b, g, t) /\ Continues(s, t) /\ t # << >> /\ Len(t) = Len(s) /\ t[Len(t)] = r
<1> DEFINE t == [s EXCEPT ![Len(s)] = r]
<1>1. s \in Seq(Round) /\ Len(s) \in Nat /\ Len(s) >= 1
  BY DEF RoundsFit
<1>2. t \in Seq(Round) /\ Len(t) = Len(s) /\ \A i \in 1..Len(s) : t[i] = IF i = Len(s) THEN r ELSE s[i]
  BY <1>1
<1> HIDE DEF t
<1>3. RoundsFit(b, g, t)
  BY <1>1, <1>2 DEF RoundsFit
<1>4. Continues(s, t)
  BY <1>1, <1>2 DEF Continues, KeepsDecision
<1>5. t # << >> /\ t[Len(t)] = r
  BY <1>1, <1>2
<1>6. QED
  BY <1>2, <1>3, <1>4, <1>5 DEF t

(* The last round is closed as r and the next one is opened.               *)
LEMMA Followed ==
  ASSUME NEW b, NEW g, NEW s, RoundsFit(b, g, s), s # << >>, b \in Seq(Revisions),
         NEW r \in Round, RoundFits(b, g, r), r.decision # "none", ~EffectiveApproval(r),
         s[Len(s)].decision # "none" => KeepsDecision(s[Len(s)], r),
         NEW subject \in Revisions
  PROVE  LET t == Append([s EXCEPT ![Len(s)] = r], OpenedRound(subject)) IN
         /\ RoundsFit(b, g, t) /\ Continues(s, t) /\ t # << >>
         /\ Len(t) = Len(s) + 1 /\ t[Len(t)] = OpenedRound(subject)
<1> DEFINE e == [s EXCEPT ![Len(s)] = r]
           o == OpenedRound(subject)
           t == Append(e, o)
<1>1. s \in Seq(Round) /\ Len(s) \in Nat /\ Len(s) >= 1 /\ Len(b) \in Nat
  BY DEF RoundsFit
<1>2. o \in Round /\ RoundFits(b, g, o) /\ o.revoked = "none"
  BY <1>1, BoundsAssumption DEF OpenedRound, Round, RoundFits, Causes, Assessments
<1>3. e \in Seq(Round) /\ Len(e) = Len(s) /\ \A i \in 1..Len(s) : e[i] = IF i = Len(s) THEN r ELSE s[i]
  BY <1>1
<1> HIDE DEF e, o
<1>4. t \in Seq(Round) /\ Len(t) = Len(s) + 1 /\ t[Len(t)] = o /\ \A i \in 1..Len(s) : t[i] = e[i]
  BY <1>1, <1>2, <1>3
<1> HIDE DEF t
<1>5. RoundsFit(b, g, t)
  <2>1. \A i \in 1..Len(s) : t[i] = IF i = Len(s) THEN r ELSE s[i]
    BY <1>3, <1>4
  <2>2. ASSUME NEW i \in 1..Len(t)
        PROVE  RoundFits(b, g, t[i])
    <3>1. CASE i = Len(t)
      BY <1>2, <1>4, <3>1
    <3>2. CASE i # Len(t)
      <4>1. i \in 1..Len(s)
        BY <1>1, <1>4, <3>2
      <4>2. RoundFits(b, g, s[i])
        BY <4>1 DEF RoundsFit
      <4>3. QED
        BY <2>1, <4>1, <4>2
    <3>3. QED
      BY <3>1, <3>2
  <2>3. ASSUME NEW i \in 1..(Len(t) - 1)
        PROVE  t[i].decision # "none" /\ ~EffectiveApproval(t[i])
    <3>1. i \in 1..Len(s) /\ (i = Len(s) \/ i \in 1..(Len(s) - 1))
      BY <1>1, <1>4
    <3>2. CASE i = Len(s)
      BY <2>1, <3>1, <3>2
    <3>3. CASE i # Len(s)
      <4>1. s[i].decision # "none" /\ ~EffectiveApproval(s[i])
        BY <3>1, <3>3 DEF RoundsFit
      <4>2. QED
        BY <2>1, <3>1, <3>3, <4>1
    <3>4. QED
      BY <3>2, <3>3
  <2>4. QED
    BY <1>2, <1>4, <2>2, <2>3 DEF RoundsFit
<1>6. Continues(s, t)
  <2>1. Len(s) <= Len(t) /\ \A i \in 1..Len(s) : t[i] = IF i = Len(s) THEN r ELSE s[i]
    BY <1>1, <1>3, <1>4
  <2>2. \A i \in 1..Len(s) : s[i].decision # "none" => KeepsDecision(s[i], t[i])
    BY <2>1 DEF KeepsDecision
  <2>3. \A i \in 1..(Len(s) - 1) : t[i].superseded = s[i].superseded
    BY <1>1, <2>1
  <2>4. QED
    BY <2>1, <2>2, <2>3 DEF Continues
<1>7. t # << >>
  BY <1>1, <1>4
<1>8. QED
  BY <1>4, <1>5, <1>6, <1>7 DEF t, e, o

(* A conversation t that was made from an old copy c of s: it continues s  *)
(* if all that s decided was decided in c.                                 *)
LEMMA MadeFromCopy ==
  ASSUME NEW b, NEW g, NEW c, NEW s, NEW t, RoundsFit(b, g, c), RoundsFit(b, g, s), RoundsFit(b, g, t),
         Continues(c, s), Len(s) <= Len(t), c # << >>,
         c[Len(c)].decision # "none" => c[Len(c)].decision = "changes",
         \A i \in 1..Len(s) : s[i].decision # "none" =>
            i \in 1..Len(c) /\ t[i] = c[i] /\ c[i].decision # "none"
  PROVE  Continues(s, t)
<1>1. c \in Seq(Round) /\ s \in Seq(Round) /\ t \in Seq(Round) /\ Len(c) \in Nat /\ Len(s) \in Nat /\ Len(t) \in Nat /\ Len(c) >= 1
  BY DEF RoundsFit
<1>2. ASSUME NEW i \in 1..Len(s), s[i].decision # "none"
      PROVE  KeepsDecision(s[i], t[i]) /\ t[i].superseded = s[i].superseded
  <2>1. i \in 1..Len(c) /\ t[i] = c[i] /\ c[i].decision # "none" /\ KeepsDecision(c[i], s[i])
    BY <1>2 DEF Continues
  <2>2. RoundFits(b, g, c[i]) /\ RoundFits(b, g, s[i]) /\ c[i] \in Round /\ s[i] \in Round
    BY <1>1, <2>1 DEF RoundsFit
  <2>3. c[i].superseded = s[i].superseded
    <3>1. CASE i = Len(c)
      BY <2>1, <2>2, <3>1 DEF KeepsDecision, RoundFits
    <3>2. CASE i # Len(c)
      BY <1>1, <2>1, <3>2 DEF Continues
    <3>3. QED
      BY <3>1, <3>2
  <2>4. s[i].revoked # "none" => c[i].revoked = s[i].revoked
    <3>1. CASE i = Len(c)
      BY <2>1, <2>2, <3>1 DEF KeepsDecision, RoundFits
    <3>2. CASE i # Len(c)
      BY <1>1, <2>1, <2>2, <3>2 DEF RoundsFit, KeepsDecision, RoundFits, EffectiveApproval
    <3>3. QED
      BY <3>1, <3>2
  <2>5. QED
    BY <2>1, <2>3, <2>4 DEF KeepsDecision
<1>3. \A i \in 1..(Len(s) - 1) : s[i].decision # "none"
  BY <1>1 DEF RoundsFit
<1>4. QED
  BY <1>1, <1>2, <1>3 DEF Continues

(* The branch grows and gates pass: what fitted, fits.                     *)
LEMMA StillFits ==
  ASSUME NEW b \in Seq(Revisions), NEW c \in Seq(Revisions), NEW g, NEW h, NEW m, Sound(b, g, m),
         Len(b) <= Len(c), \A i \in 1..Len(b) : c[i] = b[i], g \subseteq h
  PROVE  Sound(c, h, m)
<1>1. m.rounds \in Seq(Round)
  BY DEF Sound, RoundsFit
<1>2. ASSUME NEW i \in 1..Len(m.rounds)
      PROVE  RoundFits(c, h, m.rounds[i])
  <2>1. RoundFits(b, g, m.rounds[i]) /\ m.rounds[i] \in Round
    BY <1>1 DEF Sound, RoundsFit
  <2>2. m.rounds[i].judged \in Nat /\ Len(b) \in Nat /\ Len(c) \in Nat
    BY <2>1, BoundsAssumption DEF Round
  <2>3. m.rounds[i].repair = "retained" => m.rounds[i].judged \in 1..Len(b)
    BY <2>1, <2>2 DEF RoundFits
  <2>4. QED
    BY <2>1, <2>2, <2>3 DEF RoundFits
<1>3. QED
  BY <1>1, <1>2 DEF Sound, RoundsFit

-----------------------------------------------------------------------------
LEMMA InvType == Inv => TypeOK
BY DEF Inv, BranchOK, RestOK, Sound, TypeOK

(* The status of a sound mission, in terms of its last round.              *)
LEMMA StatusOf ==
  ASSUME NEW b, NEW g, NEW m, Sound(b, g, m)
  PROVE  /\ Approved(m) <=> HasReview(m) /\ EffectiveApproval(Current(m))
         /\ Status(m) = "awaiting-review" => HasReview(m) /\ Current(m).decision = "none"
         /\ Status(m) = "awaiting-implementation" => HasReview(m) /\ Current(m).decision = "changes"
         /\ Status(m) = "ready-for-next-round" => HasReview(m) /\ Current(m).decision = "changes" /\ Current(m).response # 0
         /\ HasReview(m) => /\ Current(m) \in Round /\ RoundFits(b, g, Current(m)) /\ Current(m).revoked = "none"
                            /\ Current(m) = m.rounds[Len(m.rounds)] /\ m.rounds # << >>
<1>0. m.paused \in BOOLEAN
  BY DEF Sound, Mission
<1>1. m.rounds \in Seq(Round) /\ RoundsFit(b, g, m.rounds)
  BY DEF Sound, RoundsFit
<1>2. HasReview(m) => /\ Current(m) \in Round /\ RoundFits(b, g, Current(m)) /\ Current(m).revoked = "none"
                      /\ Current(m) = m.rounds[Len(m.rounds)] /\ m.rounds # << >>
  BY <1>1 DEF RoundsFit, HasReview, Current
<1>3. HasReview(m) => Current(m).decision \in {"none", "changes", "approved"}
  BY <1>2 DEF Round
<1>4. HasReview(m) /\ Current(m).response # 0 => Current(m).decision = "changes"
  BY <1>2 DEF RoundFits
<1>5. ASSUME ~HasReview(m)
      PROVE  Status(m) = "no-review" /\ ~Approved(m)
  BY <1>5 DEF Approved, Status
<1>6. ASSUME HasReview(m)
      PROVE  Status(m) = ReviewStatus(m) /\ (Approved(m) <=> ReviewStatus(m) = "approved")
  BY <1>6 DEF Approved, Status
<1>7. CASE HasReview(m) /\ EffectiveApproval(Current(m))
  <2>1. ReviewStatus(m) = "approved"
    BY <1>0, <1>7 DEF ReviewStatus, EffectiveApproval
  <2>2. QED
    BY <1>2, <1>6, <1>7, <2>1
<1>8. CASE HasReview(m) /\ ~EffectiveApproval(Current(m))
  <2>1. Current(m).decision # "approved"
    BY <1>2, <1>8 DEF EffectiveApproval
  <2>2. CASE m.paused
    <3>1. ReviewStatus(m) = "human-intervention"
      BY <1>0, <1>8, <2>2 DEF ReviewStatus, EffectiveApproval
    <3>2. QED
      BY <1>2, <1>6, <1>8, <3>1
  <2>3. CASE ~m.paused /\ Current(m).response # 0
    <3>1. ReviewStatus(m) = "ready-for-next-round"
      BY <1>0, <1>8, <2>3 DEF ReviewStatus, EffectiveApproval
    <3>2. QED
      BY <1>2, <1>4, <1>6, <1>8, <2>3, <3>1
  <2>4. CASE ~m.paused /\ Current(m).response = 0 /\ Current(m).decision = "changes"
    <3>1. ReviewStatus(m) = "awaiting-implementation"
      BY <1>0, <1>8, <2>4 DEF ReviewStatus, EffectiveApproval
    <3>2. QED
      BY <1>2, <1>6, <1>8, <2>4, <3>1
  <2>5. CASE ~m.paused /\ Current(m).response = 0 /\ Current(m).decision # "changes"
    <3>1. ReviewStatus(m) = "awaiting-review" /\ Current(m).decision = "none"
      BY <1>0, <1>3, <1>8, <2>1, <2>5 DEF ReviewStatus, EffectiveApproval
    <3>2. QED
      BY <1>2, <1>6, <1>8, <3>1
  <2>6. QED
    BY <2>2, <2>3, <2>4, <2>5
<1>9. QED
  BY <1>2, <1>5, <1>7, <1>8

LEMMA InvIntegration == Inv => IntegrationIsApproved
BY StatusOf DEF Inv, Sound, LaneFits, IntegrationIsApproved

LEMMA InvStranded == Inv => NoStrandedApproval
BY StatusOf DEF Inv, Sound, LaneFits, NoStrandedApproval, PendingApproval

LEMMA InvNewest == Inv => OnlyNewestRoundOpen
BY DEF Inv, Sound, RoundsFit, OnlyNewestRoundOpen

LEMMA InvRetained == Inv => RetainedIsJudged
<1> SUFFICES ASSUME Inv, NEW i \in DOMAIN mission.rounds, mission.rounds[i].repair = "retained"
             PROVE  SamePatch(mission.rounds[i].candidate, mission.rounds[i].judged) /\ mission.rounds[i].candidate \in gated
  BY DEF RetainedIsJudged
<1>1. mission.rounds \in Seq(Round) /\ RoundsFit(branch, gated, mission.rounds)
  BY DEF Inv, Sound, RoundsFit
<1>2. RoundFits(branch, gated, mission.rounds[i])
  BY <1>1 DEF RoundsFit
<1>3. QED
  BY <1>2 DEF RoundFits, SamePatch

LEMMA InitInv == Init => Inv
<1> SUFFICES ASSUME Init
             PROVE  Inv
  OBVIOUS
<1>1. mission \in Mission /\ mission.rounds = << >> /\ mission.lane = "backlog"
  BY DEF Init, Mission, Lanes
<1>2. Sound(branch, gated, mission) /\ Continues(mission.rounds, mission.rounds)
  <2>1. mission.rounds \in Seq(Round) /\ Len(mission.rounds) = 0
    BY <1>1
  <2>2. RoundsFit(branch, gated, mission.rounds)
    BY <1>1, <2>1 DEF RoundsFit
  <2>3. LaneFits(mission)
    BY <1>1 DEF LaneFits, HasReview
  <2>4. QED
    BY <1>1, <2>1, <2>2, <2>3, ContinuesSelf DEF Sound
<1>3. BranchOK
  BY BoundsAssumption DEF Init, BranchOK, Tip, Revisions
<1>4. RestOK /\ \A w \in Writers : copy[w] = mission
  BY <1>1 DEF Init, RestOK, Lanes
<1>5. QED
  BY <1>2, <1>3, <1>4 DEF Inv, CopyOf

-----------------------------------------------------------------------------
(* Storing a mission.                                                      *)

LEMMA StoreStores ==
  ASSUME NEW w \in Writers, NEW m, NEW key, Store(w, m, key)
  PROVE  Stored(w, m)
BY DEF Store, RecordLane, Stored

LEMMA SaveStores ==
  ASSUME NEW w \in Writers, NEW m, NEW key, Save(w, m, key)
  PROVE  w \in fresh /\ Stored(w, m)
BY StoreStores DEF Save

(* A sound mission that continues the stored one can be stored.            *)
LEMMA StoredKeeps ==
  ASSUME Inv, NEW w \in Writers, NEW m, Stored(w, m), Sound(branch, gated, m), Continues(mission.rounds, m.rounds)
  PROVE  StepKeeps
<1>1. m \in Mission /\ m.rounds \in Seq(Round) /\ m.lane \in Lanes /\ mission.rounds \in Seq(Round)
  BY DEF Inv, Sound, RoundsFit, Mission
<1>2. BranchOK' /\ RestOK'
  BY <1>1, WritersAssumption DEF Inv, Stored, BranchOK, RestOK, Tip
<1>3. Sound(branch, gated, mission)'
  BY DEF Stored
<1>4. ASSUME NEW v \in Writers
      PROVE  CopyOf(v)'
  <2>1. CopyOf(v) /\ copy[v].rounds \in Seq(Round)
    BY DEF Inv, CopyOf, Sound, RoundsFit
  <2>2. CASE v \in Prompt \cup {w}
    <3>1. copy'[v] = m /\ mission' = m
      BY <2>2 DEF Stored
    <3>2. QED
      BY <1>1, <1>3, <3>1, ContinuesSelf DEF CopyOf, Stored
  <2>3. CASE v \notin Prompt \cup {w}
    <3>1. copy'[v] = copy[v] /\ mission' = m /\ v \notin fresh'
      BY <2>3 DEF Stored
    <3>2. Continues(copy[v].rounds, m.rounds)
      BY <1>1, <2>1, ContinuesOn DEF CopyOf
    <3>3. QED
      BY <2>1, <3>1, <3>2 DEF CopyOf, Stored
  <2>4. QED
    BY <2>2, <2>3
<1>5. QED
  BY <1>2, <1>3, <1>4 DEF Inv, StepKeeps, Stored

(* A write that was not refused was decided on the stored mission.         *)
LEMMA CopyIsStored ==
  ASSUME Inv, NEW w \in Writers, w \in fresh
  PROVE  copy[w] = mission /\ Sound(branch, gated, mission)
BY DEF Inv, CopyOf

(* Only the lane, a preparation or a stop changes.                         *)
LEMMA RoundsKept ==
  ASSUME Inv, NEW w \in Writers, NEW m, Stored(w, m), m \in Mission, m.rounds = mission.rounds, LaneFits(m)
  PROVE  StepKeeps
<1>1. RoundsFit(branch, gated, m.rounds) /\ Continues(mission.rounds, m.rounds)
  BY ContinuesSelf DEF Inv, Sound, RoundsFit
<1>2. Sound(branch, gated, m)
  BY <1>1 DEF Sound
<1>3. QED
  BY <1>1, <1>2, StoredKeeps

(* The last round is written again, and the lane fits it.                  *)
LEMMA RoundRewritten ==
  ASSUME Inv, HasReview(mission), NEW w \in Writers, NEW m, NEW r \in Round, Stored(w, m),
         RoundFits(branch, gated, r), r.revoked = "none",
         Current(mission).decision # "none" => KeepsDecision(Current(mission), r),
         m \in Mission, m.rounds = WithCurrent(mission, r).rounds,
         m.lane \notin {"backlog", "refined"},
         m.lane \in {"integration", "done"} => r.decision = "approved" /\ r.repair \in {"none", "retained"},
         m.lane = "active" /\ r.decision = "approved" => r.repair # "none"
  PROVE  StepKeeps
<1>1. mission \in Mission /\ RoundsFit(branch, gated, mission.rounds)
  BY DEF Inv, Sound
<1>2. m.rounds = [mission.rounds EXCEPT ![Len(mission.rounds)] = r]
  BY <1>1 DEF WithCurrent, Mission
<1>3. /\ RoundsFit(branch, gated, m.rounds) /\ Continues(mission.rounds, m.rounds)
      /\ m.rounds # << >> /\ m.rounds[Len(m.rounds)] = r
  BY <1>1, <1>2, Rewritten DEF HasReview, Current
<1>4. LaneFits(m)
  BY <1>3 DEF LaneFits, HasReview, Current, EffectiveApproval
<1>5. QED
  BY <1>3, <1>4, StoredKeeps DEF Sound

(* The last round is closed as r, a next one is opened.                    *)
LEMMA RoundFollowed ==
  ASSUME Inv, HasReview(mission), NEW w \in Writers, NEW m, NEW r \in Round, NEW subject \in Revisions, Stored(w, m),
         RoundFits(branch, gated, r), r.decision # "none", ~EffectiveApproval(r),
         Current(mission).decision # "none" => KeepsDecision(Current(mission), r),
         m \in Mission, m.rounds = Append([mission.rounds EXCEPT ![Len(mission.rounds)] = r], OpenedRound(subject)),
         m.lane \notin {"backlog", "refined", "integration", "done"}
  PROVE  StepKeeps
<1>1. mission \in Mission /\ RoundsFit(branch, gated, mission.rounds) /\ branch \in Seq(Revisions)
  BY DEF Inv, Sound, BranchOK
<1>2. /\ RoundsFit(branch, gated, m.rounds) /\ Continues(mission.rounds, m.rounds)
      /\ m.rounds # << >> /\ m.rounds[Len(m.rounds)] = OpenedRound(subject)
  BY <1>1, Followed DEF HasReview, Current
<1>3. LaneFits(m)
  BY <1>2 DEF LaneFits, HasReview, Current, EffectiveApproval, OpenedRound
<1>4. QED
  BY <1>2, <1>3, StoredKeeps DEF Sound

LEMMA OpenedType == ASSUME NEW subject \in Revisions PROVE OpenedRound(subject) \in Round
BY BoundsAssumption DEF OpenedRound, Round, Causes, Assessments

(* What may be written into a round.                                       *)
LEMMA RoundTypes ==
  ASSUME NEW r \in Round, NEW n \in 0..MaxRevision, NEW b \in BOOLEAN
  PROVE  /\ [r EXCEPT !.decision = "changes", !.judged = n, !.blocked = b] \in Round
         /\ [r EXCEPT !.decision = "approved", !.judged = n] \in Round
         /\ [r EXCEPT !.response = n, !.blocked = FALSE] \in Round
         /\ \A a \in Assessments : [r EXCEPT !.repair = a, !.candidate = n] \in Round
BY DEF Round

LEMMA WithCurrentType ==
  ASSUME NEW m \in Mission, HasReview(m), NEW r \in Round
  PROVE  /\ WithCurrent(m, r) \in Mission /\ WithCurrent(m, r).lane = m.lane
         /\ WithCurrent(m, r).rounds = [m.rounds EXCEPT ![Len(m.rounds)] = r]
BY DEF WithCurrent, Mission, HasReview

LEMMA InLane ==
  ASSUME NEW m \in Mission, NEW lane \in Lanes
  PROVE  /\ [m EXCEPT !.lane = lane] \in Mission
         /\ [m EXCEPT !.lane = lane].lane = lane
         /\ [m EXCEPT !.lane = lane].rounds = m.rounds
BY DEF Mission

-----------------------------------------------------------------------------
(* One lemma per write.                                                    *)

LEMMA RefineKeeps == ASSUME Inv, NEW w \in Writers, Refine(w) PROVE StepKeeps
<1>1. w \in fresh /\ Stored(w, [copy[w] EXCEPT !.lane = "refined"])
  BY SaveStores DEF Refine
<1>2. copy[w] = mission /\ Sound(branch, gated, mission)
  BY <1>1, CopyIsStored
<1> DEFINE m == [mission EXCEPT !.lane = "refined"]
<1>3. m \in Mission /\ m.rounds = mission.rounds
  BY <1>2 DEF Sound, Mission, Lanes
<1>4. LaneFits(m)
  BY <1>2, StatusOf DEF Refine, Sound, LaneFits, Mission, HasReview, Current
<1>5. QED
  BY <1>1, <1>2, <1>3, <1>4, RoundsKept

LEMMA ActivateKeeps == ASSUME Inv, NEW w \in Writers, Activate(w) PROVE StepKeeps
<1>1. w \in fresh /\ Stored(w, [copy[w] EXCEPT !.lane = "active"])
  BY SaveStores DEF Activate
<1>2. copy[w] = mission /\ Sound(branch, gated, mission)
  BY <1>1, CopyIsStored
<1> DEFINE m == [mission EXCEPT !.lane = "active"]
<1>3. m \in Mission /\ m.rounds = mission.rounds
  BY <1>2 DEF Sound, Mission, Lanes
<1>4. LaneFits(m)
  BY <1>2, StatusOf DEF Activate, Sound, LaneFits, Mission, HasReview, Current
<1>5. QED
  BY <1>1, <1>2, <1>3, <1>4, RoundsKept

LEMMA AbortActivationKeeps == ASSUME Inv, NEW w \in Writers, AbortActivation(w) PROVE StepKeeps
<1>1. w \in fresh /\ Stored(w, [copy[w] EXCEPT !.lane = "refined"])
  BY SaveStores DEF AbortActivation
<1>2. copy[w] = mission /\ Sound(branch, gated, mission)
  BY <1>1, CopyIsStored
<1> DEFINE m == [mission EXCEPT !.lane = "refined"]
<1>3. m \in Mission /\ m.rounds = mission.rounds
  BY <1>2 DEF Sound, Mission, Lanes
<1>4. LaneFits(m)
  BY <1>2, StatusOf DEF AbortActivation, Sound, LaneFits, Mission, HasReview, Current
<1>5. QED
  BY <1>1, <1>2, <1>3, <1>4, RoundsKept

LEMMA BeginPreparationKeeps == ASSUME Inv, NEW w \in Writers, BeginPreparation(w) PROVE StepKeeps
<1>1. w \in fresh /\ Stored(w, [copy[w] EXCEPT !.lane = "review", !.preparing = @ \/ copy[w].lane = "active"])
  BY SaveStores DEF BeginPreparation
<1>2. copy[w] = mission /\ Sound(branch, gated, mission)
  BY <1>1, CopyIsStored
<1> DEFINE m == [mission EXCEPT !.lane = "review", !.preparing = @ \/ mission.lane = "active"]
<1>3. m \in Mission /\ m.rounds = mission.rounds
  BY <1>2 DEF Sound, Mission, Lanes
<1>4. LaneFits(m)
  BY <1>2, StatusOf DEF BeginPreparation, Sound, LaneFits, Mission, HasReview, Current
<1>5. QED
  BY <1>1, <1>2, <1>3, <1>4, RoundsKept

LEMMA SettleChangesKeeps == ASSUME Inv, NEW w \in Writers, SettleChanges(w) PROVE StepKeeps
<1>1. w \in fresh /\ Stored(w, [copy[w] EXCEPT !.lane = "active"])
  BY SaveStores DEF SettleChanges
<1>2. copy[w] = mission /\ Sound(branch, gated, mission)
  BY <1>1, CopyIsStored
<1> DEFINE m == [mission EXCEPT !.lane = "active"]
<1>3. m \in Mission /\ m.rounds = mission.rounds
  BY <1>2 DEF Sound, Mission, Lanes
<1>4. LaneFits(m)
  BY <1>2, StatusOf DEF SettleChanges, Sound, LaneFits, Mission, HasReview, Current, EffectiveApproval
<1>5. QED
  BY <1>1, <1>2, <1>3, <1>4, RoundsKept

LEMMA SettleApprovalKeeps == ASSUME Inv, NEW w \in Writers, SettleApproval(w) PROVE StepKeeps
<1>1. w \in fresh /\ Stored(w, [copy[w] EXCEPT !.lane = "integration"])
  BY SaveStores DEF SettleApproval
<1>2. copy[w] = mission /\ Sound(branch, gated, mission)
  BY <1>1, CopyIsStored
<1> DEFINE m == [mission EXCEPT !.lane = "integration"]
<1>3. m \in Mission /\ m.rounds = mission.rounds
  BY <1>2 DEF Sound, Mission, Lanes
<1>4. LaneFits(m)
  <2>1. /\ HasReview(mission) /\ EffectiveApproval(Current(mission))
        /\ Current(mission).repair \in {"none", "retained"}
    <3>1. /\ mission.lane = "review" /\ Approved(mission)
          /\ PendingApproval(mission) => Current(mission).repair = "retained"
      BY <1>2 DEF SettleApproval
    <3>2. QED
      BY <1>2, <3>1, StatusOf DEF PendingApproval
  <2>2. m.lane = "integration" /\ HasReview(m) /\ Current(m) = Current(mission)
    BY <1>2, <1>3, <2>1 DEF Sound, Mission, HasReview, Current
  <2>3. QED
    BY <2>1, <2>2 DEF LaneFits
<1>5. QED
  BY <1>1, <1>2, <1>3, <1>4, RoundsKept

LEMMA ResumeKeeps == ASSUME Inv, NEW w \in Writers, Resume(w) PROVE StepKeeps
<1>1. w \in fresh /\ Stored(w, [copy[w] EXCEPT !.paused = FALSE])
  BY SaveStores DEF Resume
<1>2. copy[w] = mission /\ Sound(branch, gated, mission)
  BY <1>1, CopyIsStored
<1> DEFINE m == [mission EXCEPT !.paused = FALSE]
<1>3. m \in Mission /\ m.rounds = mission.rounds
  BY <1>2 DEF Sound, Mission, Lanes
<1>4. LaneFits(m)
  BY <1>2, StatusOf DEF Resume, Sound, LaneFits, Mission, HasReview, Current
<1>5. QED
  BY <1>1, <1>2, <1>3, <1>4, RoundsKept

LEMMA IntegrateKeeps == ASSUME Inv, NEW w \in Writers, Integrate(w) PROVE StepKeeps
<1>1. w \in fresh /\ Stored(w, [copy[w] EXCEPT !.lane = "done"])
  BY SaveStores DEF Integrate
<1>2. copy[w] = mission /\ Sound(branch, gated, mission)
  BY <1>1, CopyIsStored
<1> DEFINE m == [mission EXCEPT !.lane = "done"]
<1>3. m \in Mission /\ m.rounds = mission.rounds
  BY <1>2 DEF Sound, Mission, Lanes
<1>4. LaneFits(m)
  BY <1>2, StatusOf DEF Integrate, Sound, LaneFits, Mission, HasReview, Current
<1>5. QED
  BY <1>1, <1>2, <1>3, <1>4, RoundsKept

LEMMA LoopWriteKeeps == ASSUME Inv, NEW w \in Writers, LoopWrite(w) PROVE StepKeeps
<1>1. PICK stop \in BOOLEAN : Stored(w, [mission EXCEPT !.paused = @ \/ stop \/ copy[w].paused])
  BY StoreStores DEF LoopWrite
<1> DEFINE m == [mission EXCEPT !.paused = @ \/ stop \/ copy[w].paused]
<1>2. m \in Mission /\ m.rounds = mission.rounds
  BY DEF Inv, Sound, Mission
<1>3. LaneFits(m)
  BY DEF Inv, Sound, LaneFits, Mission, HasReview, Current
<1>4. QED
  BY <1>1, <1>2, <1>3, RoundsKept

LEMMA RequestChangesKeeps == ASSUME Inv, NEW w \in Writers, RequestChanges(w) PROVE StepKeeps
<1>1. PICK judged \in 1..Tip, blocked \in BOOLEAN :
        w \in fresh /\ Stored(w, WithCurrent(copy[w], [Current(copy[w]) EXCEPT
                          !.decision = "changes", !.judged = judged, !.blocked = blocked]))
  BY SaveStores DEF RequestChanges
<1>2. copy[w] = mission /\ Sound(branch, gated, mission) /\ mission \in Mission
  BY <1>1, CopyIsStored DEF Sound
<1>3. /\ HasReview(mission) /\ Current(mission) \in Round /\ RoundFits(branch, gated, Current(mission))
      /\ Current(mission).revoked = "none" /\ Current(mission).decision = "none"
  BY <1>2, StatusOf DEF RequestChanges
<1>4. /\ Tip \in Nat /\ Tip \in 1..MaxRevision /\ branch \in Seq(Revisions) /\ Tip = Len(branch)
      /\ 1..Tip \subseteq 0..MaxRevision /\ Tip \in 0..MaxRevision
  BY BoundsAssumption DEF Inv, BranchOK, Tip, Revisions
<1> DEFINE r == [Current(mission) EXCEPT !.decision = "changes", !.judged = judged, !.blocked = blocked]
           m == WithCurrent(mission, r)
<1>5. r \in Round /\ RoundFits(branch, gated, r) /\ r.revoked = "none" /\ r.decision = "changes"
  <2>1. r \in Round
    BY <1>3, <1>4, RoundTypes
  <2>2. /\ r.decision = "changes" /\ r.judged = judged /\ r.repair = Current(mission).repair
        /\ r.revoked = Current(mission).revoked /\ r.superseded = Current(mission).superseded
    BY <1>3 DEF Round
  <2>3. RoundFits(branch, gated, r)
    BY <1>3, <1>4, <2>2 DEF RoundFits
  <2>4. QED
    BY <1>3, <2>1, <2>2, <2>3
<1>6. m \in Mission /\ m.lane = mission.lane
  BY <1>2, <1>3, <1>5, WithCurrentType
<1>7. m.lane \notin {"backlog", "refined", "integration", "done"}
  BY <1>2, <1>3, <1>6 DEF Sound, LaneFits, EffectiveApproval
<1>8. QED
  BY <1>1, <1>2, <1>3, <1>5, <1>6, <1>7, RoundRewritten

LEMMA ResolveKeeps == ASSUME Inv, NEW w \in Writers, Resolve(w) PROVE StepKeeps
<1>1. w \in fresh /\ Stored(w, WithCurrent(copy[w], [Current(copy[w]) EXCEPT !.response = Tip, !.blocked = FALSE]))
  BY SaveStores DEF Resolve
<1>2. copy[w] = mission /\ Sound(branch, gated, mission) /\ mission \in Mission
  BY <1>1, CopyIsStored DEF Sound
<1>3. /\ HasReview(mission) /\ Current(mission) \in Round /\ RoundFits(branch, gated, Current(mission))
      /\ Current(mission).revoked = "none" /\ Current(mission).decision = "changes"
  BY <1>2, StatusOf DEF Resolve
<1>4. /\ Tip \in Nat /\ Tip \in 1..MaxRevision /\ branch \in Seq(Revisions) /\ Tip = Len(branch)
      /\ 1..Tip \subseteq 0..MaxRevision /\ Tip \in 0..MaxRevision
  BY BoundsAssumption DEF Inv, BranchOK, Tip, Revisions
<1> DEFINE r == [Current(mission) EXCEPT !.response = Tip, !.blocked = FALSE]
           m == WithCurrent(mission, r)
<1>5. /\ r \in Round /\ RoundFits(branch, gated, r) /\ r.revoked = "none" /\ r.decision = "changes"
      /\ KeepsDecision(Current(mission), r)
  <2>1. r \in Round
    BY <1>3, <1>4, RoundTypes
  <2>2. /\ r.decision = "changes" /\ r.judged = Current(mission).judged /\ r.repair = Current(mission).repair
        /\ r.revoked = Current(mission).revoked /\ r.superseded = Current(mission).superseded
        /\ r.subject = Current(mission).subject /\ r.blocked = FALSE
    BY <1>3 DEF Round
  <2>3. RoundFits(branch, gated, r)
    BY <1>3, <2>2 DEF RoundFits
  <2>4. QED
    BY <1>3, <2>1, <2>2, <2>3 DEF KeepsDecision
<1>6. m \in Mission /\ m.lane = mission.lane
  BY <1>2, <1>3, <1>5, WithCurrentType
<1>7. m.lane \notin {"backlog", "refined", "integration", "done"}
  BY <1>2, <1>3, <1>6 DEF Sound, LaneFits, EffectiveApproval
<1>8. QED
  BY <1>1, <1>2, <1>3, <1>5, <1>6, <1>7, RoundRewritten

LEMMA ApproveKeeps == ASSUME Inv, NEW w \in Writers, Approve(w) PROVE StepKeeps
<1>1. PICK judged \in 1..Tip :
        \/ copy[w].lane \in {"review", "integration"} /\ w \in fresh /\ Stored(w, Judged(copy[w], judged))
        \/ /\ copy[w].lane = "active" /\ w \in fresh
           /\ Stored(w, [Judged(copy[w], judged) EXCEPT !.lane = "integration"])
  BY SaveStores DEF Approve
<1>2. copy[w] = mission /\ Sound(branch, gated, mission) /\ mission \in Mission
  BY <1>1, CopyIsStored DEF Sound
<1>3. /\ HasReview(mission) /\ Current(mission) \in Round /\ RoundFits(branch, gated, Current(mission))
      /\ Current(mission).revoked = "none" /\ Current(mission).decision = "none"
  BY <1>2, StatusOf DEF Approve
<1>4. /\ Tip \in Nat /\ Tip \in 1..MaxRevision /\ branch \in Seq(Revisions) /\ Tip = Len(branch)
      /\ 1..Tip \subseteq 0..MaxRevision /\ Tip \in 0..MaxRevision
  BY BoundsAssumption DEF Inv, BranchOK, Tip, Revisions
<1> DEFINE r == [Current(mission) EXCEPT !.decision = "approved", !.judged = judged]
           m == WithCurrent(mission, r)
           n == [m EXCEPT !.lane = "integration"]
<1>5. r \in Round /\ RoundFits(branch, gated, r) /\ r.revoked = "none" /\ r.decision = "approved" /\ r.repair = "none"
  <2>1. r \in Round
    BY <1>3, <1>4, RoundTypes
  <2>2. /\ r.decision = "approved" /\ r.judged = judged /\ r.repair = Current(mission).repair
        /\ r.revoked = Current(mission).revoked /\ r.superseded = Current(mission).superseded
        /\ r.response = Current(mission).response /\ r.blocked = Current(mission).blocked
    BY <1>3 DEF Round
  <2>3. Current(mission).blocked \in BOOLEAN
    BY <1>3 DEF Round
  <2>4. /\ r.repair = "none" /\ r.revoked = "none" /\ r.superseded = 0 /\ r.response = 0 /\ r.blocked = FALSE
        /\ r.judged # 0 /\ r.judged <= Len(branch)
    <3>1. r.repair = "none" /\ r.revoked = "none" /\ r.superseded = 0 /\ r.response = 0 /\ ~r.blocked
      BY <1>3, <2>2 DEF RoundFits
    <3>2. r.judged # 0 /\ r.judged <= Len(branch)
      BY <1>4, <2>2
    <3>3. QED
      BY <2>2, <2>3, <3>1, <3>2
  <2> HIDE DEF r
  <2>6. RoundFits(branch, gated, r)
    BY <2>2, <2>4 DEF RoundFits
  <2>5. QED
    BY <1>3, <2>1, <2>2, <2>4, <2>6
<1>6. m \in Mission /\ m.lane = mission.lane /\ n \in Mission /\ n.lane = "integration" /\ n.rounds = m.rounds
  <2> HIDE DEF r
  <2>1. m \in Mission /\ m.lane = mission.lane
    BY <1>2, <1>3, <1>5, WithCurrentType
  <2> HIDE DEF m
  <2>2. QED
    BY <2>1, InLane DEF Lanes
<1>7. CASE mission.lane \in {"review", "integration"} /\ Stored(w, m)
  BY <1>3, <1>5, <1>6, <1>7, RoundRewritten
<1>8. CASE mission.lane = "active" /\ Stored(w, n)
  BY <1>3, <1>5, <1>6, <1>8, RoundRewritten
<1>9. QED
  BY <1>1, <1>2, <1>7, <1>8 DEF Judged

LEMMA RecordBranchMoveKeeps == ASSUME Inv, NEW w \in Writers, RecordBranchMove(w) PROVE StepKeeps
<1>1. w \in fresh /\ Stored(w, RecordSuperseded(copy[w])) /\ StaleApproval(copy[w]) /\ HasReview(copy[w])
  BY SaveStores DEF RecordBranchMove
<1>2. copy[w] = mission /\ Sound(branch, gated, mission) /\ mission \in Mission
  BY <1>1, CopyIsStored DEF Sound
<1>3. /\ HasReview(mission) /\ Current(mission) \in Round /\ RoundFits(branch, gated, Current(mission))
      /\ Current(mission).revoked = "none" /\ EffectiveApproval(Current(mission)) /\ Current(mission).superseded = 0
  BY <1>1, <1>2, StatusOf DEF StaleApproval
<1>4. /\ Tip \in Nat /\ Tip \in 1..MaxRevision /\ branch \in Seq(Revisions) /\ Tip = Len(branch)
      /\ 1..Tip \subseteq 0..MaxRevision /\ Tip \in 0..MaxRevision
  BY BoundsAssumption DEF Inv, BranchOK, Tip, Revisions
<1> DEFINE r == [Current(mission) EXCEPT !.superseded = Tip]
           m == WithCurrent(mission, r)
<1>5. /\ r \in Round /\ RoundFits(branch, gated, r) /\ r.revoked = "none" /\ r.decision = "approved"
      /\ r.repair = Current(mission).repair /\ KeepsDecision(Current(mission), r)
  BY <1>3, <1>4 DEF Round, RoundFits, KeepsDecision, EffectiveApproval
<1>6. m \in Mission /\ m.lane = mission.lane
  BY <1>2, <1>3, <1>5, WithCurrentType
<1>7. /\ m.lane \notin {"backlog", "refined"}
      /\ m.lane \in {"integration", "done"} => r.repair \in {"none", "retained"}
      /\ m.lane = "active" => r.repair # "none"
  BY <1>2, <1>3, <1>5, <1>6 DEF Sound, LaneFits
<1>8. QED
  BY <1>1, <1>2, <1>3, <1>5, <1>6, <1>7, RoundRewritten DEF RecordSuperseded

LEMMA ResetReviewKeeps == ASSUME Inv, NEW w \in Writers, ResetReview(w) PROVE StepKeeps
<1>1. /\ w \in fresh /\ HasReview(copy[w])
      /\ Stored(w, [WithCurrent(copy[w], [Current(copy[w]) EXCEPT !.blocked = FALSE]) EXCEPT !.paused = FALSE])
  BY SaveStores DEF ResetReview
<1>2. copy[w] = mission /\ Sound(branch, gated, mission) /\ mission \in Mission
  BY <1>1, CopyIsStored DEF Sound
<1>3. /\ HasReview(mission) /\ Current(mission) \in Round /\ RoundFits(branch, gated, Current(mission))
      /\ Current(mission).revoked = "none"
  BY <1>1, <1>2, StatusOf DEF ResetReview
<1> DEFINE r == [Current(mission) EXCEPT !.blocked = FALSE]
           k == WithCurrent(mission, r)
           m == [k EXCEPT !.paused = FALSE]
<1>5. /\ r \in Round /\ RoundFits(branch, gated, r) /\ r.revoked = "none"
      /\ r.decision = Current(mission).decision /\ r.repair = Current(mission).repair
      /\ KeepsDecision(Current(mission), r)
  BY <1>3 DEF Round, RoundFits, KeepsDecision
<1>6. k \in Mission /\ k.lane = mission.lane /\ m \in Mission /\ m.lane = mission.lane /\ m.rounds = k.rounds
  BY <1>2, <1>3, <1>5, WithCurrentType DEF Mission
<1>7. /\ m.lane \notin {"backlog", "refined"}
      /\ m.lane \in {"integration", "done"} => r.decision = "approved" /\ r.repair \in {"none", "retained"}
      /\ m.lane = "active" /\ r.decision = "approved" => r.repair # "none"
  BY <1>2, <1>3, <1>5, <1>6 DEF Sound, LaneFits, EffectiveApproval
<1>8. QED
  BY <1>1, <1>2, <1>3, <1>5, <1>6, <1>7, RoundRewritten

LEMMA RecordImplementerKeeps == ASSUME Inv, NEW w \in Writers, RecordImplementer(w) PROVE StepKeeps
<1> DEFINE changed(c) == [Current(c) EXCEPT !.response = 0, !.blocked = @ /\ Current(c).decision # "changes"]
<1>1. /\ w \in fresh /\ HasReview(copy[w]) /\ Stored(w, WithCurrent(copy[w], changed(copy[w])))
      /\ copy[w].lane \in {"active", "review"} /\ (Approved(copy[w]) => PendingApproval(copy[w]))
  BY SaveStores DEF RecordImplementer
<1>2. copy[w] = mission /\ Sound(branch, gated, mission) /\ mission \in Mission
  BY <1>1, CopyIsStored DEF Sound
<1>3. /\ HasReview(mission) /\ Current(mission) \in Round /\ RoundFits(branch, gated, Current(mission))
      /\ Current(mission).revoked = "none"
  BY <1>1, <1>2, StatusOf DEF RecordImplementer
<1> DEFINE r == changed(mission)
           m == WithCurrent(mission, r)
<1>5. /\ r \in Round /\ RoundFits(branch, gated, r) /\ r.revoked = "none"
      /\ r.decision = Current(mission).decision /\ r.repair = Current(mission).repair
      /\ KeepsDecision(Current(mission), r)
  BY <1>3 DEF Round, RoundFits, KeepsDecision
<1>6. m \in Mission /\ m.lane = mission.lane
  BY <1>2, <1>3, <1>5, WithCurrentType
<1>7. m.lane \in {"active", "review"} /\ (m.lane = "active" /\ r.decision = "approved" => r.repair # "none")
  BY <1>1, <1>2, <1>3, <1>5, <1>6 DEF Sound, LaneFits, EffectiveApproval
<1>8. QED
  BY <1>1, <1>2, <1>3, <1>5, <1>6, <1>7, RoundRewritten

LEMMA GateReboundKeeps == ASSUME Inv, NEW w \in Writers, GateRebound(w) PROVE StepKeeps
<1> DEFINE kept(c) == WithCurrent(c, [Current(c) EXCEPT !.repair = "pending", !.candidate = Current(c).judged])
<1>1. /\ w \in fresh /\ copy[w].lane \in {"integration", "review", "active"}
      /\ Stored(w, [IF Approved(copy[w]) /\ ~PendingApproval(copy[w]) THEN kept(copy[w]) ELSE copy[w]
                    EXCEPT !.lane = "active"])
  BY SaveStores DEF GateRebound
<1>2. copy[w] = mission /\ Sound(branch, gated, mission) /\ mission \in Mission
  BY <1>1, CopyIsStored DEF Sound
<1>3. CASE Approved(mission) /\ ~PendingApproval(mission)
  <2> DEFINE r == [Current(mission) EXCEPT !.repair = "pending", !.candidate = Current(mission).judged]
             k == WithCurrent(mission, r)
             m == [k EXCEPT !.lane = "active"]
  <2>1. /\ HasReview(mission) /\ Current(mission) \in Round /\ RoundFits(branch, gated, Current(mission))
        /\ Current(mission).revoked = "none" /\ EffectiveApproval(Current(mission))
    BY <1>2, <1>3, StatusOf
  <2>2. /\ r \in Round /\ RoundFits(branch, gated, r) /\ r.revoked = "none" /\ r.repair = "pending"
        /\ KeepsDecision(Current(mission), r)
    <3>1. r \in Round
      <4>1. Current(mission).judged \in 0..MaxRevision /\ "pending" \in Assessments
        BY <2>1 DEF Round, Assessments
      <4>2. QED
        BY <2>1, <4>1, RoundTypes
    <3>2. /\ r.repair = "pending" /\ r.decision = "approved" /\ r.revoked = "none"
          /\ r.subject = Current(mission).subject /\ r.decision = Current(mission).decision
          /\ r.judged = Current(mission).judged /\ r.revoked = Current(mission).revoked
          /\ r.superseded = Current(mission).superseded /\ r.response = Current(mission).response
          /\ r.blocked = Current(mission).blocked
      BY <2>1 DEF Round, EffectiveApproval
    <3> HIDE DEF r
    <3>3. RoundFits(branch, gated, r)
      BY <2>1, <3>2 DEF RoundFits
    <3>4. KeepsDecision(Current(mission), r)
      BY <3>2 DEF KeepsDecision
    <3>5. QED
      BY <3>1, <3>2, <3>3, <3>4
  <2>3. k \in Mission /\ m \in Mission /\ m.lane = "active" /\ m.rounds = k.rounds
    <3>1. k \in Mission
      BY <1>2, <2>1, <2>2, WithCurrentType
    <3> HIDE DEF k
    <3>2. QED
      BY <3>1, InLane DEF Lanes
  <2>4. Stored(w, m)
    BY <1>1, <1>2, <1>3
  <2>5. QED
    BY <2>1, <2>2, <2>3, <2>4, RoundRewritten
<1>4. CASE ~(Approved(mission) /\ ~PendingApproval(mission))
  <2> DEFINE m == [mission EXCEPT !.lane = "active"]
  <2>1. Stored(w, m)
    BY <1>1, <1>2, <1>4
  <2>2. m \in Mission /\ m.rounds = mission.rounds /\ m.lane = "active"
    BY <1>2 DEF Mission, Lanes
  <2>3. HasReview(mission) /\ EffectiveApproval(Current(mission)) => Current(mission).repair # "none"
    BY <1>2, <1>4, StatusOf DEF PendingApproval
  <2>4. LaneFits(m)
    BY <2>2, <2>3 DEF LaneFits, HasReview, Current
  <2>5. QED
    BY <2>1, <2>2, <2>4, RoundsKept
<1>5. QED
  BY <1>3, <1>4

(* A withdrawn approval closes its round and opens the next.               *)
LEMMA Withdrawn ==
  ASSUME NEW m \in Mission, HasReview(m), NEW cause
  PROVE  LET round == Current(m)
             k == RevokeApproved(m, cause) IN
         /\ k.lane = m.lane /\ k.paused = FALSE /\ k.preparing = m.preparing
         /\ DOMAIN k = DOMAIN m
         /\ k.rounds = Append([m.rounds EXCEPT ![Len(m.rounds)] = [round EXCEPT !.revoked = cause]],
                               OpenedRound(IF round.superseded # 0 THEN round.superseded ELSE round.subject))
BY DEF RevokeApproved, Current, Mission

(* The same, of a mission whose last round has been written again.         *)
LEMMA WithdrawnAfter ==
  ASSUME Inv, HasReview(mission), EffectiveApproval(Current(mission)),
         NEW w \in Writers, NEW lane \in {"active", "review"}, NEW cause \in Causes \ {"none"},
         NEW r \in Round, RoundFits(branch, gated, r), r.decision = "approved", r.revoked = "none",
         KeepsDecision(Current(mission), r),
         NEW n, n \in Mission, n.rounds = [mission.rounds EXCEPT ![Len(mission.rounds)] = r],
         Stored(w, [RevokeApproved(n, cause) EXCEPT !.lane = lane])
  PROVE  StepKeeps
<1>1. mission.rounds \in Seq(Round) /\ mission.rounds # << >> /\ Len(mission.rounds) \in Nat /\ Len(mission.rounds) >= 1
  BY DEF Inv, Sound, RoundsFit, HasReview
<1>2. HasReview(n) /\ Current(n) = r /\ Len(n.rounds) = Len(mission.rounds)
  BY <1>1 DEF HasReview, Current
<1> DEFINE q == [r EXCEPT !.revoked = cause]
           subject == IF r.superseded # 0 THEN r.superseded ELSE r.subject
           m == [RevokeApproved(n, cause) EXCEPT !.lane = lane]
<1>3. /\ q \in Round /\ RoundFits(branch, gated, q) /\ q.decision = "approved" /\ ~EffectiveApproval(q)
      /\ KeepsDecision(Current(mission), q)
  BY DEF Round, RoundFits, EffectiveApproval, KeepsDecision, Causes
<1>4. subject \in Revisions
  BY BoundsAssumption DEF Round, Revisions
<1>5. m.rounds = Append([mission.rounds EXCEPT ![Len(mission.rounds)] = q], OpenedRound(subject)) /\ m.lane = lane
  <2>1. [n.rounds EXCEPT ![Len(n.rounds)] = q] = [mission.rounds EXCEPT ![Len(mission.rounds)] = q]
    BY <1>1, <1>2
  <2>2. QED
    BY <1>2, <2>1, Withdrawn DEF RevokeApproved, Mission, Current
<1>6. m \in Mission
  <2>1. m.rounds \in Seq(Round)
    <3>1. OpenedRound(subject) \in Round /\ [mission.rounds EXCEPT ![Len(mission.rounds)] = q] \in Seq(Round)
      BY <1>1, <1>3, <1>4, OpenedType
    <3>2. Append([mission.rounds EXCEPT ![Len(mission.rounds)] = q], OpenedRound(subject)) \in Seq(Round)
      BY <3>1
    <3>3. QED
      BY <1>5, <3>2
  <2>2. QED
    BY <2>1, <1>2 DEF RevokeApproved, Mission, Lanes
<1>7. Stored(w, m)
  OBVIOUS
<1> HIDE DEF m, q, subject
<1>8. QED
  BY <1>3, <1>4, <1>5, <1>6, <1>7, RoundFollowed

LEMMA RepairReboundKeeps == ASSUME Inv, NEW w \in Writers, RepairRebound(w) PROVE StepKeeps
<1>1. /\ w \in fresh /\ copy[w].lane \in {"integration", "review"}
      /\ Stored(w, [IF Approved(copy[w]) THEN RevokeApproved(copy[w], "repair") ELSE copy[w] EXCEPT !.lane = "active"])
  BY SaveStores DEF RepairRebound
<1>2. copy[w] = mission /\ Sound(branch, gated, mission) /\ mission \in Mission
  BY <1>1, CopyIsStored DEF Sound
<1>3. CASE Approved(mission)
  <2>1. /\ HasReview(mission) /\ Current(mission) \in Round /\ RoundFits(branch, gated, Current(mission))
        /\ Current(mission).revoked = "none" /\ EffectiveApproval(Current(mission))
        /\ Current(mission) = mission.rounds[Len(mission.rounds)] /\ mission.rounds # << >>
    BY <1>2, <1>3, StatusOf
  <2>2. mission.rounds = [mission.rounds EXCEPT ![Len(mission.rounds)] = Current(mission)]
    BY <1>2, <2>1 DEF Mission
  <2>3. Stored(w, [RevokeApproved(mission, "repair") EXCEPT !.lane = "active"])
    BY <1>1, <1>2, <1>3
  <2>4. QED
    BY <1>2, <2>1, <2>2, <2>3, WithdrawnAfter DEF KeepsDecision, Causes, EffectiveApproval
<1>4. CASE ~Approved(mission)
  <2> DEFINE m == [mission EXCEPT !.lane = "active"]
  <2>1. Stored(w, m)
    BY <1>1, <1>2, <1>4
  <2>2. m \in Mission /\ m.rounds = mission.rounds /\ m.lane = "active"
    BY <1>2 DEF Mission, Lanes
  <2>3. LaneFits(m)
    BY <1>2, <1>4, <2>2, StatusOf DEF LaneFits, HasReview, Current
  <2>4. QED
    BY <2>1, <2>2, <2>3, RoundsKept
<1>5. QED
  BY <1>3, <1>4

LEMMA RevokeReviewKeeps == ASSUME Inv, NEW w \in Writers, RevokeReview(w) PROVE StepKeeps
<1> DEFINE observed(c) == IF StaleApproval(c) THEN RecordSuperseded(c) ELSE c
<1>1. /\ w \in fresh /\ Approved(copy[w])
      /\ Stored(w, [RevokeApproved(observed(copy[w]), "operator") EXCEPT !.lane = "review"])
  BY SaveStores DEF RevokeReview
<1>2. copy[w] = mission /\ Sound(branch, gated, mission) /\ mission \in Mission
  BY <1>1, CopyIsStored DEF Sound
<1>3. /\ Tip \in Nat /\ Tip \in 1..MaxRevision /\ branch \in Seq(Revisions) /\ Tip = Len(branch)
      /\ Tip \in 0..MaxRevision
  BY BoundsAssumption DEF Inv, BranchOK, Tip, Revisions
<1>4. /\ HasReview(mission) /\ Current(mission) \in Round /\ RoundFits(branch, gated, Current(mission))
      /\ Current(mission).revoked = "none" /\ EffectiveApproval(Current(mission))
      /\ Current(mission) = mission.rounds[Len(mission.rounds)] /\ mission.rounds # << >>
  BY <1>1, <1>2, StatusOf
<1>5. Stored(w, [RevokeApproved(observed(mission), "operator") EXCEPT !.lane = "review"])
  BY <1>1, <1>2
<1>6. CASE StaleApproval(mission)
  <2> DEFINE r == [Current(mission) EXCEPT !.superseded = Tip]
             n == WithCurrent(mission, r)
  <2>1. /\ r \in Round /\ RoundFits(branch, gated, r) /\ r.decision = "approved" /\ r.revoked = "none"
        /\ KeepsDecision(Current(mission), r)
    BY <1>3, <1>4, <1>6 DEF Round, RoundFits, KeepsDecision, EffectiveApproval, StaleApproval
  <2>2. n \in Mission /\ n.rounds = [mission.rounds EXCEPT ![Len(mission.rounds)] = r]
    BY <1>2, <1>4, <2>1, WithCurrentType
  <2>3. Stored(w, [RevokeApproved(n, "operator") EXCEPT !.lane = "review"])
    BY <1>5, <1>6 DEF RecordSuperseded
  <2> HIDE DEF r, n
  <2>4. QED
    BY <1>4, <2>1, <2>2, <2>3, WithdrawnAfter DEF Causes
<1>7. CASE ~StaleApproval(mission)
  <2>1. mission.rounds = [mission.rounds EXCEPT ![Len(mission.rounds)] = Current(mission)]
    BY <1>2, <1>4 DEF Mission
  <2>2. Stored(w, [RevokeApproved(mission, "operator") EXCEPT !.lane = "review"])
    BY <1>5, <1>7
  <2>3. QED
    BY <1>2, <1>4, <2>1, <2>2, WithdrawnAfter DEF KeepsDecision, Causes, EffectiveApproval
<1>8. QED
  BY <1>6, <1>7

LEMMA InvalidateBlockerKeeps == ASSUME Inv, NEW w \in Writers, InvalidateBlocker(w) PROVE StepKeeps
<1>1. /\ w \in fresh /\ HasReview(copy[w]) /\ Current(copy[w]).blocked
      /\ Stored(w, NextRound(copy[w], Current(copy[w]).subject))
  BY SaveStores DEF InvalidateBlocker
<1>2. copy[w] = mission /\ Sound(branch, gated, mission) /\ mission \in Mission
  BY <1>1, CopyIsStored DEF Sound
<1>3. /\ HasReview(mission) /\ Current(mission) \in Round /\ RoundFits(branch, gated, Current(mission))
      /\ Current(mission).revoked = "none" /\ Current(mission).decision = "changes"
      /\ Current(mission) = mission.rounds[Len(mission.rounds)] /\ mission.rounds # << >>
  BY <1>1, <1>2, StatusOf DEF RoundFits
<1> DEFINE r == Current(mission)
           m == NextRound(mission, r.subject)
<1>4. mission.rounds = [mission.rounds EXCEPT ![Len(mission.rounds)] = r] /\ r.subject \in Revisions
  BY <1>2, <1>3 DEF Mission, Round
<1>5. m.rounds = Append([mission.rounds EXCEPT ![Len(mission.rounds)] = r], OpenedRound(r.subject)) /\ m.lane = mission.lane
  BY <1>2, <1>4 DEF NextRound, Mission
<1>6. m \in Mission
  <2>1. m.rounds \in Seq(Round)
    BY <1>2, <1>3, <1>4, <1>5, OpenedType DEF Mission
  <2>2. QED
    BY <1>2, <2>1 DEF NextRound, Mission
<1>7. m.lane \notin {"backlog", "refined", "integration", "done"}
  BY <1>2, <1>3, <1>5 DEF Sound, LaneFits, EffectiveApproval
<1>8. ~EffectiveApproval(r) /\ KeepsDecision(r, r)
  BY <1>3 DEF EffectiveApproval, KeepsDecision
<1>9. Stored(w, m)
  BY <1>1, <1>2
<1> HIDE DEF m
<1>10. QED
  BY <1>3, <1>4, <1>5, <1>6, <1>7, <1>8, <1>9, RoundFollowed

LEMMA AssessRepairKeeps == ASSUME Inv, NEW w \in Writers, AssessRepair(w) PROVE StepKeeps
<1> DEFINE assessed(c, outcome) == WithCurrent(c, [Current(c) EXCEPT !.repair = outcome, !.candidate = Tip])
           differs(c) == Current(c).superseded # 0 \/ ~SamePatch(Current(c).judged, Tip)
<1>1. /\ w \in fresh /\ PendingApproval(copy[w])
      /\ \/ /\ ~differs(copy[w]) /\ Tip \in gated
            /\ Stored(w, [assessed(copy[w], "retained") EXCEPT !.lane = "integration"])
         \/ Stored(w, [RevokeApproved(assessed(copy[w], "changed"), "gate") EXCEPT
                         !.lane = IF copy[w].lane = "active" THEN "active" ELSE "review"])
         \/ Stored(w, assessed(copy[w], "blocked"))
  BY SaveStores DEF AssessRepair
<1>2. copy[w] = mission /\ Sound(branch, gated, mission) /\ mission \in Mission
  BY <1>1, CopyIsStored DEF Sound
<1>3. /\ Tip \in Nat /\ Tip \in 1..MaxRevision /\ branch \in Seq(Revisions) /\ Tip = Len(branch)
      /\ Tip \in 0..MaxRevision
  BY BoundsAssumption DEF Inv, BranchOK, Tip, Revisions
<1>4. /\ HasReview(mission) /\ Current(mission) \in Round /\ RoundFits(branch, gated, Current(mission))
      /\ Current(mission).revoked = "none" /\ EffectiveApproval(Current(mission))
      /\ mission.lane \in {"active", "review"}
  BY <1>1, <1>2, StatusOf DEF PendingApproval
<1> DEFINE r(outcome) == [Current(mission) EXCEPT !.repair = outcome, !.candidate = Tip]
           k(outcome) == WithCurrent(mission, r(outcome))
<1>5. ASSUME NEW outcome \in {"changed", "blocked"}
      PROVE  /\ r(outcome) \in Round /\ RoundFits(branch, gated, r(outcome)) /\ r(outcome).revoked = "none"
             /\ r(outcome).decision = "approved" /\ r(outcome).repair = outcome
             /\ KeepsDecision(Current(mission), r(outcome))
  <2>1. r(outcome) \in Round
    BY <1>3, <1>4, RoundTypes DEF Assessments
  <2>2. /\ r(outcome).decision = Current(mission).decision /\ r(outcome).judged = Current(mission).judged
        /\ r(outcome).repair = outcome /\ r(outcome).revoked = Current(mission).revoked
        /\ r(outcome).superseded = Current(mission).superseded /\ r(outcome).subject = Current(mission).subject
        /\ r(outcome).response = Current(mission).response /\ r(outcome).blocked = Current(mission).blocked
    BY <1>4 DEF Round
  <2>3. RoundFits(branch, gated, r(outcome)) /\ r(outcome).decision = "approved"
    <3>1. r(outcome).decision = "approved" /\ r(outcome).repair # "retained"
      BY <1>4, <2>2 DEF EffectiveApproval
    <3> HIDE DEF r
    <3>2. RoundFits(branch, gated, r(outcome))
      BY <1>4, <2>2, <3>1 DEF RoundFits
    <3>3. QED
      BY <3>1, <3>2
  <2>4. QED
    BY <1>4, <2>1, <2>2, <2>3 DEF KeepsDecision
<1>6. CASE ~differs(mission) /\ Tip \in gated /\ Stored(w, [k("retained") EXCEPT !.lane = "integration"])
  <2> DEFINE m == [k("retained") EXCEPT !.lane = "integration"]
  <2>1. /\ r("retained") \in Round /\ r("retained").revoked = "none"
        /\ r("retained").decision = "approved" /\ r("retained").repair = "retained"
        /\ KeepsDecision(Current(mission), r("retained"))
    <3>1. r("retained") \in Round
      BY <1>3, <1>4, RoundTypes DEF Assessments
    <3>2. QED
      BY <1>4, <3>1 DEF Round, KeepsDecision, EffectiveApproval
  <2>2. RoundFits(branch, gated, r("retained"))
    BY <1>3, <1>4, <1>6 DEF Round, RoundFits, SamePatch, EffectiveApproval
  <2>3. k("retained") \in Mission /\ m \in Mission /\ m.lane = "integration" /\ m.rounds = k("retained").rounds
    <3>1. k("retained") \in Mission
      BY <1>2, <1>4, <2>1, WithCurrentType
    <3> HIDE DEF k
    <3>2. QED
      BY <3>1, InLane DEF Lanes
  <2>4. QED
    BY <1>4, <1>6, <2>1, <2>2, <2>3, RoundRewritten
<1>7. CASE Stored(w, [RevokeApproved(k("changed"), "gate") EXCEPT
                        !.lane = IF mission.lane = "active" THEN "active" ELSE "review"])
  <2> DEFINE n == k("changed")
  <2>1. n \in Mission /\ n.rounds = [mission.rounds EXCEPT ![Len(mission.rounds)] = r("changed")]
    BY <1>2, <1>4, <1>5, WithCurrentType
  <2>2. PICK lane \in {"active", "review"} : Stored(w, [RevokeApproved(n, "gate") EXCEPT !.lane = lane])
    BY <1>7
  <2> HIDE DEF n, r
  <2>3. QED
    BY <1>4, <1>5, <2>1, <2>2, WithdrawnAfter DEF Causes
<1>8. CASE Stored(w, k("blocked"))
  <2>1. k("blocked") \in Mission /\ k("blocked").lane = mission.lane
    BY <1>2, <1>4, <1>5, WithCurrentType
  <2>2. QED
    BY <1>4, <1>5, <1>8, <2>1, RoundRewritten
<1>9. QED
  BY <1>1, <1>2, <1>6, <1>7, <1>8

-----------------------------------------------------------------------------
(* Submissions.                                                            *)

(* Whatever is submitted, the mission goes to review; what has to fit is   *)
(* the conversation handed over.                                           *)
LEMMA SubmitKeeps ==
  ASSUME Inv, NEW w \in Writers, NEW review \in Mission, NEW prepared, NEW key,
         Submit(w, mission, review, prepared, key),
         ValidSubmission(mission, review) =>
           RoundsFit(branch, gated, review.rounds) /\ Continues(mission.rounds, review.rounds)
  PROVE  StepKeeps
<1>1. mission \in Mission /\ Sound(branch, gated, mission)
  BY DEF Inv, Sound
<1>2. \/ Stored(w, Submitted(mission, mission, prepared))
      \/ Stored(w, Submitted(mission, review, prepared)) /\ ValidSubmission(mission, review)
  BY StoreStores DEF Submit
<1>3. CASE Stored(w, Submitted(mission, mission, prepared))
  <2> DEFINE m == Submitted(mission, mission, prepared)
  <2>1. m \in Mission /\ m.rounds = mission.rounds /\ m.lane = "review"
    BY <1>1 DEF Submitted, Mission, Lanes
  <2>2. LaneFits(m)
    BY <2>1 DEF LaneFits
  <2>3. QED
    BY <1>3, <2>1, <2>2, RoundsKept
<1>4. CASE Stored(w, Submitted(mission, review, prepared)) /\ ValidSubmission(mission, review)
  <2> DEFINE m == Submitted(mission, review, prepared)
  <2>1. m \in Mission /\ m.rounds = review.rounds /\ m.lane = "review"
    BY <1>1 DEF Submitted, Mission, Lanes
  <2>2. Sound(branch, gated, m)
    BY <1>4, <2>1 DEF LaneFits, Sound
  <2>3. QED
    BY <1>4, <2>1, <2>2, StoredKeeps
<1>5. QED
  BY <1>2, <1>3, <1>4

LEMMA RepairResubmitKeeps == ASSUME Inv, NEW w \in Writers, RepairResubmit(w) PROVE StepKeeps
<1>1. copy[w] = mission /\ mission \in Mission /\ RoundsFit(branch, gated, mission.rounds)
  BY CopyIsStored DEF RepairResubmit, Sound
<1>2. Continues(mission.rounds, mission.rounds)
  BY <1>1, ContinuesSelf DEF RoundsFit
<1>3. QED
  BY <1>1, <1>2, SubmitKeeps DEF RepairResubmit

(* The next round of a resolved conversation.                              *)
LEMMA NextFits ==
  ASSUME NEW m, Sound(branch, gated, m), BranchOK, Status(m) = "ready-for-next-round", NEW subject \in Revisions
  PROVE  LET t == NextRound(m, subject) IN
         /\ t \in Mission /\ RoundsFit(branch, gated, t.rounds) /\ Continues(m.rounds, t.rounds)
         /\ Len(t.rounds) = Len(m.rounds) + 1
         /\ \A i \in 1..Len(m.rounds) : t.rounds[i] = m.rounds[i]
         /\ m.rounds # << >> /\ m.rounds[Len(m.rounds)].decision = "changes"
<1> DEFINE t == NextRound(m, subject)
           r == Current(m)
<1>1. /\ m \in Mission /\ RoundsFit(branch, gated, m.rounds) /\ m.rounds \in Seq(Round) /\ branch \in Seq(Revisions)
  BY DEF Sound, RoundsFit, BranchOK
<1>2. /\ r \in Round /\ RoundFits(branch, gated, r) /\ r.decision = "changes"
      /\ r = m.rounds[Len(m.rounds)] /\ m.rounds # << >>
  BY StatusOf
<1>3. m.rounds = [m.rounds EXCEPT ![Len(m.rounds)] = r] /\ ~EffectiveApproval(r) /\ KeepsDecision(r, r)
  BY <1>1, <1>2 DEF EffectiveApproval, KeepsDecision
<1>4. t.rounds = Append(m.rounds, OpenedRound(subject))
  BY <1>1 DEF NextRound, Mission
<1>5. /\ RoundsFit(branch, gated, t.rounds) /\ Continues(m.rounds, t.rounds) /\ Len(t.rounds) = Len(m.rounds) + 1
  BY <1>1, <1>2, <1>3, <1>4, Followed
<1>6. \A i \in 1..Len(m.rounds) : t.rounds[i] = m.rounds[i]
  BY <1>1, <1>4, OpenedType
<1>7. t \in Mission
  BY <1>1, <1>5 DEF NextRound, Mission, RoundsFit
<1>8. QED
  BY <1>2, <1>5, <1>6, <1>7

LEMMA OpenRoundKeeps == ASSUME Inv, NEW w \in Writers, OpenRound(w) PROVE StepKeeps
<1>1. copy[w] = mission /\ mission \in Mission /\ Sound(branch, gated, mission) /\ RoundsFit(branch, gated, mission.rounds)
  BY CopyIsStored DEF OpenRound, Sound
<1>2. Continues(mission.rounds, mission.rounds)
  BY <1>1, ContinuesSelf DEF RoundsFit
<1>3. CASE Status(mission) = "ready-for-next-round"
  <2>1. Current(mission).response \in Revisions
    BY <1>1, <1>3, StatusOf, BoundsAssumption DEF Round, Revisions
  <2> DEFINE t == NextRound(mission, Current(mission).response)
  <2>2. t \in Mission /\ RoundsFit(branch, gated, t.rounds) /\ Continues(mission.rounds, t.rounds)
    BY <1>1, <1>3, <2>1, NextFits DEF Inv
  <2>3. Submit(w, mission, t, 0, <<"open", Len(t.rounds)>>)
    BY <1>1, <1>3 DEF OpenRound
  <2> HIDE DEF t
  <2>4. QED
    BY <2>2, <2>3, SubmitKeeps
<1>4. CASE Status(mission) # "ready-for-next-round"
  <2>1. Submit(w, mission, mission, 0, <<"open", Len(mission.rounds)>>)
    BY <1>1, <1>4 DEF OpenRound
  <2>2. QED
    BY <1>1, <1>2, <2>1, SubmitKeeps
<1>5. QED
  BY <1>3, <1>4

(* A review prepared from an old copy, if it is accepted at all, continues *)
(* the conversation as it has become.                                      *)
LEMMA PreparedFits ==
  ASSUME Inv, NEW w \in Writers
  PROVE  LET review == PreparedReview(copy[w]) IN
         /\ review \in Mission
         /\ ValidSubmission(mission, review) =>
              RoundsFit(branch, gated, review.rounds) /\ Continues(mission.rounds, review.rounds)
<1> DEFINE c == copy[w]
           review == PreparedReview(c)
           old == c.rounds
           now == mission.rounds
<1>1. /\ c \in Mission /\ Sound(branch, gated, c) /\ RoundsFit(branch, gated, old) /\ Continues(old, now)
      /\ RoundsFit(branch, gated, now) /\ old \in Seq(Round) /\ now \in Seq(Round)
      /\ Len(old) \in Nat /\ Len(now) \in Nat /\ Len(old) <= Len(now)
  BY DEF Inv, CopyOf, Sound, RoundsFit, Continues
<1>2. Tip \in Revisions /\ branch \in Seq(Revisions) /\ BranchOK
  BY DEF Inv, BranchOK
<1>3. ASSUME ValidSubmission(mission, review)
      PROVE  /\ Status(review) = "awaiting-review"
             /\ now # << >> => \/ Len(review.rounds) > Len(now)
                               \/ Len(review.rounds) = Len(now) /\ now[Len(now)].decision = "none"
  BY <1>3 DEF ValidSubmission, HasReview, Current
<1>4. CASE ~HasReview(c)
  <2>1. old = << >> /\ review = NextRound(c, Tip)
    BY <1>4 DEF PreparedReview, HasReview, Status
  <2>2. OpenedRound(Tip) \in Round /\ RoundFits(branch, gated, OpenedRound(Tip)) /\ OpenedRound(Tip).revoked = "none"
    BY <1>2, OpenedType DEF OpenedRound, RoundFits
  <2>3. review.rounds = <<OpenedRound(Tip)>> /\ review \in Mission
    <3>1. <<OpenedRound(Tip)>> \in Seq(Round) /\ Append(<< >>, OpenedRound(Tip)) = <<OpenedRound(Tip)>>
      BY <2>2
    <3>2. QED
      BY <1>1, <2>1, <3>1 DEF NextRound, Mission
  <2>4. RoundsFit(branch, gated, review.rounds)
    BY <2>2, <2>3 DEF RoundsFit
  <2>5. ASSUME ValidSubmission(mission, review)
        PROVE  Continues(now, review.rounds)
    <3>1. Len(review.rounds) = 1
      BY <2>3
    <3>2. now # << >> => Len(now) = 1 /\ now[1].decision = "none"
      BY <1>1, <1>3, <2>5, <3>1
    <3>3. now = << >> => Len(now) = 0
      OBVIOUS
    <3>4. Len(now) \in {0, 1} /\ \A i \in 1..Len(now) : now[i].decision = "none"
      BY <3>2, <3>3
    <3> HIDE DEF review, now
    <3>5. QED
      BY <3>1, <3>4 DEF Continues
  <2>6. QED
    BY <2>3, <2>4, <2>5
<1>5. CASE HasReview(c) /\ Status(c) = "ready-for-next-round"
  <2>1. review = NextRound(c, Tip)
    BY <1>5 DEF PreparedReview
  <2>2. /\ review \in Mission /\ RoundsFit(branch, gated, review.rounds) /\ Len(review.rounds) = Len(old) + 1
        /\ \A i \in 1..Len(old) : review.rounds[i] = old[i]
        /\ old # << >> /\ old[Len(old)].decision = "changes"
    BY <1>1, <1>2, <1>5, <2>1, NextFits
  <2>3. ASSUME ValidSubmission(mission, review)
        PROVE  Continues(now, review.rounds)
    <3>1. now # << >> /\ Len(old) >= 1
      BY <1>1, <2>2
    <3>2. Len(now) <= Len(review.rounds) /\ (Len(now) = Len(old) + 1 => now[Len(now)].decision = "none")
      BY <1>1, <1>3, <2>2, <2>3, <3>1
    <3>3. \A i \in 1..Len(now) : now[i].decision # "none" => i \in 1..Len(old)
      BY <1>1, <2>2, <3>2
    <3>4. \A i \in 1..Len(old) : old[i].decision # "none"
      BY <1>1, <2>2 DEF RoundsFit
    <3> HIDE DEF review
    <3>5. QED
      BY <1>1, <2>2, <3>2, <3>3, <3>4, MadeFromCopy
  <2>4. QED
    BY <2>2, <2>3
<1>6. CASE HasReview(c) /\ Status(c) # "ready-for-next-round"
  <2>1. \/ review = [c EXCEPT !.rounds[Len(old)].subject = Tip] /\ Status(c) = "awaiting-review"
        \/ review = c
    BY <1>6 DEF PreparedReview
  <2>2. /\ Current(c) \in Round /\ RoundFits(branch, gated, Current(c)) /\ Current(c).revoked = "none"
        /\ Current(c) = old[Len(old)] /\ old # << >> /\ Len(old) >= 1
    BY <1>1, <1>6, StatusOf
  <2>3. CASE review = [c EXCEPT !.rounds[Len(old)].subject = Tip] /\ Status(c) = "awaiting-review"
    <3> DEFINE r == [Current(c) EXCEPT !.subject = Tip]
               t == [old EXCEPT ![Len(old)] = r]
    <3>1. old[Len(old)].decision = "none" /\ Current(c).decision = "none"
      BY <1>1, <2>2, <2>3, StatusOf
    <3>2. r \in Round /\ RoundFits(branch, gated, r) /\ r.revoked = "none" /\ r.decision = "none"
      BY <1>2, <2>2, <3>1 DEF Round, RoundFits
    <3>3. review.rounds = t
      BY <1>1, <2>2, <2>3 DEF Mission
    <3>4. RoundsFit(branch, gated, t) /\ Len(t) = Len(old)
      <4> HIDE DEF r, c
      <4>1. QED
        BY <1>1, <2>2, <3>1, <3>2, Rewritten
    <3>5. review \in Mission
      BY <1>1, <2>3, <3>3, <3>4 DEF Mission, RoundsFit
    <3>6. \A i \in 1..(Len(old) - 1) : t[i] = old[i] /\ old[i].decision # "none"
      BY <1>1 DEF RoundsFit
    <3>7. ASSUME ValidSubmission(mission, review)
          PROVE  Continues(now, t)
      <4>1. Len(now) = Len(old) /\ now[Len(now)].decision = "none"
        BY <1>1, <1>3, <2>2, <3>3, <3>4, <3>7
      <4> HIDE DEF t, r, review, c
      <4>2. QED
        BY <1>1, <2>2, <3>1, <3>4, <3>6, <4>1, MadeFromCopy
    <3>8. QED
      BY <3>3, <3>4, <3>5, <3>7
  <2>4. CASE review = c
    <3>1. ASSUME ValidSubmission(mission, review)
          PROVE  Continues(now, old)
      <4>1. Current(c).decision = "none"
        BY <1>1, <1>3, <2>4, <3>1, StatusOf
      <4>2. Len(now) = Len(old) /\ now[Len(now)].decision = "none"
        BY <1>1, <1>3, <2>2, <2>4, <3>1
      <4>3. \A i \in 1..(Len(old) - 1) : old[i].decision # "none"
        BY <1>1 DEF RoundsFit
      <4>4. QED
        BY <1>1, <2>2, <4>1, <4>2, <4>3, MadeFromCopy
    <3>2. QED
      BY <1>1, <2>4, <3>1
  <2>5. QED
    BY <2>1, <2>3, <2>4
<1>7. QED
  BY <1>4, <1>5, <1>6

LEMMA SubmitForReviewKeeps == ASSUME Inv, NEW w \in Writers, SubmitForReview(w) PROVE StepKeeps
<1> DEFINE review == PreparedReview(copy[w])
<1>1. PICK key : Submit(w, mission, review, Tip, key)
  BY DEF SubmitForReview
<1>2. /\ review \in Mission
      /\ ValidSubmission(mission, review) =>
           RoundsFit(branch, gated, review.rounds) /\ Continues(mission.rounds, review.rounds)
  BY PreparedFits
<1> HIDE DEF review
<1>3. QED
  BY <1>1, <1>2, SubmitKeeps

-----------------------------------------------------------------------------
(* Steps that write nothing.                                               *)

LEMMA LoadKeeps == ASSUME Inv, NEW w \in Writers, Load(w) PROVE StepKeeps
<1>1. mission.rounds \in Seq(Round) /\ Sound(branch, gated, mission) /\ mission \in Mission
  BY DEF Inv, Sound, RoundsFit
<1>2. Continues(mission.rounds, mission.rounds) /\ UNCHANGED <<mission, branch, gated>>
  BY <1>1, ContinuesSelf DEF Load
<1>3. BranchOK' /\ RestOK'
  BY <1>1 DEF Inv, BranchOK, RestOK, Load, Tip
<1>4. ASSUME NEW v \in Writers
      PROVE  CopyOf(v)'
  BY <1>1, <1>2 DEF Inv, RestOK, CopyOf, Load
<1>5. QED
  BY <1>1, <1>2, <1>3, <1>4 DEF Inv, StepKeeps

LEMMA BranchKeeps ==
  ASSUME Inv, UNCHANGED <<mission, copy, fresh, history>>, BranchOK', gated \subseteq gated',
         Len(branch) <= Len(branch'), \A i \in 1..Len(branch) : branch'[i] = branch[i]
  PROVE  StepKeeps
<1>1. mission.rounds \in Seq(Round) /\ branch \in Seq(Revisions) /\ branch' \in Seq(Revisions)
  BY DEF Inv, Sound, RoundsFit, BranchOK
<1>2. Continues(mission.rounds, mission.rounds)
  BY <1>1, ContinuesSelf
<1>3. \A m : Sound(branch, gated, m) => Sound(branch', gated', m)
  BY <1>1, StillFits
<1>4. Sound(branch', gated', mission) /\ \A v \in Writers : Sound(branch', gated', copy[v])
  BY <1>3 DEF Inv, CopyOf
<1>5. QED
  BY <1>2, <1>4 DEF Inv, CopyOf, RestOK, StepKeeps

LEMMA MoveKeeps == ASSUME Inv, NEW change \in Revisions, MoveBranch(change) PROVE StepKeeps
<1>1. branch \in Seq(Revisions) /\ Tip \in Nat /\ Tip = Len(branch)
  BY DEF Inv, BranchOK, Tip
<1>2. branch' \in Seq(Revisions) /\ Len(branch') = Len(branch) + 1 /\ \A i \in 1..Len(branch) : branch'[i] = branch[i]
  BY <1>1 DEF MoveBranch
<1>3. BranchOK'
  BY <1>1, <1>2, BoundsAssumption DEF Inv, BranchOK, Tip, MoveBranch, Revisions
<1>4. QED
  BY <1>1, <1>2, <1>3, BranchKeeps DEF MoveBranch

LEMMA GatesPassKeeps == ASSUME Inv, GatesPass PROVE StepKeeps
<1>1. BranchOK' /\ branch \in Seq(Revisions)
  BY DEF Inv, BranchOK, Tip, GatesPass
<1>2. QED
  BY <1>1, BranchKeeps DEF GatesPass

LEMMA NextKeeps == Inv /\ [Next]_vars => StepKeeps
<1> SUFFICES ASSUME Inv, [Next]_vars
             PROVE  StepKeeps
  OBVIOUS
<1>1. ASSUME NEW w \in Writers, Load(w)
      PROVE  StepKeeps
  BY <1>1, LoadKeeps
<1>2. ASSUME NEW w \in Writers, Write(w)
      PROVE  StepKeeps
  BY <1>2, RefineKeeps, ActivateKeeps, AbortActivationKeeps, BeginPreparationKeeps, SubmitForReviewKeeps,
     OpenRoundKeeps, RequestChangesKeeps, SettleChangesKeeps, ResolveKeeps, ApproveKeeps, SettleApprovalKeeps,
     GateReboundKeeps, RepairReboundKeeps, RepairResubmitKeeps, AssessRepairKeeps,
     RecordBranchMoveKeeps, RevokeReviewKeeps, LoopWriteKeeps, ResumeKeeps, InvalidateBlockerKeeps,
     ResetReviewKeeps, RecordImplementerKeeps, IntegrateKeeps DEF Write
<1>3. CASE Commit \/ Rebase
  <2>1. branch \in Seq(Revisions) /\ Tip \in Revisions /\ Tip = Len(branch)
    BY DEF Inv, BranchOK, Tip
  <2>2. Tip < MaxRevision
    BY <1>3 DEF Commit, Rebase, MoveBranch
  <2>3. Tip + 1 \in Revisions /\ branch[Tip] \in Revisions
    BY <2>1, <2>2, BoundsAssumption DEF Revisions
  <2>4. QED
    BY <1>3, <2>3, MoveKeeps DEF Commit, Rebase
<1>4. CASE GatesPass
  BY <1>4, GatesPassKeeps
<1>5. CASE UNCHANGED vars
  <2>1. BranchOK' /\ branch \in Seq(Revisions)
    BY <1>5 DEF Inv, BranchOK, Tip, vars
  <2>2. QED
    BY <1>5, <2>1, BranchKeeps DEF vars
<1>6. QED
  BY <1>1, <1>2, <1>3, <1>4, <1>5 DEF Next

-----------------------------------------------------------------------------
(* What every reachable state satisfies, for any constants.                *)
THEOREM Invariance == Spec => []Inv
<1>1. Inv /\ [Next]_vars => Inv'
  BY NextKeeps DEF StepKeeps
<1>2. QED
  BY InitInv, <1>1, PTL DEF Spec

(* Every variable keeps its type, the copies of slow writers included.     *)
THEOREM TypeCorrect == Spec => []TypeOK
BY Invariance, InvType, PTL

(* A mission is integrated only under an approval that stands, whoever     *)
(* wrote in between and however old the copy he wrote from.                *)
THEOREM IntegratedIsApproved == Spec => []IntegrationIsApproved
BY Invariance, InvIntegration, PTL

(* No approval is stranded on an active mission.                           *)
THEOREM ApprovalNotStranded == Spec => []NoStrandedApproval
BY Invariance, InvStranded, PTL

(* Only the newest round of a conversation is open.                        *)
THEOREM NewestRoundOnly == Spec => []OnlyNewestRoundOpen
BY Invariance, InvNewest, PTL

(* An approval that is kept over a repair covers the judged change, at a   *)
(* revision whose gates passed.                                            *)
THEOREM RetainedWasJudged == Spec => []RetainedIsJudged
BY Invariance, InvRetained, PTL

(* No write removes or alters what was decided.                            *)
THEOREM DecisionsKept == Spec => DecisionsAreKept
<1>1. ASSUME Inv, [Next]_vars
      PROVE  [\A i \in DOMAIN mission.rounds : mission.rounds[i].decision # "none" =>
                /\ i \in DOMAIN mission'.rounds
                /\ KeepsDecision(mission.rounds[i], mission'.rounds[i])]_vars
  <2>1. Continues(mission.rounds, mission'.rounds)
    BY <1>1, NextKeeps DEF StepKeeps
  <2>2. mission.rounds \in Seq(Round) /\ mission'.rounds \in Seq(Round)
    BY <1>1, NextKeeps DEF StepKeeps, Inv, Sound, RoundsFit
  <2>3. DOMAIN mission.rounds = 1..Len(mission.rounds) /\ DOMAIN mission'.rounds = 1..Len(mission'.rounds)
        /\ Len(mission.rounds) \in Nat /\ Len(mission'.rounds) \in Nat
    BY <2>2
  <2>4. QED
    BY <2>1, <2>3 DEF Continues
<1>2. QED
  BY <1>1, Invariance, PTL DEF Spec, DecisionsAreKept

(* An approval whose gate failed comes back to integration only retained,  *)
(* or through a later round.                                               *)
THEOREM RepairAnswered == Spec => RepairIsAnswered
<1>1. ASSUME Inv, [Next]_vars
      PROVE  [mission.lane # "integration" /\ mission'.lane = "integration" =>
                ~\E i \in DOMAIN mission'.rounds :
                   /\ mission'.rounds[i].repair \in {"pending", "blocked", "changed"}
                   /\ ~\E j \in DOMAIN mission'.rounds : j > i /\ EffectiveApproval(mission'.rounds[j])]_vars
  <2>1. Inv'
    BY <1>1, NextKeeps DEF StepKeeps
  <2>2. mission'.rounds \in Seq(Round) /\ LaneFits(mission')
    BY <2>1 DEF Inv, Sound, RoundsFit
  <2>3. DOMAIN mission'.rounds = 1..Len(mission'.rounds) /\ Len(mission'.rounds) \in Nat
    BY <2>2
  <2>4. ASSUME mission'.lane = "integration", NEW i \in DOMAIN mission'.rounds,
               mission'.rounds[i].repair \in {"pending", "blocked", "changed"}
        PROVE  \E j \in DOMAIN mission'.rounds : j > i /\ EffectiveApproval(mission'.rounds[j])
    <3> DEFINE n == Len(mission'.rounds)
    <3>1. EffectiveApproval(mission'.rounds[n]) /\ mission'.rounds[n].repair \in {"none", "retained"}
      BY <2>2, <2>4 DEF LaneFits, Current
    <3>2. n \in DOMAIN mission'.rounds /\ n > i
      BY <2>3, <2>4, <3>1
    <3>3. QED
      BY <3>1, <3>2
  <2>5. QED
    BY <2>4
<1>2. QED
  BY <1>1, Invariance, PTL DEF Spec, RepairIsAnswered

=============================================================================
