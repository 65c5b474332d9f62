------------------------- MODULE MissionLifecycle -------------------------
(***************************************************************************)
(* One mission as the operator database keeps it: its lane, its review     *)
(* conversation (a sequence of rounds) and its lane history; the processes *)
(* that read it, decide and write it back (review preparation, the review  *)
(* loop, the operator's commands, integration); and the branch the rounds  *)
(* are about.                                                              *)
(*                                                                         *)
(* Every writer keeps the mission it read.  A write names the version that *)
(* was read and is refused when another write came between, with two       *)
(* exceptions the code makes: a review submission is built from one read   *)
(* and decided upon by a second, and the loop's bookkeeping is applied to  *)
(* whatever is stored.  "fresh" is the set of writers whose copy is        *)
(* current, which is all a version number is compared for.                 *)
(***************************************************************************)
EXTENDS Naturals, Sequences, FiniteSets

CONSTANTS
  Writers,      \* processes that write the mission
  Prompt,       \* writers that always act on a read made just before: a
                \* version-checked write that was not refused is one step
  Reusable,     \* names of the event keys remembered, see Store
  MaxRounds,    \* bound: review rounds
  MaxRevision   \* bound: revisions of the mission branch

ASSUME WritersAssumption == Prompt \subseteq Writers
ASSUME BoundsAssumption == MaxRounds \in Nat \ {0} /\ MaxRevision \in Nat \ {0}

VARIABLES
  mission,  \* the stored aggregate
  branch,   \* branch[r]: the change (patch identity) revision r would land
  gated,    \* revisions on which the integration gates passed
  copy,     \* the aggregate each writer read
  fresh,    \* writers whose copy is the stored version
  history,  \* lane named by the newest recorded lane event
  keys      \* <<idempotency key, from, to>> of events recorded under a key
            \* that a later transition can use again

vars == <<mission, branch, gated, copy, fresh, history, keys>>

Lanes == {"backlog", "refined", "active", "review", "integration", "done"}
Causes == {"none", "operator", "gate", "repair"}
Assessments == {"none", "pending", "retained", "blocked", "changed"}
Revisions == 1..MaxRevision
Tip == Len(branch)

(***************************************************************************)
(* Review rounds.  0 stands for "no revision".                             *)
(***************************************************************************)
Round == [subject : Revisions, decision : {"none", "changes", "approved"},
          judged : 0..MaxRevision, revoked : Causes, superseded : 0..MaxRevision,
          response : 0..MaxRevision, blocked : BOOLEAN,
          repair : Assessments, candidate : 0..MaxRevision]

Mission == [lane : Lanes, preparing : BOOLEAN, rounds : Seq(Round), paused : BOOLEAN]

OpenedRound(subject) ==
  [subject |-> subject, decision |-> "none", judged |-> 0, revoked |-> "none",
   superseded |-> 0, response |-> 0, blocked |-> FALSE, repair |-> "none", candidate |-> 0]

HasReview(m) == m.rounds # << >>
Current(m) == m.rounds[Len(m.rounds)]
WithCurrent(m, round) == [m EXCEPT !.rounds[Len(m.rounds)] = round]

EffectiveApproval(round) == round.decision = "approved" /\ round.revoked = "none"

ReviewStatus(m) ==
  IF EffectiveApproval(Current(m)) THEN "approved"
  ELSE IF m.paused THEN "human-intervention"
  ELSE IF Current(m).response # 0 THEN "ready-for-next-round"
  ELSE IF Current(m).decision = "changes" THEN "awaiting-implementation"
  ELSE "awaiting-review"

Status(m) == IF HasReview(m) THEN ReviewStatus(m) ELSE "no-review"
Approved(m) == Status(m) = "approved"

(* The approval is kept while its failed integration gate is repaired. *)
PendingApproval(m) ==
  m.lane \in {"active", "review"} /\ Approved(m) /\ Current(m).repair # "none"

(* A withdrawn approval whose repair no later approval has resolved. *)
RepairNeedsReview(m) ==
  /\ m.lane \in {"active", "review"} /\ HasReview(m) /\ ~Approved(m)
  /\ \E i \in DOMAIN m.rounds :
       /\ m.rounds[i].decision = "approved" /\ m.rounds[i].revoked = "gate"
       /\ \A j \in DOMAIN m.rounds : j > i => m.rounds[j].decision # "approved"

(* Variant: the withdrawn approval is not marked. *)
RevokeApprovedUnmarked(m, cause) ==
  [m EXCEPT !.rounds = Append(@, OpenedRound(Current(m).subject)), !.paused = FALSE]

RevokeApproved(m, cause) ==
  LET round == Current(m)
      next == OpenedRound(IF round.superseded # 0 THEN round.superseded ELSE round.subject)
  IN [m EXCEPT !.rounds = Append([@ EXCEPT ![Len(@)].revoked = cause], next),
               !.paused = FALSE]

NextRound(m, subject) ==
  [m EXCEPT !.rounds = Append(@, OpenedRound(subject)), !.paused = FALSE]

(***************************************************************************)
(* The branch against the approval.                                        *)
(***************************************************************************)
(* Retention extends what the approval covers to the repaired candidate. *)
CoveredRevision(round) == IF round.repair = "retained" THEN round.candidate ELSE round.judged

SamePatch(r, s) == branch[r] = branch[s]

StaleApproval(m) ==
  Approved(m) /\ Current(m).superseded = 0 /\ ~SamePatch(CoveredRevision(Current(m)), Tip)

RecordSuperseded(m) == WithCurrent(m, [Current(m) EXCEPT !.superseded = Tip])

(***************************************************************************)
(* Storing a decision: version check, aggregate and lane event in one      *)
(* transaction.  A key already used for the same transition is a replay:   *)
(* the aggregate is stored and no event is added.  A key used for another  *)
(* transition is refused.  "unique" is a key no other transition has; the  *)
(* keys outside Reusable are taken for unique.                             *)
(***************************************************************************)
Unique == <<"unique", 0>>

(* Admits(m, k): the lane event of storing m under key k is no collision. *)
Admits(m, key) ==
  \/ m.lane = mission.lane
  \/ \A e \in keys : e[1] = key => e = <<key, mission.lane, m.lane>>

RecordLane(m, key) ==
  LET event == <<key, mission.lane, m.lane>> IN
  IF m.lane = mission.lane \/ event \in keys
  THEN UNCHANGED <<history, keys>>
  ELSE /\ history' = m.lane
       /\ keys' = IF key[1] \in Reusable THEN keys \cup {event} ELSE keys

Store(w, m, key) ==
  /\ Admits(m, key)
  /\ RecordLane(m, key)
  /\ mission' = m
  /\ copy' = [v \in Writers |-> IF v \in Prompt \cup {w} THEN m ELSE copy[v]]
  /\ fresh' = Prompt \cup {w}
  /\ UNCHANGED <<branch, gated>>

(* Variant: the version read is not compared. *)
SaveUnchecked(w, m, key) == Store(w, m, key)

(* A write that names the version its writer read. *)
Save(w, m, key) == w \in fresh /\ Store(w, m, key)

Load(w) ==
  /\ w \notin fresh
  /\ copy' = [copy EXCEPT ![w] = mission]
  /\ fresh' = fresh \cup {w}
  /\ UNCHANGED <<mission, branch, gated, history, keys>>

(***************************************************************************)
(* Draft and activation.                                                   *)
(***************************************************************************)
Refine(w) ==
  /\ copy[w].lane \in {"backlog", "refined"}
  /\ Save(w, [copy[w] EXCEPT !.lane = "refined"], <<"refine", 0>>)

Activate(w) ==
  /\ copy[w].lane \in {"refined", "active"}
  /\ Save(w, [copy[w] EXCEPT !.lane = "active"], Unique)

(* Compensation of an activation after which no agent started: nothing was *)
(* written since, so there is neither a review nor a preparation.          *)
AbortActivation(w) ==
  /\ copy[w].lane = "active" /\ ~HasReview(copy[w]) /\ ~copy[w].preparing
  /\ Save(w, [copy[w] EXCEPT !.lane = "refined"], Unique)

(***************************************************************************)
(* Review preparation and submission.                                      *)
(***************************************************************************)
BeginPreparation(w) ==
  LET m == copy[w] IN
  /\ m.lane \in {"active", "integration"}
  /\ Save(w, [m EXCEPT !.lane = "review", !.preparing = @ \/ m.lane = "active"], Unique)

ValidSubmission(m, review) ==
  /\ Status(review) = "awaiting-review"
  /\ HasReview(m) =>
       \/ Len(review.rounds) > Len(m.rounds)
       \/ Len(review.rounds) = Len(m.rounds) /\ Current(m).decision = "none"

(* The submitted review already is the recorded one; nothing is rewritten. *)
AlreadySubmitted(m, review) ==
  LET n == Len(m.rounds) IN
  /\ m.lane = "review" /\ HasReview(m)
  /\ \/ Approved(m)
     \/ /\ Len(review.rounds) = n
        /\ \/ n = 1 /\ ~m.preparing
           \/ Current(m).decision # "none"
           \/ Current(m).subject = Current(review).subject

Submitted(m, review, prepared) ==
  [m EXCEPT !.lane = "review", !.rounds = review.rounds, !.paused = review.paused,
            !.preparing = @ /\ ~(review.rounds # << >> /\ Current(review).subject = prepared)]

(* m, the mission decided upon, takes the submitted review. *)
Submit(w, m, review, prepared, key) ==
  /\ m.lane \in {"active", "review"}
  /\ ~PendingApproval(m)
  /\ \/ /\ AlreadySubmitted(m, review)
        /\ m.preparing /\ ~Approved(m) => ValidSubmission(m, review)
        /\ Store(w, Submitted(m, m, prepared), key)
     \/ /\ m.lane = "active" /\ Approved(m)
        /\ Store(w, Submitted(m, m, prepared), key)
     \/ /\ ~AlreadySubmitted(m, review) /\ ~Approved(m)
        /\ ValidSubmission(m, review)
        /\ Store(w, Submitted(m, review, prepared), key)

(* The review a preparation hands over: the first round, the next round of *)
(* a resolved conversation, or the undecided round rebound to the head.    *)
PreparedReview(m) ==
  LET bound == [m EXCEPT !.rounds[Len(m.rounds)].subject = Tip] IN
  CASE ~HasReview(m)                        -> NextRound(m, Tip)
    [] Status(m) = "ready-for-next-round"   -> NextRound(m, Tip)
    [] Status(m) = "awaiting-review" /\ (m.lane = "active" \/ m.preparing) -> bound
    [] OTHER                                -> m

(* The submission is decided upon by a read of its own: w need not be fresh. *)
SubmitForReview(w) ==
  LET m == copy[w]
      review == PreparedReview(m)
      key == <<"preparation", IF HasReview(m) THEN Len(review.rounds) ELSE 0>>
  IN /\ Status(m) # "awaiting-implementation"
     /\ Len(review.rounds) <= MaxRounds
     /\ Submit(w, mission, review, Tip, key)

(* The loop opens the round over a mission a repair left active. *)
OpenRound(w) ==
  LET m == copy[w]
      review == IF Status(m) = "ready-for-next-round"
                THEN NextRound(m, Current(m).response) ELSE m
  IN /\ w \in fresh
     /\ m.lane = "active"
     /\ Status(m) \in {"ready-for-next-round", "awaiting-review"}
     /\ Len(review.rounds) <= MaxRounds
     /\ Submit(w, m, review, 0, <<"open", Len(review.rounds)>>)

(***************************************************************************)
(* Decisions of the reviewer and answers of the implementer.               *)
(***************************************************************************)
RequestChanges(w) ==
  LET m == copy[w] IN
  /\ Status(m) = "awaiting-review"
  /\ \E judged \in 1..Tip, blocked \in BOOLEAN :
       Save(w, WithCurrent(m, [Current(m) EXCEPT !.decision = "changes", !.judged = judged,
                                                 !.blocked = blocked]), Unique)

(* The lane follows the recorded decision, also when a replay finds it. *)
SettleChanges(w) ==
  LET m == copy[w] IN
  /\ m.lane = "review"
  /\ HasReview(m) /\ ~m.paused
  /\ Current(m).decision = "changes"
  /\ Status(m) = "awaiting-implementation"
  /\ Save(w, [m EXCEPT !.lane = "active"], <<"changes", Len(m.rounds)>>)

Resolve(w) ==
  LET m == copy[w] IN
  /\ Status(m) = "awaiting-implementation"
  /\ Current(m).subject # Tip
  /\ Save(w, WithCurrent(m, [Current(m) EXCEPT !.response = Tip, !.blocked = FALSE]), Unique)

Judged(m, revision) ==
  WithCurrent(m, [Current(m) EXCEPT !.decision = "approved", !.judged = revision])

(* In the review lane the decision is stored first and the lane follows;   *)
(* from an active lane both are one transition.                            *)
Approve(w) ==
  LET m == copy[w] IN
  /\ Status(m) = "awaiting-review"
  /\ \E judged \in 1..Tip :
       \/ /\ m.lane \in {"review", "integration"}
          /\ Save(w, Judged(m, judged), Unique)
       \/ /\ m.lane = "active" /\ ~RepairNeedsReview(m)
          /\ Save(w, [Judged(m, judged) EXCEPT !.lane = "integration"],
                  <<"approve", Len(m.rounds)>>)

(* Variant: the replay does not look at the pending repair. *)
SettleApprovalUnderRepair(w) ==
  LET m == copy[w] IN
  /\ m.lane = "review" /\ Approved(m)
  /\ Save(w, [m EXCEPT !.lane = "integration"], <<"approve", Len(m.rounds)>>)

(* The second half of an approval, its replay, and recovery by integrate.  *)
(* Integrate would also move an approved active mission back to review; by *)
(* NoStrandedApproval there is none whose repair is not pending.           *)
SettleApproval(w) ==
  LET m == copy[w] IN
  /\ m.lane = "review" /\ Approved(m)
  /\ PendingApproval(m) => Current(m).repair = "retained"
  /\ Save(w, [m EXCEPT !.lane = "integration"], <<"approve", Len(m.rounds)>>)

(***************************************************************************)
(* Return to implementation, and what happens to the approval.             *)
(***************************************************************************)
(* Variant: the repair is not recorded on the approval. *)
GateReboundUnrecorded(w) ==
  LET m == copy[w] IN
  /\ m.lane \in {"integration", "review", "active"}
  /\ m.lane = "review" => ~Approved(m) /\ Status(m) # "human-intervention"
  /\ Save(w, [m EXCEPT !.lane = "active"], Unique)

(* A red integration gate keeps the judgment, with its repair pending. *)
GateRebound(w) ==
  LET m == copy[w]
      kept == WithCurrent(m, [Current(m) EXCEPT !.repair = "pending",
                                                !.candidate = Current(m).judged])
  IN /\ m.lane \in {"integration", "review", "active"}
     /\ ~(m.lane = "active" /\ (RepairNeedsReview(m) \/ PendingApproval(m)))
     /\ ~(m.lane = "review" /\ Status(m) = "human-intervention")
     /\ m.lane = "review" /\ Approved(m) => PendingApproval(m)
     /\ Save(w, [IF Approved(m) /\ ~PendingApproval(m) THEN kept ELSE m
                 EXCEPT !.lane = "active"], Unique)

(* Repair of a review or a rebase withdraws an approval in integration. *)
RepairRebound(w) ==
  LET m == copy[w] IN
  /\ m.lane \in {"integration", "review"}
  /\ Approved(m) => m.lane = "integration"
  /\ m.lane = "review" => Status(m) # "human-intervention"
  /\ Len(m.rounds) < MaxRounds \/ ~Approved(m)
  /\ Save(w, [IF Approved(m) THEN RevokeApproved(m, "repair") ELSE m
              EXCEPT !.lane = "active"], Unique)

RepairResubmit(w) ==
  LET m == copy[w] IN
  /\ w \in fresh
  /\ m.lane = "active" /\ HasReview(m) /\ ~Approved(m)
  /\ Submit(w, m, m, 0, Unique)

(* Variant: the gates are not asked about the candidate. *)
AssessRepairUngated(w) ==
  LET m == copy[w]
      assessed == WithCurrent(m, [Current(m) EXCEPT !.repair = "retained", !.candidate = Tip])
  IN /\ PendingApproval(m)
     /\ SamePatch(Current(m).judged, Tip)
     /\ Save(w, [assessed EXCEPT !.lane = "integration"], Unique)

(* The repaired candidate against the judged change: kept, withdrawn when  *)
(* the change differs, or blocked while the evidence is missing or the two *)
(* cannot be compared.                                                     *)
AssessRepair(w) ==
  LET m == copy[w]
      round == Current(m)
      assessed(outcome) == WithCurrent(m, [round EXCEPT !.repair = outcome, !.candidate = Tip])
      differs == round.superseded # 0 \/ ~SamePatch(round.judged, Tip)
  IN /\ PendingApproval(m)
     /\ \/ /\ ~differs /\ Tip \in gated
           /\ Save(w, [assessed("retained") EXCEPT !.lane = "integration"], Unique)
        \/ /\ differs /\ Len(m.rounds) < MaxRounds
           /\ Save(w, [RevokeApproved(assessed("changed"), "gate") EXCEPT
                         !.lane = IF m.lane = "active" THEN "active" ELSE "review"], Unique)
        \/ round.superseded = 0 /\ Save(w, assessed("blocked"), Unique)

(* A branch move is recorded against the approval it left behind. *)
RecordBranchMove(w) ==
  /\ copy[w].lane # "done" /\ ~PendingApproval(copy[w])
  /\ HasReview(copy[w]) /\ StaleApproval(copy[w])
  /\ Save(w, RecordSuperseded(copy[w]), Unique)

(* Variant: the withdrawal leaves the lane. *)
RevokeReviewInPlace(w) ==
  LET m == copy[w] IN
  /\ m.lane \in {"integration", "active", "review"}
  /\ HasReview(m) /\ Approved(m) /\ Len(m.rounds) < MaxRounds
  /\ Save(w, RevokeApproved(m, "operator"), Unique)

(* The operator withdraws the approval. *)
RevokeReview(w) ==
  LET m == copy[w]
      observed == IF StaleApproval(m) THEN RecordSuperseded(m) ELSE m
  IN /\ m.lane \in {"integration", "active", "review"}
     /\ HasReview(m) /\ Approved(m)
     /\ Len(m.rounds) < MaxRounds
     /\ Save(w, [RevokeApproved(observed, "operator") EXCEPT !.lane = "review"], Unique)

(***************************************************************************)
(* Stops.  The loop writes its bookkeeping over the stored round, once     *)
(* more after a stale write, so it needs no current copy; it carries a     *)
(* stop it read or raises.                                                 *)
(***************************************************************************)
LoopWrite(w) ==
  LET m == copy[w] IN
  /\ HasReview(m) /\ HasReview(mission)
  /\ Len(m.rounds) = Len(mission.rounds)
  /\ \E stop \in {mission.paused \/ m.paused, TRUE} :
       Store(w, [mission EXCEPT !.paused = stop], Unique)

Resume(w) ==
  /\ Status(copy[w]) = "human-intervention"
  /\ Save(w, [copy[w] EXCEPT !.paused = FALSE], Unique)

(* Variant: the next round is bound to the answer, which there is none of. *)
InvalidateBlockerByResponse(w) ==
  LET m == copy[w] IN
  /\ HasReview(m) /\ Current(m).blocked
  /\ Len(m.rounds) < MaxRounds
  /\ Save(w, NextRound(m, Current(m).response), Unique)

InvalidateBlocker(w) ==
  LET m == copy[w] IN
  /\ HasReview(m) /\ Current(m).blocked
  /\ Len(m.rounds) < MaxRounds
  /\ Save(w, NextRound(m, Current(m).subject), Unique)

ResetReview(w) ==
  /\ HasReview(copy[w])
  /\ Save(w, [WithCurrent(copy[w], [Current(copy[w]) EXCEPT !.blocked = FALSE])
              EXCEPT !.paused = FALSE], Unique)

(* Another agent took over: the answer of the former one no longer counts. *)
RecordImplementer(w) ==
  LET m == copy[w] IN
  /\ m.lane \in {"active", "review"} /\ HasReview(m)
  /\ Approved(m) => PendingApproval(m)
  /\ Save(w, WithCurrent(m, [Current(m) EXCEPT !.response = 0,
                               !.blocked = @ /\ Current(m).decision # "changes"]), Unique)

Integrate(w) ==
  /\ copy[w].lane = "integration"
  /\ Save(w, [copy[w] EXCEPT !.lane = "done"], <<"integrate", 0>>)

(***************************************************************************)
(* The branch: a commit changes what would land, a clean rebase does not.  *)
(***************************************************************************)
MoveBranch(change) ==
  /\ Tip < MaxRevision
  /\ mission.lane \in {"active", "review", "integration"}
  /\ branch' = Append(branch, change)
  /\ UNCHANGED <<mission, gated, copy, fresh, history, keys>>

Commit == MoveBranch(Tip + 1)
Rebase == MoveBranch(branch[Tip])

GatesPass ==
  /\ mission.lane \in {"active", "review"} /\ PendingApproval(mission)
  /\ Tip \notin gated
  /\ gated' = gated \cup {Tip}
  /\ UNCHANGED <<mission, branch, copy, fresh, history, keys>>

Init ==
  /\ mission = [lane |-> "backlog", preparing |-> FALSE, rounds |-> << >>, paused |-> FALSE]
  /\ branch = <<1>>
  /\ gated = {}
  /\ copy = [w \in Writers |-> mission]
  /\ fresh = Writers
  /\ history = "backlog"
  /\ keys = {}

Write(w) ==
  \/ Refine(w) \/ Activate(w) \/ AbortActivation(w)
  \/ BeginPreparation(w) \/ SubmitForReview(w) \/ OpenRound(w)
  \/ RequestChanges(w) \/ SettleChanges(w) \/ Resolve(w)
  \/ Approve(w) \/ SettleApproval(w)
  \/ GateRebound(w) \/ RepairRebound(w) \/ RepairResubmit(w)
  \/ AssessRepair(w) \/ RecordBranchMove(w) \/ RevokeReview(w)
  \/ LoopWrite(w) \/ Resume(w) \/ InvalidateBlocker(w) \/ ResetReview(w)
  \/ RecordImplementer(w) \/ Integrate(w)

Next ==
  \/ \E w \in Writers : Load(w) \/ Write(w)
  \/ Commit \/ Rebase \/ GatesPass

Spec == Init /\ [][Next]_vars

(***************************************************************************)
(* Properties.                                                             *)
(***************************************************************************)
(* Every variable keeps its type. *)
TypeOK ==
  /\ mission \in Mission /\ copy \in [Writers -> Mission]
  /\ branch \in Seq(Revisions) /\ Tip \in Revisions
  /\ gated \subseteq Revisions
  /\ fresh \subseteq Writers
  /\ history \in Lanes

(* A mission is in integration, or has landed, only under an approval that *)
(* nobody withdrew and whose failed gate is not open (mission-workflow.ts, *)
(* approveMission; integrate is the only way on).                          *)
IntegrationIsApproved ==
  mission.lane \in {"integration", "done"} =>
    HasReview(mission) /\ Approved(mission) /\ Current(mission).repair \in {"none", "retained"}

(* An active mission carries an effective approval only while the failed   *)
(* integration gate of that approval is repaired: an approval is never     *)
(* stranded on an active lane (review-round.ts, approveRepairedActiveLane).*)
NoStrandedApproval ==
  mission.lane = "active" /\ HasReview(mission) /\ Approved(mission) => PendingApproval(mission)

(* Only the newest round is open: an earlier one was decided, and an       *)
(* approval among them was withdrawn (review.ts, the round constructors).  *)
OnlyNewestRoundOpen ==
  \A i \in 1..(Len(mission.rounds) - 1) :
    /\ mission.rounds[i].decision # "none"
    /\ ~EffectiveApproval(mission.rounds[i])

(* A retained approval covers the change that was judged, at a revision on *)
(* which the failed gate was run again and passed, and no recorded branch  *)
(* move contradicts it (approval-retention.ts).                            *)
RetainedIsJudged ==
  \A i \in DOMAIN mission.rounds :
    LET round == mission.rounds[i] IN
    round.repair = "retained" =>
      SamePatch(round.candidate, round.judged) /\ round.candidate \in gated

(* What was decided stays decided: no write of any process removes a round *)
(* or alters its subject, verdict or judged revision, and a withdrawal or  *)
(* a recorded branch move is never taken back.                             *)
KeepsDecision(before, after) ==
  /\ after.subject = before.subject
  /\ after.decision = before.decision
  /\ after.judged = before.judged
  /\ before.revoked # "none" => after.revoked = before.revoked
  /\ before.superseded # 0 => after.superseded = before.superseded

DecisionsAreKept ==
  [][\A i \in DOMAIN mission.rounds : mission.rounds[i].decision # "none" =>
       /\ i \in DOMAIN mission'.rounds
       /\ KeepsDecision(mission.rounds[i], mission'.rounds[i])]_vars

(* An approval a gate failure put in question returns to integration only  *)
(* through a retained judgment or a round opened after it.                 *)
RepairIsAnswered ==
  [][mission.lane # "integration" /\ mission'.lane = "integration" =>
       ~\E i \in DOMAIN mission'.rounds :
          /\ mission'.rounds[i].repair \in {"pending", "blocked", "changed"}
          /\ ~\E j \in DOMAIN mission'.rounds : j > i /\ EffectiveApproval(mission'.rounds[j])]_vars

(* A writer whose copy is not the stored mission does not lift a stop for  *)
(* the operator (ADR 0053, transaction rule 2: stale callers change        *)
(* nothing).                                                               *)
StaleWriterKeepsStop ==
  [][mission' # mission /\ (\E w \in Writers \ fresh : w \in fresh')
       => (mission.paused => mission'.paused)]_vars

(* "the history is already complete" (mission-lifecycle-service.ts): the   *)
(* newest lane event names the lane the mission is in.                     *)
HistoryIsComplete == history = mission.lane

(* A mission whose approval a gate failure withdrew is approved again only *)
(* after a submission of the repaired revision (mission-workflow.ts,       *)
(* approvableFromActiveLane).                                              *)
RepairIsResubmitted ==
  [][mission.preparing /\ RepairNeedsReview(mission) => ~Approved(mission')]_vars
=============================================================================
