------------------------- MODULE RecoveryClaimProofs -------------------------
(***************************************************************************)
(* Proofs about RecoveryClaim.  The claim goes through two phases: a corpse*)
(* lies on it untouched, and then it has been moved away and the claim is  *)
(* contested.  What holds in the second depends on what the dead have left *)
(* behind:                                                                 *)
(*   - if no caller met an abandoned lock and none died on disk (Peace),   *)
(*     the lock admits one caller to the corpse, and whoever has been given*)
(*     the claim is who is recorded on disk, however many they are;        *)
(*   - otherwise (Few), of two callers one may move the other's record     *)
(*     away, but it puts it back: with a third caller the record could be  *)
(*     replaced meanwhile, and that is when crowded is set.                *)
(***************************************************************************)
EXTENDS RecoveryClaim, FiniteSetTheorems, TLAPS

(* What was moved out of the way was there.                                *)
AsideKnown == \A p \in Callers : pc[p] = "moved" => aside[p] # "none"

(* Only the living move, and only the living hold.                         *)
OnlyLiving ==
    /\ \A p \in Callers \ alive : pc[p] \in {"idle", "done"}
    /\ holds \subseteq alive

Types == TypeOK /\ AsideKnown /\ OnlyLiving

-----------------------------------------------------------------------------
(* A step of p leaves the other callers where they are.                    *)
Alone(p) ==
    /\ alive' = alive
    /\ pc[p] \notin {"idle", "done"} /\ pc'[p] # "idle"
    /\ \A q \in Callers \ {p} :
          /\ pc'[q] = pc[q] /\ target'[q] = target[q]
          /\ seen'[q] = seen[q] /\ aside'[q] = aside[q]
          /\ q \in holds' <=> q \in holds

LEMMA StepAlone ==
    ASSUME Types, NEW p \in Callers, Step(p)
    PROVE  Alone(p)
<1> USE DEF Types, TypeOK, Alone, Goto
<1>1. CASE Exists(p)
  BY <1>1 DEF Exists
<1>2. CASE Rename(p)
  BY <1>2 DEF Rename
<1>3. CASE Confirm(p)
  BY <1>3 DEF Confirm
<1>4. CASE Published(p)
  BY <1>4 DEF Published
<1>5. CASE Unpublished(p)
  BY <1>5 DEF Unpublished
<1>6. CASE Look(p)
  BY <1>6 DEF Look
<1>7. CASE Read(p)
  BY <1>7 DEF Read
<1>8. CASE LookAgain(p)
  BY <1>8 DEF LookAgain
<1>9. CASE ReadAgain(p)
  BY <1>9 DEF ReadAgain
<1>10. CASE Move(p)
  BY <1>10 DEF Move
<1>11. CASE Moved(p)
  BY <1>11 DEF Moved
<1>12. CASE Unlock(p)
  BY <1>12 DEF Unlock
<1>13. CASE Release(p)
  BY <1>13 DEF Release
<1>14. CASE Unlink(p)
  BY <1>14 DEF Unlink
<1>15. CASE Rmdir(p)
  BY <1>15 DEF Rmdir
<1>. QED
  BY <1>1, <1>2, <1>3, <1>4, <1>5, <1>6, <1>7, <1>8, <1>9, <1>10, <1>11,
     <1>12, <1>13, <1>14, <1>15 DEF Step, Call

(* A living caller steps, and keeps the types.                             *)
LEMMA StepTypes ==
    ASSUME Types, NEW p \in Callers, Step(p)
    PROVE  Types'
<1>0. Alone(p) /\ p \in alive
  BY StepAlone DEF Alone, Types, OnlyLiving
<1>1. TypeOK'
  <2>0. crowded' = crowded
    BY DEF Step
  <2> USE <2>0, ClaimAssumption
      DEF Types, TypeOK, Goto, Steps, Dirs, Tokens, Blank, AsideKnown
  <2>1. CASE Exists(p)
    BY <2>1 DEF Exists
  <2>2. CASE Rename(p)
    BY <2>2 DEF Rename
  <2>3. CASE Confirm(p)
    BY <2>3 DEF Confirm
  <2>4. CASE Published(p)
    BY <2>4 DEF Published
  <2>5. CASE Unpublished(p)
    BY <2>5 DEF Unpublished
  <2>6. CASE Look(p)
    BY <2>6 DEF Look
  <2>7. CASE Read(p)
    BY <2>7 DEF Read, Recorded
  <2>8. CASE LookAgain(p)
    BY <2>8 DEF LookAgain
  <2>9. CASE ReadAgain(p)
    BY <2>9 DEF ReadAgain
  <2>10. CASE Move(p)
    BY <2>10 DEF Move
  <2>11. CASE Moved(p)
    BY <2>11 DEF Moved
  <2>12. CASE Unlock(p)
    BY <2>12 DEF Unlock
  <2>13. CASE Release(p)
    BY <2>13 DEF Release
  <2>14. CASE Unlink(p)
    BY <2>14 DEF Unlink
  <2>15. CASE Rmdir(p)
    BY <2>15 DEF Rmdir
  <2>. QED
    BY <2>1, <2>2, <2>3, <2>4, <2>5, <2>6, <2>7, <2>8, <2>9, <2>10, <2>11,
       <2>12, <2>13, <2>14, <2>15 DEF Step, Call
<1>2. pc'[p] = "moved" => aside'[p] # "none"
  <2>1. SUFFICES ASSUME pc'[p] = "moved" PROVE aside'[p] # "none"
    OBVIOUS
  <2>2. Move(p)
    BY <2>1 DEF Types, TypeOK, Step, Call, Exists, Rename, Confirm, Published,
       Unpublished, Look, Read, LookAgain, ReadAgain, Moved, Unlock,
       Release, Unlink, Rmdir, Goto
  <2>3. disk[target[p]] \in Tokens \cup Blank
    BY DEF Types, TypeOK
  <2>. QED
    BY <2>1, <2>2, <2>3, ClaimAssumption DEF Move, Types, TypeOK, Goto, Blank
<1>3. AsideKnown'
  BY <1>0, <1>2 DEF AsideKnown, Alone, Types
<1>4. OnlyLiving'
  BY <1>0, <1>1 DEF OnlyLiving, Alone, Types, TypeOK
<1>. QED
  BY <1>1, <1>3, <1>4 DEF Types

LEMMA CrashTypes ==
    ASSUME Types, NEW p \in Callers, Crash(p)
    PROVE  Types'
<1>1. TypeOK'
  BY DEF Types, TypeOK, Crash, Goto, Steps
<1>2. AsideKnown'
  BY DEF Types, TypeOK, AsideKnown, Crash, Goto
<1>3. OnlyLiving'
  BY DEF Types, TypeOK, OnlyLiving, Crash, Goto
<1>. QED
  BY <1>1, <1>2, <1>3 DEF Types

LEMMA InitTypes == Init => Types
<1> SUFFICES ASSUME Init PROVE Types
  OBVIOUS
<1>1. disk \in [Dirs -> Tokens \cup Blank]
  BY DEF Init, Dirs, Tokens, Corpses, Blank
<1>2. TypeOK
  BY <1>1 DEF Init, TypeOK, Steps, Dirs
<1>. QED
  BY <1>2 DEF Init, Types, AsideKnown, OnlyLiving

LEMMA NextTypes == Types /\ [Next]_vars => Types'
<1>1. ASSUME Types, UNCHANGED vars PROVE Types'
  BY <1>1 DEF Types, TypeOK, AsideKnown, OnlyLiving, vars
<1>. QED
  BY <1>1, StepTypes, CrashTypes DEF Next

(* The directories hold a record, no record or nothing, and every caller   *)
(* keeps to the steps of the protocol: recovery-claim.ts, whatever the     *)
(* callers, the corpses and the crashes.                                   *)
THEOREM TypeCorrect == Spec => []TypeOK
<1>1. Types => TypeOK
  BY DEF Types
<1>. QED
  BY <1>1, InitTypes, NextTypes, PTL DEF Spec

-----------------------------------------------------------------------------
At(p, d, steps) == target[p] = d /\ pc[p] \in steps

(* The first phase: the corpse p has or has not seen is still there, and   *)
(* nobody has got past it.                                                 *)
BeforeMove(p) ==
    /\ seen[p]["claim"] \in {"none", disk["claim"]}
    /\ target[p] = "lock" => seen[p]["claim"] = disk["claim"]
    /\ target[p] = "claim" =>
          pc[p] \in {"idle", "exists", "unpublished", "look", "read", "move", "done"}
    /\ At(p, "claim", {"exists", "unpublished"}) => seen[p]["claim"] = "none"
    /\ At(p, "claim", {"move"}) => seen[p]["claim"] = disk["claim"]
    /\ pc[p] \notin {"unlock", "unlink", "rmdir", "working"}

Untouched == holds = {} /\ \A p \in Callers : BeforeMove(p)

(* Each step of the first phase, but the move of the corpse, leaves it.    *)
LEMMA UntouchedStep ==
    ASSUME Types, Untouched, disk["claim"] \in Corpses,
           NEW p \in Callers, Step(p), ~(Move(p) /\ target[p] = "claim")
    PROVE  Untouched' /\ disk'["claim"] = disk["claim"]
<1>0. Alone(p) /\ p \in alive
  BY StepAlone DEF Alone, Types, OnlyLiving
<1>. DEFINE c == disk["claim"]
<1>1. c \notin Blank /\ c \notin alive /\ c # "none"
  BY ClaimAssumption DEF Tokens, Types, TypeOK
<1>2. BeforeMove(p)
  BY DEF Untouched
<1>3. holds' = {} /\ disk'["claim"] = c /\ BeforeMove(p)'
  <2> USE <1>0, <1>1, <1>2 DEF Untouched, BeforeMove, At, Types, TypeOK, Goto, Dirs
  <2>1. CASE Exists(p)
    BY <2>1 DEF Exists, Blank
  <2>2. CASE Rename(p)
    BY <2>2 DEF Rename
  <2>3. CASE Confirm(p)
    BY <2>3 DEF Confirm
  <2>4. CASE Published(p)
    BY <2>4 DEF Published
  <2>5. CASE Unpublished(p)
    BY <2>5 DEF Unpublished
  <2>6. CASE Look(p)
    BY <2>6 DEF Look
  <2>7. CASE Read(p)
    BY <2>7 DEF Read, Recorded
  <2>8. CASE LookAgain(p)
    BY <2>8 DEF LookAgain, Abandoned, Recorded
  <2>9. CASE ReadAgain(p)
    BY <2>9 DEF ReadAgain
  <2>10. CASE Move(p)
    BY <2>10 DEF Move
  <2>11. CASE Moved(p)
    BY <2>11 DEF Moved
  <2>. QED
    BY <2>1, <2>2, <2>3, <2>4, <2>5, <2>6, <2>7, <2>8, <2>9, <2>10, <2>11
       DEF Step, Call, Unlock, Release, Unlink, Rmdir
<1>4. ASSUME NEW q \in Callers \ {p} PROVE BeforeMove(q)'
  BY <1>0, <1>3, <1>4 DEF Untouched, BeforeMove, At, Alone
<1>. QED
  BY <1>3, <1>4 DEF Untouched

-----------------------------------------------------------------------------
(* The lock was not abandoned: it is free or a living caller's, who alone  *)
(* goes on to the corpse, and nobody steals it.                            *)
UnderLock(p) ==
    \/ At(p, "lock", {"confirm", "published", "lookAgain", "readAgain"})
    \/ At(p, "claim", {"move"})

LockKept(p) ==
    /\ seen[p]["lock"] = "none"
    /\ UnderLock(p) => disk["lock"] = p
    /\ At(p, "lock", {"unpublished", "look"}) => disk["lock"] # "absent"
    /\ ~At(p, "lock", {"read", "move", "moved"})

LockInOrder ==
    /\ disk["lock"] \in {"absent"} \cup alive
    /\ \A p \in Callers : LockKept(p)

LEMMA LockStep ==
    ASSUME Types, Untouched, LockInOrder, disk["claim"] \in Corpses,
           NEW p \in Callers, Step(p), ~(Move(p) /\ target[p] = "claim")
    PROVE  LockInOrder'
<1>0. Alone(p) /\ p \in alive
  BY StepAlone DEF Alone, Types, OnlyLiving
<1>. DEFINE l == disk["lock"]
<1>1. \A q \in Callers : q \notin Blank /\ q # "none"
  BY ClaimAssumption DEF Tokens
<1>2. BeforeMove(p) /\ LockKept(p)
  BY DEF Untouched, LockInOrder
<1>3. /\ disk'["lock"] = l \/ (l = "absent" /\ disk'["lock"] = p)
      /\ LockKept(p)'
  <2> USE <1>0, <1>1, <1>2
      DEF LockInOrder, LockKept, UnderLock, At, BeforeMove, Types, TypeOK, Goto, Dirs, Blank
  <2>1. CASE Exists(p)
    BY <2>1 DEF Exists
  <2>2. CASE Rename(p)
    BY <2>2 DEF Rename, Recorded
  <2>3. CASE Confirm(p)
    BY <2>3 DEF Confirm
  <2>4. CASE Published(p)
    BY <2>4 DEF Published
  <2>5. CASE Unpublished(p)
    BY <2>5 DEF Unpublished
  <2>6. CASE Look(p)
    BY <2>6 DEF Look, Abandoned
  <2>7. CASE Read(p)
    BY <2>7 DEF Read
  <2>8. CASE LookAgain(p)
    BY <2>8 DEF LookAgain
  <2>9. CASE ReadAgain(p)
    BY <2>9 DEF ReadAgain
  <2>10. CASE Move(p)
    BY <2>10 DEF Move
  <2>11. CASE Moved(p)
    BY <2>11 DEF Moved
  <2>. QED
    BY <2>1, <2>2, <2>3, <2>4, <2>5, <2>6, <2>7, <2>8, <2>9, <2>10, <2>11
       DEF Step, Call, Unlock, Release, Unlink, Rmdir
<1>4. ASSUME NEW q \in Callers \ {p} PROVE LockKept(q)'
  BY <1>0, <1>1, <1>3, <1>4 DEF LockInOrder, LockKept, UnderLock, At, Alone, Blank
<1>. QED
  BY <1>0, <1>3, <1>4 DEF LockInOrder, Alone

-----------------------------------------------------------------------------
(* The second phase, with the lock in order.                               *)

(* p has been given the claim, or is about to be, or has yet to take its   *)
(* record away; and p has had it and left.                                 *)
Given(p) == p \in holds \/ At(p, "claim", {"confirm", "published", "unlink"})
Left(p) == p \notin holds /\ (pc[p] = "done" \/ At(p, "claim", {"rmdir"}))

(* A holder works, or is releasing the lock it stole the claim under.      *)
HolderSteps(p) ==
    p \in holds =>
        pc[p] \in {"working", "unlock"} \/ At(p, "lock", {"unlink", "rmdir"})

(* Who is recorded is who was given the claim.                             *)
Placed(p) ==
    /\ Given(p) <=> disk["claim"] = p
    /\ HolderSteps(p)
    /\ ~At(p, "claim", {"move"})
    /\ At(p, "claim", {"moved"}) =>
          aside[p] = seen[p]["claim"] /\ aside[p] \in Corpses

(* What p remembers of another caller's record is no way past it: that     *)
(* caller is gone by the time p compares.                                  *)
Knows(p, x) ==
    seen[p]["claim"] = x =>
        /\ Given(x) \/ Left(x)
        /\ pc[p] = "readAgain" => Left(x)

InOrder ==
    /\ disk["claim"] \in Blank \cup alive
    /\ \A p \in Callers : Placed(p) /\ \A x \in Callers : Knows(p, x)

(* What a step of p has to show for itself.                                *)
LEMMA InOrderKept ==
    ASSUME Types, InOrder, NEW p \in Callers, Alone(p),
           disk'["claim"] \in Blank \cup alive,
           \A q \in Callers \ {p} : disk'["claim"] = q <=> disk["claim"] = q,
           Placed(p)',
           Given(p) \/ Left(p) => Given(p)' \/ Left(p)',
           Left(p) => Left(p)',
           \A x \in Callers : Knows(p, x) => Knows(p, x)'
    PROVE  InOrder'
<1>1. ASSUME NEW q \in Callers \ {p} PROVE Placed(q)'
  BY <1>1 DEF InOrder, Placed, Given, HolderSteps, At, Alone
<1>2. ASSUME NEW q \in Callers \ {p}
      PROVE  (Given(q) => Given(q)') /\ (Left(q) => Left(q)')
  BY <1>2 DEF Given, Left, At, Alone
<1>3. ASSUME NEW q \in Callers \ {p}, NEW x \in Callers PROVE Knows(q, x)'
  <2>1. Knows(q, x)
    BY DEF InOrder
  <2>2. (Given(x) \/ Left(x) => Given(x)' \/ Left(x)') /\ (Left(x) => Left(x)')
    BY <1>2
  <2>3. pc'[q] = pc[q] /\ seen'[q] = seen[q]
    BY DEF Alone
  <2>. QED
    BY <2>1, <2>2, <2>3 DEF Knows
<1>4. ASSUME NEW x \in Callers PROVE Knows(p, x)'
  BY DEF InOrder
<1>5. alive' = alive
  BY DEF Alone
<1>. QED
  BY <1>1, <1>3, <1>4, <1>5 DEF InOrder

LEMMA InOrderStep ==
    ASSUME Types, InOrder, NEW p \in Callers, Step(p)
    PROVE  InOrder'
<1>0. Alone(p) /\ p \in alive
  BY StepAlone DEF Alone, Types, OnlyLiving
<1>1. /\ \A q \in Callers : q \notin Blank /\ q # "none"
      /\ "none" \notin Blank /\ alive \subseteq Callers
  BY ClaimAssumption DEF Tokens, Types, TypeOK, Blank
<1>2. Placed(p) /\ \A x \in Callers : Knows(p, x)
  BY DEF InOrder
<1>. DEFINE Own == /\ Placed(p)'
                   /\ Given(p) \/ Left(p) => Given(p)' \/ Left(p)'
                   /\ Left(p) => Left(p)'
            Same == disk'["claim"] = disk["claim"]
<1>3. ASSUME Own,
             disk'["claim"] \in Blank \cup alive,
             \A q \in Callers \ {p} : disk'["claim"] = q <=> disk["claim"] = q,
             seen'[p]["claim"] = seen[p]["claim"],
             pc'[p] # "readAgain"
      PROVE  InOrder'
  <2>1. ASSUME NEW x \in Callers, Knows(p, x) PROVE Knows(p, x)'
    <3>1. Given(x) \/ Left(x) => Given(x)' \/ Left(x)'
      BY <1>0, <1>3 DEF Given, Left, At, Alone
    <3>. QED
      BY <1>3, <2>1, <3>1 DEF Knows
  <2>. QED
    BY <1>0, <1>3, <2>1, InOrderKept
<1>4. disk["claim"] \in Blank \cup alive
  BY DEF InOrder
<1>. USE DEF Types, TypeOK, Goto, Dirs
<1>5. CASE Exists(p)
  <2>1. Own /\ Same /\ seen' = seen /\ pc'[p] # "readAgain"
    BY <1>2, <1>5 DEF Exists, Placed, Given, Left, HolderSteps, At
  <2>. QED
    BY <1>3, <1>4, <2>1
<1>6. CASE Rename(p)
  <2>1. Own /\ seen' = seen /\ pc'[p] # "readAgain"
    BY <1>1, <1>2, <1>6 DEF Rename, Recorded, Placed, Given, Left, HolderSteps, At
  <2>2. Same \/ (disk["claim"] \in Blank /\ disk'["claim"] = p)
    BY <1>6 DEF Rename, Recorded
  <2>. QED
    BY <1>0, <1>1, <1>3, <1>4, <2>1, <2>2
<1>7. CASE Confirm(p)
  <2>1. Own /\ Same /\ seen' = seen /\ pc'[p] # "readAgain"
    BY <1>2, <1>7 DEF Confirm, Placed, Given, Left, HolderSteps, At
  <2>. QED
    BY <1>3, <1>4, <2>1
<1>8. CASE Published(p)
  <2>1. Own /\ Same /\ seen' = seen /\ pc'[p] # "readAgain"
    BY <1>2, <1>8 DEF Published, Placed, Given, Left, HolderSteps, At
  <2>. QED
    BY <1>3, <1>4, <2>1
<1>9. CASE Unpublished(p)
  <2>1. Own /\ Same /\ seen' = seen /\ pc'[p] # "readAgain"
    BY <1>2, <1>9 DEF Unpublished, Placed, Given, Left, HolderSteps, At
  <2>. QED
    BY <1>3, <1>4, <2>1
<1>10. CASE Look(p)
  <2>1. Own /\ Same /\ seen' = seen /\ pc'[p] # "readAgain"
    BY <1>2, <1>10 DEF Look, Placed, Given, Left, HolderSteps, At
  <2>. QED
    BY <1>3, <1>4, <2>1
<1>11. CASE Read(p)
  <2>1. Own /\ Same /\ pc'[p] # "readAgain"
    BY <1>2, <1>11 DEF Read, Placed, Given, Left, HolderSteps, At
  <2>2. \/ seen'[p]["claim"] = seen[p]["claim"]
        \/ disk["claim"] \in alive /\ seen'[p]["claim"] = disk["claim"]
    BY <1>4, <1>11 DEF Read, Recorded
  <2>3. ASSUME disk["claim"] \in alive, seen'[p]["claim"] = disk["claim"],
               NEW x \in Callers
        PROVE  Knows(p, x)'
    <3>1. disk["claim"] = x => Given(x)'
      BY <1>0, <2>1 DEF InOrder, Placed, Given, At, Alone
    <3>. QED
      BY <2>1, <2>3, <3>1 DEF Knows
  <2>. QED
    BY <1>0, <1>3, <1>4, <2>1, <2>2, <2>3, InOrderKept
<1>12. CASE LookAgain(p)
  <2>1. Own /\ Same /\ seen' = seen
    BY <1>2, <1>12 DEF LookAgain, Placed, Given, Left, HolderSteps, At
  <2>2. pc'[p] = "readAgain" => disk["claim"] = "absent"
    BY <1>4, <1>12 DEF LookAgain, Abandoned, Recorded
  <2>3. ASSUME pc'[p] = "readAgain", NEW x \in Callers, Knows(p, x)
        PROVE  Knows(p, x)'
    <3>1. ~Given(x)
      BY <1>1, <2>2, <2>3 DEF InOrder, Placed, Blank
    <3>2. Left(x) => Left(x)'
      BY <1>0, <2>1 DEF Left, At, Alone
    <3>. QED
      BY <2>1, <2>3, <3>1, <3>2 DEF Knows
  <2>. QED
    BY <1>0, <1>3, <1>4, <2>1, <2>3, InOrderKept
<1>13. CASE ReadAgain(p)
  <2>1. disk["claim"] # seen[p]["claim"]
    <3>1. seen[p]["claim"] \notin Blank
      BY <1>1, ClaimAssumption DEF Blank
    <3>2. ASSUME NEW x \in alive, disk["claim"] = x, seen[p]["claim"] = x
          PROVE  FALSE
      <4>1. Given(x)
        BY <1>1, <3>2 DEF InOrder, Placed
      <4>2. Left(x)
        BY <1>1, <1>2, <1>13, <3>2 DEF Knows, ReadAgain
      <4>. QED
        BY <4>1, <4>2 DEF Given, Left, At
    <3>. QED
      BY <1>4, <3>1, <3>2
  <2>2. Own /\ Same /\ seen' = seen /\ pc'[p] # "readAgain"
    BY <1>2, <1>13, <2>1 DEF ReadAgain, Placed, Given, Left, HolderSteps, At
  <2>. QED
    BY <1>3, <1>4, <2>2
<1>14. CASE Move(p)
  <2>1. Own /\ Same /\ seen' = seen /\ pc'[p] # "readAgain"
    BY <1>2, <1>14 DEF Move, Placed, Given, Left, HolderSteps, At
  <2>. QED
    BY <1>3, <1>4, <2>1
<1>15. CASE Moved(p)
  <2>1. Own /\ Same /\ seen' = seen /\ pc'[p] # "readAgain"
    BY <1>2, <1>15 DEF Moved, Placed, Given, Left, HolderSteps, At
  <2>. QED
    BY <1>3, <1>4, <2>1
<1>16. CASE Unlock(p)
  <2>1. Own /\ Same /\ seen' = seen /\ pc'[p] # "readAgain"
    BY <1>2, <1>16 DEF Unlock, Placed, Given, Left, HolderSteps, At
  <2>. QED
    BY <1>3, <1>4, <2>1
<1>17. CASE Release(p)
  <2>1. Own /\ Same /\ seen' = seen /\ pc'[p] # "readAgain"
    BY <1>2, <1>17 DEF Release, Placed, Given, Left, HolderSteps, At
  <2>. QED
    BY <1>3, <1>4, <2>1
<1>18. CASE Unlink(p)
  <2>1. Own /\ seen' = seen /\ pc'[p] # "readAgain"
    BY <1>1, <1>2, <1>18 DEF Unlink, Placed, Given, Left, HolderSteps, At, Blank
  <2>2. Same \/ (disk["claim"] = p /\ disk'["claim"] = "empty")
    BY <1>2, <1>18 DEF Unlink, Placed, Given, At
  <2>. QED
    BY <1>1, <1>3, <1>4, <2>1, <2>2 DEF Blank
<1>19. CASE Rmdir(p)
  <2>1. Own /\ seen' = seen /\ pc'[p] # "readAgain"
    BY <1>1, <1>2, <1>19 DEF Rmdir, Placed, Given, Left, HolderSteps, At, Blank
  <2>2. Same \/ (disk["claim"] = "empty" /\ disk'["claim"] = "absent")
    BY <1>19 DEF Rmdir
  <2>. QED
    BY <1>1, <1>3, <1>4, <2>1, <2>2 DEF Blank
<1>. QED
  BY <1>5, <1>6, <1>7, <1>8, <1>9, <1>10, <1>11, <1>12, <1>13, <1>14, <1>15,
     <1>16, <1>17, <1>18, <1>19 DEF Step, Call

-----------------------------------------------------------------------------
(* Both phases, as long as nobody met an abandoned lock or died on disk.   *)
Peace ==
    IF disk["claim"] \in Corpses THEN Untouched /\ LockInOrder ELSE InOrder

LEMMA MoveInOrder ==
    ASSUME Types, Untouched, LockInOrder, disk["claim"] \in Corpses,
           NEW p \in Callers, Step(p), Move(p), target[p] = "claim"
    PROVE  InOrder' /\ disk'["claim"] = "absent"
<1>0. Alone(p)
  BY StepAlone
<1>1. \A q \in Callers : q \notin Blank /\ q # "none" /\ q \notin Corpses
  BY ClaimAssumption DEF Tokens
<1>2. disk["claim"] \notin Blank
  BY ClaimAssumption DEF Tokens
<1>3. /\ disk'["claim"] = "absent" /\ pc'[p] = "moved" /\ target'[p] = "claim"
      /\ aside'[p] = disk["claim"] /\ seen' = seen /\ holds' = {}
  BY <1>2 DEF Move, Goto, Types, TypeOK, Dirs, Untouched, Blank
<1>4. seen[p]["claim"] = disk["claim"]
  BY DEF Untouched, BeforeMove, At, Move
<1>5. ASSUME NEW q \in Callers, NEW x \in Callers PROVE Knows(q, x)'
  BY <1>1, <1>3, ClaimAssumption DEF Knows, Untouched, BeforeMove
<1>6. Placed(p)'
  BY <1>1, <1>3, <1>4 DEF Placed, Given, HolderSteps, At, Blank
<1>7. ASSUME NEW q \in Callers \ {p} PROVE Placed(q)'
  <2>1. BeforeMove(q) /\ LockKept(q) /\ LockKept(p)
    BY DEF Untouched, LockInOrder
  <2>2. ~At(q, "claim", {"move"})
    BY <2>1 DEF LockKept, UnderLock, At, Move
  <2>. QED
    BY <1>0, <1>1, <1>3, <2>1, <2>2
       DEF Placed, Given, HolderSteps, At, BeforeMove, Alone, Blank
<1>. QED
  BY <1>3, <1>5, <1>6, <1>7 DEF InOrder, Blank

LEMMA StepPeace ==
    ASSUME Types, Peace, NEW p \in Callers, Step(p)
    PROVE  Peace'
<1>1. \A q \in Callers : q \notin Corpses
  BY ClaimAssumption
<1>2. Blank \cap Corpses = {}
  BY ClaimAssumption DEF Tokens
<1>3. alive' \subseteq Callers
  BY StepTypes DEF Types, TypeOK
<1>4. CASE disk["claim"] \in Corpses /\ Move(p) /\ target[p] = "claim"
  BY <1>2, <1>4, MoveInOrder DEF Peace, Blank
<1>5. CASE disk["claim"] \in Corpses /\ ~(Move(p) /\ target[p] = "claim")
  BY <1>5, UntouchedStep, LockStep DEF Peace
<1>6. CASE disk["claim"] \notin Corpses
  <2>1. InOrder'
    BY <1>6, InOrderStep DEF Peace
  <2>. QED
    BY <1>1, <1>2, <1>3, <2>1 DEF Peace, InOrder
<1>. QED
  BY <1>4, <1>5, <1>6

(* Who dies with nothing on disk leaves nothing behind.                    *)
LEMMA CrashPeace ==
    ASSUME Types, Peace, NEW p \in Callers, Crash(p), ~Abandons(p)
    PROVE  Peace'
<1>1. /\ disk' = disk /\ target' = target /\ seen' = seen /\ aside' = aside
      /\ alive' = alive \ {p} /\ holds' = holds \ {p}
      /\ pc' = [pc EXCEPT ![p] = "done"] /\ pc'[p] = "done"
      /\ \A q \in Callers \ {p} : pc'[q] = pc[q]
      /\ disk["claim"] # p /\ disk["lock"] # p
  BY DEF Crash, Goto, Types, TypeOK, Abandons, Dirs
<1>2. CASE disk["claim"] \in Corpses
  <2>1. ASSUME NEW q \in Callers PROVE BeforeMove(q)' /\ LockKept(q)'
    <3>1. BeforeMove(q) /\ LockKept(q)
      BY <1>2 DEF Peace, Untouched, LockInOrder
    <3>. QED
      BY <1>1, <3>1 DEF BeforeMove, LockKept, UnderLock, At
  <2>. QED
    BY <1>1, <1>2, <2>1 DEF Peace, Untouched, LockInOrder
<1>3. CASE disk["claim"] \notin Corpses
  <2>1. ASSUME NEW q \in Callers
        PROVE  (Given(q) \/ Left(q) => Given(q)' \/ Left(q)') /\ (Left(q) => Left(q)')
    BY <1>1 DEF Given, Left, At
  <2>2. ASSUME NEW q \in Callers PROVE Placed(q)'
    <3>1. Placed(q)
      BY <1>3 DEF Peace, InOrder
    <3>. QED
      BY <1>1, <3>1 DEF Placed, Given, HolderSteps, At
  <2>3. ASSUME NEW q \in Callers, NEW x \in Callers PROVE Knows(q, x)'
    <3>1. Knows(q, x)
      BY <1>3 DEF Peace, InOrder
    <3>. QED
      BY <1>1, <2>1, <3>1 DEF Knows
  <2>. QED
    BY <1>1, <1>3, <2>2, <2>3 DEF Peace, InOrder
<1>. QED
  BY <1>2, <1>3

LEMMA InitUntouched == Init /\ disk["claim"] \in Corpses => Untouched
BY DEF Init, Untouched, BeforeMove, At, Dirs

LEMMA InitPeace == Init /\ disk["lock"] = "absent" => Peace
<1> SUFFICES ASSUME Init, disk["lock"] = "absent" PROVE Peace
  OBVIOUS
<1>1. \A q \in Callers : q # "none" /\ q # "absent"
  BY ClaimAssumption DEF Tokens, Blank
<1>2. CASE disk["claim"] \in Corpses
  BY <1>2, InitUntouched DEF Init, Peace, LockInOrder, LockKept, UnderLock, At, Dirs
<1>3. CASE disk["claim"] \notin Corpses
  <2>1. disk["claim"] = "absent"
    BY <1>3 DEF Init, Dirs, Corpses
  <2>2. ASSUME NEW q \in Callers PROVE Placed(q) /\ \A x \in Callers : Knows(q, x)
    BY <1>1, <2>1 DEF Init, Placed, Knows, Given, HolderSteps, At, Dirs
  <2>. QED
    BY <1>3, <2>1, <2>2 DEF Peace, InOrder, Blank
<1>. QED
  BY <1>2, <1>3

(* Nobody who died comes back.                                             *)
LEMMA DeadStay == Types /\ [Next]_vars /\ Dead # {} => Dead' # {}
<1> SUFFICES ASSUME Types, [Next]_vars, NEW q \in Dead PROVE q \in Dead'
  BY DEF Dead
<1>1. ASSUME NEW p \in Callers, Step(p) PROVE q \in Dead'
  BY <1>1, StepAlone DEF Alone, Dead, Types, OnlyLiving
<1>2. ASSUME NEW p \in Callers, Crash(p) PROVE q \in Dead'
  BY <1>2 DEF Crash, Dead, Types, TypeOK, Goto
<1>3. CASE UNCHANGED vars
  BY <1>3 DEF vars, Dead
<1>. QED
  BY <1>1, <1>2, <1>3 DEF Next

LEMMA CrashKills == ASSUME Types, NEW p \in Callers, Crash(p) PROVE Dead' # {}
<1>1. p \in Dead'
  BY DEF Crash, Dead, Types, TypeOK, Goto
<1>. QED
  BY <1>1

LEMMA StutterPeace == Peace /\ UNCHANGED vars => Peace'
<1> SUFFICES ASSUME Peace, UNCHANGED vars PROVE Peace'
  OBVIOUS
<1>1. Untouched => Untouched'
  BY DEF vars, Untouched, BeforeMove, At
<1>2. LockInOrder => LockInOrder'
  BY DEF vars, LockInOrder, LockKept, UnderLock, At
<1>3. \A p \in Callers : Placed(p)' <=> Placed(p)
  BY DEF vars, Placed, Given, HolderSteps, At
<1>4. \A p, x \in Callers : Knows(p, x)' <=> Knows(p, x)
  BY DEF vars, Knows, Given, Left, At
<1>5. InOrder => InOrder'
  BY <1>3, <1>4 DEF vars, InOrder
<1>. QED
  BY <1>1, <1>2, <1>5 DEF vars, Peace

LEMMA NextPeace ==
    Types /\ (Dead = {} => Peace) /\ [Next]_vars => (Dead = {} => Peace)'
<1> SUFFICES ASSUME Types, Dead = {} => Peace, [Next]_vars, Dead' = {}
             PROVE  Peace'
  OBVIOUS
<1>1. Peace
  BY DeadStay
<1>2. CASE UNCHANGED vars
  BY <1>1, <1>2, StutterPeace
<1>. QED
  BY <1>1, <1>2, StepPeace, CrashKills DEF Next

(* While nobody has died, and if the lock was not abandoned, the recorded  *)
(* owner of the claim is the caller that holds it: claimRecoveryLock and   *)
(* release in recovery-claim.ts, for any number of callers.                *)
THEOREM HolderIsOnDisk == Spec => HolderOnDisk
<1>1. Types /\ Peace => \A p \in holds : disk["claim"] = p
  <2> SUFFICES ASSUME Types, Peace, NEW p \in holds PROVE disk["claim"] = p
    OBVIOUS
  <2>1. p \in Callers /\ holds # {}
    BY DEF Types, TypeOK
  <2>2. Placed(p)
    BY <2>1 DEF Peace, Untouched, InOrder
  <2>. QED
    BY <2>2 DEF Placed, Given
<1>. QED
  BY <1>1, InitTypes, NextTypes, InitPeace, NextPeace, PTL DEF Spec, HolderOnDisk

-----------------------------------------------------------------------------
(* A lock or a claim was abandoned, but no more than two callers meet it.  *)
Two(S) == \A p, q, r \in S : p = q \/ q = r \/ p = r

(* p is past its one chance to take the claim: it has it, or has given up, *)
(* or is about to.                                                         *)
Over(p) ==
    \/ p \in holds
    \/ pc[p] \in {"unlock", "working", "unlink", "rmdir", "done"}
    \/ At(p, "claim", {"confirm", "published"})
    \/ At(p, "claim", {"unpublished"}) /\ seen[p]["claim"] # "none"

(* q has moved the record of p out of the way, and will put it back.       *)
Carries(q, p) == At(q, "claim", {"moved"}) /\ aside[q] = p

InPlace(p) ==
    \/ disk["claim"] = p
    \/ disk["claim"] = "absent" /\ \E q \in Callers : Carries(q, p)

(* Who moves the claim has seen a corpse, and so has everybody else.       *)
Moves(p) ==
    /\ At(p, "claim", {"move", "moved"}) =>
          seen[p]["claim"] \notin alive \cup {"none"}
    /\ At(p, "claim", {"moved"}) =>
          aside[p] \in {"empty", seen[p]["claim"]} \cup alive
    /\ At(p, "claim", {"move"}) => \A x \in alive : seen[x]["claim"] # "none"

(* p meets the record of x only when x is past its chance.                 *)
Meets(p, x) ==
    /\ seen[p]["claim"] = x =>
          Over(x) /\ (pc[p] = "readAgain" => disk["claim"] # x)
    /\ Carries(p, x) => Over(x) /\ seen[x]["claim"] # "none"

Contested ==
    /\ disk["claim"] \in Blank \cup alive
    /\ \A p \in Callers :
          /\ HolderSteps(p) /\ Moves(p)
          /\ disk["claim"] = p => Over(p)
          /\ Given(p) => InPlace(p)
    /\ \A p \in Callers, x \in alive : Meets(p, x)

(* What a step of p has to show for itself, and for those recorded.        *)
LEMMA ContestedKept ==
    ASSUME Types, Contested, NEW p \in Callers, Alone(p),
           disk'["claim"] \in Blank \cup alive,
           Over(p) => Over(p)',
           seen[p]["claim"] # "none" => seen'[p]["claim"] # "none",
           HolderSteps(p)', Moves(p)', \A x \in alive : Meets(p, x)',
           \A x \in Callers : Given(x)' => InPlace(x)',
           \A x \in Callers : disk'["claim"] = x =>
               \/ disk["claim"] = x
               \/ /\ Over(x)'
                  /\ \A q \in Callers : pc[q] = "readAgain" => seen[q]["claim"] # x
    PROVE  Contested'
<1>1. ASSUME NEW x \in Callers
      PROVE  /\ Over(x) => Over(x)'
             /\ seen[x]["claim"] # "none" => seen'[x]["claim"] # "none"
  BY DEF Over, At, Alone
<1>2. ASSUME NEW q \in Callers \ {p} PROVE HolderSteps(q)' /\ Moves(q)'
  <2>1. HolderSteps(q) /\ Moves(q)
    BY DEF Contested
  <2>2. HolderSteps(q)'
    BY <2>1 DEF HolderSteps, At, Alone
  <2>3. Moves(q)'
    BY <1>1, <2>1 DEF Moves, At, Alone, Types, TypeOK
  <2>. QED
    BY <2>2, <2>3
<1>3. ASSUME NEW x \in Callers, disk'["claim"] = x PROVE Over(x)'
  BY <1>1, <1>3 DEF Contested
<1>4. ASSUME NEW q \in Callers \ {p}, NEW x \in alive PROVE Meets(q, x)'
  <2>1. Meets(q, x)
    BY DEF Contested
  <2>2. /\ pc'[q] = pc[q] /\ target'[q] = target[q]
        /\ seen'[q] = seen[q] /\ aside'[q] = aside[q]
    BY DEF Alone
  <2>3. seen[q]["claim"] = x /\ pc[q] = "readAgain" => disk'["claim"] # x
    BY <2>1 DEF Meets, Types, TypeOK
  <2>4. x \in Callers
    BY DEF Types, TypeOK
  <2>. QED
    BY <1>1, <2>1, <2>2, <2>3, <2>4 DEF Meets, Carries, At
<1>5. alive' = alive
  BY DEF Alone
<1>. QED
  BY <1>2, <1>3, <1>4, <1>5 DEF Contested

(* The common case: the claim stays as it is.                              *)
LEMMA ContestedFrame ==
    ASSUME Types, Contested, NEW p \in Callers, Alone(p),
           disk'["claim"] = disk["claim"],
           Over(p) => Over(p)',
           HolderSteps(p)', ~At(p, "claim", {"move", "moved"})',
           ~At(p, "claim", {"moved"}),
           Given(p)' => Given(p) \/ disk["claim"] = p,
           \A x \in alive : seen'[p]["claim"] = x =>
               \/ seen[p]["claim"] = x /\ pc'[p] # "readAgain"
               \/ Over(x) /\ (pc'[p] = "readAgain" => disk["claim"] # x),
           seen[p]["claim"] # "none" => seen'[p]["claim"] # "none"
    PROVE  Contested'
<1>1. Moves(p)'
  BY DEF Moves, At
<1>2. ASSUME NEW x \in alive PROVE Meets(p, x)'
  <2>1. Over(x) => Over(x)'
    BY DEF Types, TypeOK, Over, At, Alone
  <2>2. seen[p]["claim"] = x => Over(x)
    BY DEF Contested, Meets
  <2>3. ~Carries(p, x)'
    BY DEF Carries, At
  <2>. QED
    BY <2>1, <2>2, <2>3 DEF Meets
<1>3. ASSUME NEW x \in Callers, Given(x)' PROVE InPlace(x)'
  <2>1. Given(x) \/ disk["claim"] = x
    BY <1>3 DEF Given, At, Alone
  <2>2. InPlace(x)
    BY <2>1 DEF Contested, InPlace
  <2>3. ASSUME NEW q \in Callers, Carries(q, x) PROVE Carries(q, x)'
    BY <2>3 DEF Carries, At, Alone
  <2>. QED
    BY <2>2, <2>3 DEF InPlace
<1>4. disk'["claim"] \in Blank \cup alive
  BY DEF Contested
<1>. QED
  BY <1>1, <1>2, <1>3, <1>4, ContestedKept

(* With two callers, a record moved by the one was not missed by a third.  *)
LEMMA NobodyBetween ==
    ASSUME Types, Contested, Two(alive), NEW p \in alive,
           NEW x \in Callers, Given(x), ~Given(p),
           NEW q \in Callers, Carries(q, x), p # q
    PROVE  FALSE
<1>1. HolderSteps(x) /\ p # x
  BY DEF Contested
<1>2. x # q
  BY <1>1 DEF HolderSteps, Given, Carries, At
<1>3. x \in alive
  BY DEF Types, OnlyLiving, Given, At
<1>4. q \in alive
  BY DEF Types, OnlyLiving, Carries, At
<1>. QED
  BY <1>1, <1>2, <1>3, <1>4 DEF Two

LEMMA ContestedStep ==
    ASSUME Types, Contested, Two(alive), NEW p \in Callers, Step(p)
    PROVE  Contested'
<1>0. Alone(p) /\ p \in alive
  BY StepAlone DEF Alone, Types, OnlyLiving
<1>1. /\ \A q \in Callers : q \notin Blank /\ q # "none" /\ q \notin Corpses
      /\ "none" \notin Blank /\ alive \subseteq Callers /\ Corpses \cap Blank = {}
      /\ "none" \notin Corpses
  BY ClaimAssumption DEF Tokens, Types, TypeOK, Blank
<1>2. /\ HolderSteps(p) /\ Moves(p)
      /\ disk["claim"] = p => Over(p)
      /\ Given(p) => InPlace(p)
      /\ \A x \in alive : Meets(p, x)
  BY DEF Contested
<1>4. disk["claim"] \in Blank \cup alive
  BY DEF Contested
<1>. DEFINE Plain == /\ disk'["claim"] = disk["claim"]
                     /\ Over(p) => Over(p)'
                     /\ HolderSteps(p)' /\ ~At(p, "claim", {"move", "moved"})'
                     /\ ~At(p, "claim", {"moved"})
                     /\ Given(p)' => Given(p) \/ disk["claim"] = p
            Kept == seen' = seen /\ pc'[p] # "readAgain"
<1>3. ASSUME Plain, Kept PROVE Contested'
  BY <1>0, <1>3, ContestedFrame
<1>. USE DEF Types, TypeOK, Goto, Dirs
<1>5. CASE Exists(p)
  BY <1>2, <1>3, <1>5 DEF Exists, Over, Given, HolderSteps, At
<1>6. CASE Rename(p)
  <2>1. CASE disk["claim"] = disk'["claim"]
    BY <1>1, <1>2, <1>3, <1>6, <2>1 DEF Rename, Recorded, Over, Given, HolderSteps, At
  <2>2. CASE disk["claim"] # disk'["claim"]
    <3>1. /\ disk["claim"] \in Blank /\ disk'["claim"] = p /\ target' = target
          /\ seen' = seen /\ aside' = aside /\ holds' = holds /\ alive' = alive
          /\ pc[p] = "rename" /\ pc'[p] = "confirm" /\ target[p] = "claim"
      BY <1>6, <2>2 DEF Rename, Recorded
    <3>2. ~Given(p) /\ ~Over(p)
      BY <1>2, <3>1 DEF Given, Over, HolderSteps, At
    <3>3. ASSUME NEW x \in Callers, Given(x)' PROVE InPlace(x)'
      <4>1. x # p => Given(x)
        BY <1>0, <3>1, <3>3 DEF Given, At, Alone
      <4>2. ~(x # p)
        <5>1. SUFFICES ASSUME x # p PROVE FALSE
          OBVIOUS
        <5>2. InPlace(x)
          BY <4>1, <5>1 DEF Contested
        <5>3. PICK q \in Callers : Carries(q, x)
          BY <1>1, <3>1, <5>2 DEF InPlace
        <5>4. p # q
          BY <3>1, <5>3 DEF Carries, At
        <5>. QED
          BY <1>0, <3>2, <4>1, <5>1, <5>3, <5>4, NobodyBetween
      <4>. QED
        BY <3>1, <4>2 DEF InPlace
    <3>4. Over(p)' /\ HolderSteps(p)' /\ Moves(p)'
      BY <1>2, <3>1, <3>2 DEF Over, HolderSteps, Moves, Given, At
    <3>5. ASSUME NEW q \in Callers PROVE seen[q]["claim"] # p
      BY <1>0, <3>2 DEF Contested, Meets
    <3>6. ASSUME NEW x \in alive PROVE Meets(p, x)'
      <4>1. Over(x) => Over(x)'
        BY <1>0, <3>4 DEF Over, At, Alone
      <4>. QED
        BY <1>2, <3>1, <4>1 DEF Meets, Carries, At
    <3>7. disk'["claim"] \in Blank \cup alive
      BY <1>0, <3>1
    <3>. QED
      BY <1>0, <3>1, <3>2, <3>3, <3>4, <3>5, <3>6, <3>7, ContestedKept
  <2>. QED
    BY <2>1, <2>2
<1>7. CASE Confirm(p)
  <2>1. disk["claim"] # p /\ Given(p) => seen[p]["claim"] # "none"
    BY <1>0, <1>2 DEF InPlace, Contested, Meets
  <2>. QED
    BY <1>2, <1>3, <1>7, <2>1 DEF Confirm, Over, Given, HolderSteps, At
<1>8. CASE Published(p)
  BY <1>2, <1>3, <1>8 DEF Published, Over, Given, HolderSteps, At
<1>9. CASE Unpublished(p)
  BY <1>2, <1>3, <1>9 DEF Unpublished, Over, Given, HolderSteps, At
<1>10. CASE Look(p)
  BY <1>2, <1>3, <1>10 DEF Look, Over, Given, HolderSteps, At
<1>11. CASE Read(p)
  <2>1. Plain /\ pc'[p] # "readAgain"
    BY <1>2, <1>11 DEF Read, Over, Given, HolderSteps, At
  <2>2. \/ seen'[p]["claim"] = seen[p]["claim"]
        \/ disk["claim"] \in alive /\ seen'[p]["claim"] = disk["claim"]
    BY <1>4, <1>11 DEF Read, Recorded
  <2>3. \A x \in Callers : disk["claim"] = x => Over(x)
    BY DEF Contested
  <2>. QED
    BY <1>0, <1>1, <2>1, <2>2, <2>3, ContestedFrame
<1>12. CASE LookAgain(p)
  <2>1. Plain /\ seen' = seen
    BY <1>2, <1>12 DEF LookAgain, Over, Given, HolderSteps, At
  <2>2. pc'[p] = "readAgain" => disk["claim"] = "absent"
    BY <1>4, <1>12 DEF LookAgain, Abandoned, Recorded
  <2>3. \A x \in alive : seen[p]["claim"] = x => Over(x)
    BY <1>2 DEF Meets
  <2>. QED
    BY <1>0, <1>1, <2>1, <2>2, <2>3, ContestedFrame DEF Blank
<1>13. CASE ReadAgain(p)
  <2>1. disk["claim"] # seen[p]["claim"]
    <3>1. seen[p]["claim"] \notin Blank
      BY <1>1, ClaimAssumption DEF Blank
    <3>. QED
      BY <1>1, <1>2, <1>4, <1>13, <3>1 DEF Meets, ReadAgain
  <2>. QED
    BY <1>2, <1>3, <1>13, <2>1 DEF ReadAgain, Over, Given, HolderSteps, At
<1>14. CASE Move(p)
  <2>1. CASE target[p] = "lock"
    BY <1>2, <1>3, <1>14, <2>1 DEF Move, Over, Given, HolderSteps, At
  <2>2. CASE target[p] = "claim" /\ disk["claim"] = "absent"
    <3>1. seen[p]["claim"] # "none"
      BY <1>1, <1>2, <1>14, <2>2 DEF Moves, At, Move
    <3>. QED
      BY <1>2, <1>3, <1>14, <2>2, <3>1 DEF Move, Over, Given, HolderSteps, At
  <2>3. CASE target[p] = "claim" /\ disk["claim"] # "absent"
    <3>1. /\ disk'["claim"] = "absent" /\ target' = target /\ seen' = seen
          /\ aside'[p] = disk["claim"] /\ holds' = holds /\ alive' = alive
          /\ pc[p] = "move" /\ pc'[p] = "moved" /\ target[p] = "claim"
      BY <1>14, <2>3 DEF Move
    <3>2. /\ seen[p]["claim"] \notin alive \cup {"none"}
          /\ \A x \in alive : seen[x]["claim"] # "none"
      BY <1>2, <3>1 DEF Moves, At
    <3>3. ~Given(p) /\ ~Over(p) /\ ~Given(p)' /\ HolderSteps(p)'
      BY <1>2, <3>1 DEF Given, Over, HolderSteps, At
    <3>4. ASSUME NEW x \in Callers, Given(x)' PROVE InPlace(x)'
      <4>1. Given(x)
        BY <1>0, <3>1, <3>3, <3>4 DEF Given, At, Alone
      <4>2. disk["claim"] = x
        BY <2>3, <4>1 DEF Contested, InPlace
      <4>3. Carries(p, x)'
        BY <3>1, <4>2 DEF Carries, At
      <4>. QED
        BY <3>1, <4>3 DEF InPlace
    <3>5. Moves(p)'
      BY <1>4, <2>3, <3>1, <3>2 DEF Moves, At, Blank
    <3>6. ASSUME NEW x \in alive PROVE Meets(p, x)'
      <4>1. Over(x) => Over(x)'
        BY <1>0, <3>3 DEF Over, At, Alone
      <4>2. disk["claim"] = x => Over(x) /\ x \in alive
        BY <1>1, <1>4 DEF Contested
      <4>. QED
        BY <1>1, <1>2, <3>1, <3>2, <4>1, <4>2 DEF Meets, Carries, At
    <3>. QED
      BY <1>0, <1>1, <3>1, <3>3, <3>4, <3>5, <3>6, ContestedKept DEF Blank
  <2>. QED
    BY <2>1, <2>2, <2>3
<1>15. CASE Moved(p)
  <2>1. CASE target[p] = "lock"
    BY <1>2, <1>3, <1>15, <2>1 DEF Moved, Over, Given, HolderSteps, At
  <2>2. CASE target[p] = "claim"
    <3>1. /\ target' = target /\ seen' = seen /\ aside'[p] = "none"
          /\ holds' = holds /\ alive' = alive /\ pc[p] = "moved"
          /\ pc'[p] \in {"exists", "unpublished"}
      BY <1>15 DEF Moved
    <3>2. /\ seen[p]["claim"] \notin alive
          /\ aside[p] \in {"empty", seen[p]["claim"]} \cup alive
      BY <1>2, <2>2, <3>1 DEF Moves, At
    <3>3. /\ ~Given(p) /\ ~Over(p) /\ ~Given(p)' /\ HolderSteps(p)' /\ Moves(p)'
      BY <1>2, <2>2, <3>1 DEF Given, Over, HolderSteps, Moves, At
    <3>4. ASSUME NEW x \in Callers, Given(x)' PROVE Given(x) /\ InPlace(x)
      <4>1. Given(x)
        BY <1>0, <3>1, <3>3, <3>4 DEF Given, At, Alone
      <4>. QED
        BY <4>1 DEF Contested
    <3>5. ASSUME NEW x \in alive PROVE Meets(p, x)'
      <4>1. Over(x) => Over(x)'
        BY <1>0, <3>3 DEF Over, At, Alone
      <4>. QED
        BY <1>1, <1>2, <3>1, <4>1 DEF Meets, Carries, At
    <3>6. CASE disk'["claim"] = disk["claim"] /\ (Recorded("claim") \/ aside[p] \notin alive)
      <4>1. ASSUME NEW x \in Callers, Given(x)' PROVE InPlace(x)'
        <5>1. x \in alive
          BY <3>4, <4>1 DEF Given, At, OnlyLiving
        <5>2. ASSUME NEW q \in Callers, Carries(q, x), ~Recorded("claim")
              PROVE  Carries(q, x)'
          BY <1>0, <3>6, <5>1, <5>2 DEF Carries, At, Alone
        <5>. QED
          BY <1>1, <3>4, <3>6, <4>1, <5>2 DEF InPlace, Recorded, Blank
      <4>. QED
        BY <1>0, <1>4, <3>1, <3>3, <3>5, <3>6, <4>1, ContestedKept
    <3>7. CASE /\ disk["claim"] \in Blank /\ disk'["claim"] = aside[p]
               /\ aside[p] \in {"empty"} \cup alive
      <4>1. ASSUME NEW x \in Callers, Given(x)' PROVE InPlace(x)'
        <5>1. PICK q \in Callers : Carries(q, x)
          BY <1>1, <3>4, <3>7, <4>1 DEF InPlace
        <5>2. q = p
          BY <1>0, <3>3, <3>4, <4>1, <5>1, NobodyBetween
        <5>. QED
          BY <3>7, <5>1, <5>2 DEF InPlace, Carries
      <4>2. ASSUME NEW x \in Callers, disk'["claim"] = x
            PROVE  /\ Over(x)'
                   /\ \A q \in Callers : pc[q] = "readAgain" => seen[q]["claim"] # x
        <5>1. x \in alive /\ Carries(p, x)
          BY <1>1, <2>2, <3>1, <3>7, <4>2 DEF Carries, At, Blank
        <5>2. Over(x) /\ x # p
          BY <1>2, <3>3, <5>1 DEF Meets
        <5>3. Over(x)'
          BY <1>0, <5>2 DEF Over, At, Alone
        <5>4. ASSUME NEW q \in Callers, pc[q] = "readAgain", seen[q]["claim"] = x
              PROVE  FALSE
          <6>1. HolderSteps(q)
            BY DEF Contested
          <6>2. q # x
            BY <5>2, <5>4, <6>1 DEF Over, HolderSteps, At
          <6>3. q # p /\ q \in alive
            BY <3>1, <5>4 DEF OnlyLiving
          <6>. QED
            BY <1>0, <5>1, <5>2, <6>2, <6>3 DEF Two
        <5>. QED
          BY <5>3, <5>4
      <4>3. disk'["claim"] \in Blank \cup alive
        BY <3>7 DEF Blank
      <4>. QED
        BY <1>0, <3>1, <3>3, <3>5, <4>1, <4>2, <4>3, ContestedKept
    <3>. QED
      BY <1>15, <2>2, <3>2, <3>6, <3>7 DEF Moved, Recorded
  <2>. QED
    BY <2>1, <2>2
<1>16. CASE Unlock(p)
  BY <1>2, <1>3, <1>16 DEF Unlock, Over, Given, HolderSteps, At
<1>17. CASE Release(p)
  BY <1>2, <1>3, <1>17 DEF Release, Over, Given, HolderSteps, At
<1>18. CASE Unlink(p)
  <2>1. CASE disk'["claim"] = disk["claim"]
    BY <1>2, <1>3, <1>18, <2>1 DEF Unlink, Over, Given, HolderSteps, At
  <2>2. CASE disk'["claim"] # disk["claim"]
    <3>1. /\ target[p] = "claim" /\ disk'["claim"] = "empty" /\ disk["claim"] # "absent"
          /\ pc[p] = "unlink" /\ pc'[p] = "rmdir" /\ holds' = holds
          /\ target' = target /\ seen' = seen /\ aside' = aside
      BY <1>18, <2>2 DEF Unlink
    <3>2. disk["claim"] = p
      BY <1>2, <3>1 DEF Given, InPlace, At
    <3>3. ASSUME NEW x \in Callers PROVE ~Given(x)'
      <4>1. x # p => ~Given(x)
        BY <1>1, <3>2 DEF Contested, InPlace, Blank
      <4>. QED
        BY <1>0, <1>2, <3>1, <4>1 DEF Given, HolderSteps, At, Alone
    <3>4. Over(p)' /\ HolderSteps(p)' /\ Moves(p)'
      BY <1>2, <3>1 DEF Over, HolderSteps, Moves, At
    <3>5. ASSUME NEW x \in alive PROVE Meets(p, x)'
      <4>1. Over(x) => Over(x)'
        BY <1>0, <3>4 DEF Over, At, Alone
      <4>. QED
        BY <1>2, <3>1, <4>1 DEF Meets, Carries, At
    <3>. QED
      BY <1>0, <1>1, <3>1, <3>3, <3>4, <3>5, ContestedKept DEF Blank
  <2>. QED
    BY <2>1, <2>2
<1>19. CASE Rmdir(p)
  <2>1. CASE disk'["claim"] = disk["claim"]
    BY <1>2, <1>3, <1>19, <2>1 DEF Rmdir, Over, Given, HolderSteps, At
  <2>2. CASE disk'["claim"] # disk["claim"]
    <3>1. /\ target[p] = "claim" /\ disk'["claim"] = "absent" /\ disk["claim"] = "empty"
          /\ pc[p] = "rmdir" /\ pc'[p] \in {"working", "done"} /\ holds' = holds
          /\ target' = target /\ seen' = seen /\ aside' = aside
      BY <1>19, <2>2 DEF Rmdir
    <3>2. ASSUME NEW x \in Callers PROVE ~Given(x)'
      <4>1. ~Given(x)
        BY <1>1, <3>1 DEF Contested, InPlace, Blank
      <4>. QED
        BY <1>0, <3>1, <4>1 DEF Given, At, Alone
    <3>3. Over(p)' /\ HolderSteps(p)' /\ Moves(p)'
      BY <1>2, <3>1 DEF Over, HolderSteps, Moves, At
    <3>4. ASSUME NEW x \in alive PROVE Meets(p, x)'
      <4>1. Over(x) => Over(x)'
        BY <1>0, <3>3 DEF Over, At, Alone
      <4>. QED
        BY <1>1, <1>2, <3>1, <4>1 DEF Meets, Carries, At, Blank
    <3>. QED
      BY <1>0, <1>1, <3>1, <3>2, <3>3, <3>4, ContestedKept DEF Blank
  <2>. QED
    BY <2>1, <2>2
<1>. QED
  BY <1>5, <1>6, <1>7, <1>8, <1>9, <1>10, <1>11, <1>12, <1>13, <1>14, <1>15,
     <1>16, <1>17, <1>18, <1>19 DEF Step, Call

-----------------------------------------------------------------------------
(* Both phases, for at most two callers.  In the first, nobody has or can  *)
(* get the claim, and who has moved a corpse will find another in its      *)
(* place.                                                                  *)
Barred(p) ==
    /\ ~Given(p)
    /\ At(p, "claim", {"move"}) => seen[p]["claim"] = disk["claim"]
    /\ At(p, "claim", {"moved"}) =>
          aside[p] = seen[p]["claim"] /\ aside[p] \notin alive
    /\ \A x \in alive : seen[p]["claim"] = x => Over(x)

ClaimDead == Recorded("claim") /\ disk["claim"] \notin alive

Few == IF ClaimDead THEN \A p \in Callers : Barred(p) ELSE Contested

LEMMA BarredStep ==
    ASSUME Types, ClaimDead, \A q \in Callers : Barred(q),
           NEW p \in Callers, Step(p), ~(Move(p) /\ target[p] = "claim")
    PROVE  (\A q \in Callers : Barred(q)') /\ disk'["claim"] = disk["claim"]
<1>0. Alone(p) /\ p \in alive
  BY StepAlone DEF Alone, Types, OnlyLiving
<1>1. disk["claim"] \notin Blank /\ disk["claim"] \notin alive
  BY DEF ClaimDead, Recorded
<1>2. Barred(p)
  OBVIOUS
<1>. DEFINE Mine == /\ disk'["claim"] = disk["claim"] /\ ~Given(p)'
                    /\ At(p, "claim", {"move"})' => seen'[p]["claim"] = disk["claim"]
                    /\ ~At(p, "claim", {"moved"})'
                    /\ \/ seen'[p]["claim"] = seen[p]["claim"]
                       \/ seen'[p]["claim"] = disk["claim"]
                    /\ Over(p) => Over(p)'
<1>3. Mine
  <2> USE <1>0, <1>1, <1>2 DEF Barred, Given, Over, At, Types, TypeOK, Goto, Dirs
  <2>1. CASE Exists(p)
    BY <2>1 DEF Exists
  <2>2. CASE Rename(p)
    BY <2>2 DEF Rename, Recorded
  <2>3. CASE Confirm(p)
    BY <2>3 DEF Confirm
  <2>4. CASE Published(p)
    BY <2>4 DEF Published
  <2>5. CASE Unpublished(p)
    BY <2>5 DEF Unpublished
  <2>6. CASE Look(p)
    BY <2>6 DEF Look
  <2>7. CASE Read(p)
    BY <2>7 DEF Read, Recorded
  <2>8. CASE LookAgain(p)
    BY <2>8 DEF LookAgain
  <2>9. CASE ReadAgain(p)
    BY <2>9 DEF ReadAgain
  <2>10. CASE Move(p)
    BY <2>10 DEF Move
  <2>11. CASE Moved(p)
    BY <2>11 DEF Moved, Recorded
  <2>12. CASE Unlock(p)
    BY <2>12 DEF Unlock
  <2>13. CASE Release(p)
    BY <2>13 DEF Release
  <2>14. CASE Unlink(p)
    BY <2>14 DEF Unlink
  <2>15. CASE Rmdir(p)
    BY <2>15 DEF Rmdir, Blank
  <2>. QED
    BY <2>1, <2>2, <2>3, <2>4, <2>5, <2>6, <2>7, <2>8, <2>9, <2>10, <2>11,
       <2>12, <2>13, <2>14, <2>15 DEF Step, Call
<1>4. ASSUME NEW x \in alive, Over(x) PROVE Over(x)'
  BY <1>0, <1>3, <1>4 DEF Over, At, Alone, Types, TypeOK
<1>5. alive' = alive
  BY <1>0 DEF Alone
<1>6. Barred(p)'
  <2>1. ASSUME NEW x \in alive, seen'[p]["claim"] = x PROVE Over(x)'
    BY <1>1, <1>2, <1>3, <1>4, <2>1 DEF Barred
  <2>. QED
    BY <1>3, <1>5, <2>1 DEF Barred, At
<1>7. ASSUME NEW q \in Callers \ {p} PROVE Barred(q)'
  <2>1. Barred(q)
    OBVIOUS
  <2>2. /\ pc'[q] = pc[q] /\ target'[q] = target[q] /\ seen'[q] = seen[q]
        /\ aside'[q] = aside[q] /\ (q \in holds' <=> q \in holds)
    BY <1>0 DEF Alone
  <2>. QED
    BY <1>3, <1>4, <1>5, <2>1, <2>2 DEF Barred, Given, At
<1>. QED
  BY <1>3, <1>6, <1>7

LEMMA MoveContested ==
    ASSUME Types, ClaimDead, \A q \in Callers : Barred(q), Two(alive),
           NEW p \in Callers, Step(p), Move(p), target[p] = "claim"
    PROVE  Contested' /\ disk'["claim"] = "absent"
<1>0. Alone(p) /\ p \in alive
  BY StepAlone DEF Alone, Types, OnlyLiving
<1>1. \A q \in Callers : q \notin Blank /\ q # "none"
  BY ClaimAssumption DEF Tokens
<1>2. /\ disk["claim"] \notin Blank /\ disk["claim"] # "none"
      /\ disk["claim"] \notin alive
  BY ClaimAssumption DEF Tokens, ClaimDead, Recorded, Types, TypeOK, Dirs
<1>3. /\ disk'["claim"] = "absent" /\ pc'[p] = "moved" /\ target' = target
      /\ aside'[p] = disk["claim"] /\ seen' = seen /\ holds' = holds /\ alive' = alive
  BY <1>2 DEF Move, Goto, Types, TypeOK, Dirs, Blank
<1>4. seen[p]["claim"] = disk["claim"]
  BY DEF Barred, At, Move
<1>5. ASSUME NEW q \in Callers PROVE HolderSteps(q)' /\ ~Given(q)' /\ Moves(q)'
  <2>1. Barred(q)
    OBVIOUS
  <2>2. HolderSteps(q)' /\ ~Given(q)'
    BY <1>0, <1>3, <2>1 DEF Barred, HolderSteps, Given, At, Alone
  <2>3. ASSUME q = p PROVE Moves(q)'
    BY <1>2, <1>3, <1>4, <2>3 DEF Moves, At
  <2>4. ASSUME q # p PROVE Moves(q)'
    <3>1. /\ pc'[q] = pc[q] /\ aside'[q] = aside[q]
      BY <1>0, <2>4 DEF Alone
    <3>2. ASSUME At(q, "claim", {"moved"})' PROVE Moves(q)'
      <4>1. aside[q] = seen[q]["claim"] /\ aside[q] \notin alive /\ aside[q] # "none"
        BY <1>3, <2>1, <3>1, <3>2 DEF Barred, At, Types, AsideKnown
      <4>. QED
        BY <1>3, <3>1, <3>2, <4>1 DEF Moves, At
    <3>3. ASSUME At(q, "claim", {"move"})' PROVE Moves(q)'
      <4>1. pc[q] = "move" /\ seen[q]["claim"] = disk["claim"]
        BY <1>3, <2>1, <3>1, <3>3 DEF Barred, At
      <4>2. q \in alive
        BY <4>1 DEF Types, OnlyLiving
      <4>3. \A x \in alive : x = p \/ x = q
        BY <1>0, <2>4, <4>2 DEF Two
      <4>. QED
        BY <1>2, <1>3, <1>4, <3>1, <4>1, <4>3 DEF Moves, At
    <3>. QED
      BY <3>2, <3>3 DEF Moves, At
  <2>. QED
    BY <2>2, <2>3, <2>4
<1>6. ASSUME NEW q \in Callers, NEW x \in alive PROVE Meets(q, x)'
  <2>1. Barred(q) /\ x \in Callers
    BY DEF Types, TypeOK
  <2>2. seen[q]["claim"] = x => Over(x)'
    <3>1. Over(x) => Over(x)'
      BY <1>0, <1>3, <2>1 DEF Over, At, Alone, Move
    <3>. QED
      BY <2>1, <3>1 DEF Barred
  <2>3. ~Carries(q, x)'
    BY <1>0, <1>2, <1>3, <2>1 DEF Barred, Carries, At, Alone
  <2>. QED
    BY <1>1, <1>3, <2>1, <2>2, <2>3 DEF Meets, Blank
<1>7. \A q \in Callers : disk'["claim"] # q
  BY <1>1, <1>3 DEF Blank
<1>. QED
  BY <1>3, <1>5, <1>6, <1>7 DEF Contested, Blank

LEMMA StepFew ==
    ASSUME Types, Few, Two(alive), NEW p \in Callers, Step(p)
    PROVE  Few'
<1>1. alive' = alive
  BY StepAlone DEF Alone
<1>2. CASE ClaimDead /\ Move(p) /\ target[p] = "claim"
  BY <1>2, MoveContested DEF Few, ClaimDead, Recorded, Blank
<1>3. CASE ClaimDead /\ ~(Move(p) /\ target[p] = "claim")
  BY <1>1, <1>3, BarredStep DEF Few, ClaimDead, Recorded
<1>4. CASE ~ClaimDead
  <2>1. Contested'
    BY <1>4, ContestedStep DEF Few
  <2>2. ~ClaimDead'
    BY <2>1 DEF ClaimDead, Recorded, Contested
  <2>. QED
    BY <2>1, <2>2 DEF Few
<1>. QED
  BY <1>2, <1>3, <1>4

(* Who dies on disk leaves at most two: the corpse may be the claim's, the *)
(* lock's or both, and the survivors may be anywhere.                      *)
LEMMA CrashFew ==
    ASSUME Types, Peace, NEW p \in Callers, Crash(p)
    PROVE  Few'
<1>1. /\ disk' = disk /\ target' = target /\ seen' = seen /\ aside' = aside
      /\ alive' = alive \ {p} /\ holds' = holds \ {p}
      /\ pc' = [pc EXCEPT ![p] = "done"] /\ pc'[p] = "done"
      /\ \A q \in Callers \ {p} : pc'[q] = pc[q]
  BY DEF Crash, Goto, Types, TypeOK
<1>2. /\ \A q \in Callers : q \notin Blank /\ q # "none" /\ q \notin Corpses
      /\ Blank \cap Corpses = {} /\ alive \subseteq Callers
  BY ClaimAssumption DEF Tokens, Types, TypeOK
<1>3. CASE disk["claim"] \in Corpses
  <2>1. ASSUME NEW q \in Callers PROVE Barred(q)'
    <3>1. BeforeMove(q) /\ holds = {}
      BY <1>3 DEF Peace, Untouched
    <3>2. ~Given(q)' /\ ~At(q, "claim", {"moved"})'
      BY <1>1, <3>1 DEF BeforeMove, Given, At
    <3>3. \A x \in alive' : seen'[q]["claim"] # x
      BY <1>1, <1>2, <1>3, <3>1 DEF BeforeMove
    <3>. QED
      BY <1>1, <3>1, <3>2, <3>3 DEF Barred, BeforeMove, At
  <2>2. ClaimDead'
    BY <1>1, <1>2, <1>3 DEF ClaimDead, Recorded
  <2>. QED
    BY <2>1, <2>2 DEF Few
<1>4. CASE disk["claim"] \notin Corpses
  <2>1. InOrder
    BY <1>4 DEF Peace
  <2>2. ASSUME NEW q \in Callers
        PROVE  /\ Given(q)' => Given(q) /\ disk["claim"] = q /\ q # p
               /\ Given(q) \/ Left(q) => Over(q)'
               /\ HolderSteps(q)'
               /\ ~At(q, "claim", {"move"})'
               /\ At(q, "claim", {"moved"})' =>
                     aside[q] = seen[q]["claim"] /\ aside[q] \in Corpses
    BY <1>1, <2>1 DEF InOrder, Placed, Given, Left, Over, HolderSteps, At
  <2>3. ASSUME NEW q \in Callers, NEW x \in alive', seen[q]["claim"] = x
        PROVE  Over(x)' /\ (pc'[q] = "readAgain" => disk["claim"] # x)
    <3>1. Knows(q, x) /\ Placed(x) /\ x \in Callers
      BY <1>1, <1>2, <2>1 DEF InOrder
    <3>2. ~(Given(x) /\ Left(x))
      BY DEF Given, Left, At
    <3>3. pc'[q] = "readAgain" => pc[q] = "readAgain"
      BY <1>1
    <3>. QED
      BY <2>2, <2>3, <3>1, <3>2, <3>3 DEF Knows, Placed
  <2>4. CASE disk["claim"] = p
    <3>1. ASSUME NEW q \in Callers PROVE Barred(q)'
      BY <1>1, <1>2, <2>2, <2>3, <2>4 DEF Barred
    <3>2. ClaimDead'
      BY <1>1, <1>2, <2>4 DEF ClaimDead, Recorded
    <3>. QED
      BY <3>1, <3>2 DEF Few
  <2>5. CASE disk["claim"] # p
    <3>1. disk["claim"] \in Blank \cup alive'
      BY <1>1, <2>1, <2>5 DEF InOrder
    <3>2. ASSUME NEW q \in Callers
          PROVE  /\ Moves(q)'
                 /\ disk["claim"] = q => Over(q)'
                 /\ Given(q)' => InPlace(q)'
      <4>1. disk["claim"] = q => Given(q)
        BY <2>1 DEF InOrder, Placed
      <4>2. Moves(q)'
        BY <1>1, <1>2, <2>2 DEF Moves, At, Types, AsideKnown
      <4>. QED
        BY <1>1, <2>2, <4>1, <4>2 DEF InPlace
    <3>3. ASSUME NEW q \in Callers, NEW x \in alive' PROVE Meets(q, x)'
      <4>1. ~Carries(q, x)'
        BY <1>1, <1>2, <2>2 DEF Carries, At
      <4>. QED
        BY <1>1, <2>3, <4>1 DEF Meets
    <3>4. Contested'
      BY <1>1, <2>2, <3>1, <3>2, <3>3 DEF Contested
    <3>5. ~ClaimDead'
      BY <1>1, <3>1 DEF ClaimDead, Recorded
    <3>. QED
      BY <3>4, <3>5 DEF Few
  <2>. QED
    BY <2>4, <2>5
<1>. QED
  BY <1>3, <1>4

LEMMA InitFew == Init => Few
<1> SUFFICES ASSUME Init PROVE Few
  OBVIOUS
<1>1. \A q \in Callers : q # "none" /\ q # "absent" /\ q \notin Corpses
  BY ClaimAssumption DEF Tokens, Blank
<1>2. disk["claim"] \in Corpses \cup {"absent"}
  BY DEF Init, Dirs, Corpses
<1>3. ASSUME NEW q \in Callers
      PROVE  /\ HolderSteps(q) /\ Moves(q) /\ ~Given(q) /\ Barred(q)
             /\ \A x \in Callers : Meets(q, x)
  BY <1>1 DEF Init, HolderSteps, Moves, Given, Meets, Carries, Barred, At, Dirs
<1>4. CASE ClaimDead
  BY <1>3, <1>4 DEF Few
<1>5. CASE ~ClaimDead
  <2>1. disk["claim"] = "absent"
    BY <1>2, <1>5, ClaimAssumption DEF ClaimDead, Recorded, Tokens, Init
  <2>. QED
    BY <1>1, <1>3, <1>5, <2>1 DEF Few, Contested, Blank, Init
<1>. QED
  BY <1>4, <1>5

LEMMA StutterFew == Few /\ UNCHANGED vars => Few'
<1> SUFFICES ASSUME Few, UNCHANGED vars PROVE Few'
  OBVIOUS
<1>1. \A p \in Callers : /\ HolderSteps(p)' <=> HolderSteps(p)
                        /\ Moves(p)' <=> Moves(p)
  BY DEF vars, HolderSteps, Moves, At
<1>2. \A p \in Callers : (Over(p)' <=> Over(p)) /\ (Given(p)' <=> Given(p))
  BY DEF vars, Over, Given, At
<1>3. \A x \in alive : Over(x)' <=> Over(x)
  BY DEF vars, Over, At
<1>4. \A p \in Callers : Barred(p)' <=> Barred(p)
  BY <1>2, <1>3 DEF vars, Barred, At
<1>5. \A p \in Callers : InPlace(p)' <=> InPlace(p)
  BY DEF vars, InPlace, Carries, At
<1>6. \A p \in Callers, x \in alive : Meets(p, x)' <=> Meets(p, x)
  BY <1>3 DEF vars, Meets, Carries, At
<1>7. Contested => Contested'
  BY <1>1, <1>2, <1>5, <1>6 DEF vars, Contested
<1>. QED
  BY <1>4, <1>7 DEF vars, Few, ClaimDead, Recorded

(* Of at most two callers, no three differ.                                *)
LEMMA AtMostTwo ==
    ASSUME NEW S \in SUBSET Callers, ~(Cardinality(S) > 2)
    PROVE  Two(S)
<1>1. SUFFICES ASSUME NEW p \in S, NEW q \in S, NEW r \in S,
                      p # q, q # r, p # r
               PROVE  FALSE
  BY DEF Two
<1>2. IsFiniteSet(S)
  BY ClaimAssumption, FS_Subset
<1>3. IsFiniteSet({p}) /\ Cardinality({p}) = 1
  BY FS_Singleton
<1>4. IsFiniteSet({p, q}) /\ Cardinality({p, q}) = 2
  <2>1. {p} \cup {q} = {p, q} /\ q \notin {p}
    BY <1>1
  <2>2. /\ IsFiniteSet({p} \cup {q})
        /\ Cardinality({p} \cup {q}) = Cardinality({p}) + 1
    BY <1>3, <2>1, FS_AddElement, Zenon
  <2>. QED
    BY <1>3, <2>1, <2>2
<1>5. IsFiniteSet({p, q, r}) /\ Cardinality({p, q, r}) = 3
  <2>1. {p, q} \cup {r} = {p, q, r} /\ r \notin {p, q}
    BY <1>1
  <2>2. /\ IsFiniteSet({p, q} \cup {r})
        /\ Cardinality({p, q} \cup {r}) = Cardinality({p, q}) + 1
    BY <1>4, <2>1, FS_AddElement, Zenon
  <2>. QED
    BY <1>4, <2>1, <2>2
<1>6. Cardinality({p, q, r}) <= Cardinality(S)
  BY <1>2, FS_Subset
<1>7. Cardinality(S) \in Nat
  BY <1>2, FS_CardinalityType
<1>. QED
  BY <1>5, <1>6, <1>7

-----------------------------------------------------------------------------
(* Nothing was left to more than one, the callers are at peace, or they are*)
(* two.                                                                    *)
Lone(S) == \A p, q \in S : p = q

Holding == Lone(alive) \/ Peace \/ (Two(alive) /\ Few)

LEMMA InitHolding == Init /\ ~crowded => Holding
<1> SUFFICES ASSUME Init, ~crowded PROVE Holding
  OBVIOUS
<1>1. CASE disk["lock"] = "absent"
  BY <1>1, InitPeace DEF Holding
<1>2. CASE disk["lock"] # "absent"
  <2>1. alive \subseteq Callers /\ ~(Cardinality(alive) > 2)
    BY <1>2 DEF Init, Dirs
  <2>. QED
    BY <2>1, InitFew, AtMostTwo DEF Holding
<1>. QED
  BY <1>1, <1>2

LEMMA NextHolding ==
    Types /\ (~crowded => Holding) /\ [Next]_vars => (~crowded => Holding)'
<1> SUFFICES ASSUME Types, ~crowded => Holding, [Next]_vars, ~crowded'
             PROVE  Holding'
  OBVIOUS
<1>1. CASE UNCHANGED vars
  BY <1>1, StutterPeace, StutterFew DEF vars, Holding, Lone, Two
<1>2. ASSUME NEW p \in Callers, Crash(p) PROVE Holding'
  <2>1. /\ alive \subseteq Callers /\ p \in alive /\ alive' = alive \ {p}
        /\ ~crowded /\ (Abandons(p) => ~(Cardinality(alive') > 2))
    BY <1>2 DEF Crash, Types, TypeOK
  <2>2. CASE Lone(alive) \/ (Two(alive) /\ Few)
    BY <2>1, <2>2 DEF Holding, Lone, Two
  <2>3. CASE Peace /\ ~Abandons(p)
    BY <1>2, <2>3, CrashPeace DEF Holding
  <2>4. CASE Peace /\ Abandons(p)
    <3>1. alive' \in SUBSET Callers
      BY <2>1
    <3>2. Two(alive')
      BY <2>1, <2>4, <3>1, AtMostTwo
    <3>3. Two(alive)'
      BY <3>2 DEF Two
    <3>. QED
      BY <1>2, <2>4, <3>3, CrashFew DEF Holding
  <2>. QED
    BY <2>1, <2>2, <2>3, <2>4 DEF Holding
<1>3. ASSUME NEW p \in Callers, Step(p) PROVE Holding'
  <2>1. alive' = alive /\ ~crowded
    BY <1>3, StepAlone DEF Alone, Step
  <2>2. (Lone(alive) => Lone(alive)') /\ (Two(alive) => Two(alive)')
    BY <2>1 DEF Lone, Two
  <2>. QED
    BY <1>3, <2>1, <2>2, StepPeace, StepFew DEF Holding
<1>. QED
  BY <1>1, <1>2, <1>3 DEF Next

LEMMA HoldingExcludes ==
    ASSUME Types, Holding
    PROVE  OneHolder
<1>. SUFFICES ASSUME NEW p \in holds, NEW q \in holds PROVE p = q
  BY DEF OneHolder
<1>1. p \in alive /\ q \in alive /\ p \in Callers /\ q \in Callers
  BY DEF Types, TypeOK, OnlyLiving
<1>2. CASE Lone(alive)
  BY <1>1, <1>2 DEF Lone
<1>3. CASE Peace
  <2>1. Placed(p) /\ Placed(q)
    BY <1>1, <1>3 DEF Peace, Untouched, InOrder
  <2>. QED
    BY <2>1 DEF Placed, Given
<1>4. CASE Two(alive) /\ Few
  <2>1. SUFFICES ASSUME p # q PROVE FALSE
    OBVIOUS
  <2>2. Contested
    BY <1>1, <1>4 DEF Few, Barred, Given
  <2>3. /\ Given(p) /\ Given(q) /\ HolderSteps(p) /\ HolderSteps(q)
        /\ InPlace(p) /\ InPlace(q)
    BY <1>1, <2>2 DEF Given, Contested
  <2>4. p \notin Blank /\ q \notin Blank
    BY <1>1, ClaimAssumption DEF Tokens
  <2>5. PICK r, s \in Callers : Carries(r, p) /\ Carries(s, q)
    BY <2>1, <2>3, <2>4 DEF InPlace, Blank
  <2>6. r \in alive /\ r # p /\ r # q
    BY <2>3, <2>5 DEF Carries, At, HolderSteps, Types, OnlyLiving
  <2>. QED
    BY <1>1, <1>4, <2>1, <2>6 DEF Two
<1>. QED
  BY <1>2, <1>3, <1>4 DEF Holding

LEMMA OneHolderUntilCrowded == Spec => [](Types /\ (~crowded => OneHolder))
<1>1. Types /\ (~crowded => Holding) => Types /\ (~crowded => OneHolder)
  BY HoldingExcludes
<1>2. Init => (~crowded => Holding)
  BY InitHolding
<1>. QED
  BY <1>1, <1>2, InitTypes, NextTypes, NextHolding, PTL DEF Spec

(* Whatever the callers and the crashes, no two living callers hold the    *)
(* claim of one mission before more than two of them have met a lock that  *)
(* a dead one left, or a claim that one of them died on: takeOver and      *)
(* publish in recovery-claim.ts.                                           *)
THEOREM AtMostOneHolder == Spec => [](~crowded => OneHolder)
BY OneHolderUntilCrowded, PTL

(* Every step takes a free claim, leaves it or does not touch it.          *)
LEMMA ExclusiveStep ==
    ASSUME Types, ~crowded => OneHolder, (~crowded => OneHolder)', [Next]_vars
    PROVE  [Exclusive!Next]_(IF crowded THEN {} ELSE holds)
<1>. DEFINE h == IF crowded THEN {} ELSE holds
<1>1. CASE UNCHANGED vars
  BY <1>1 DEF vars
<1>2. CASE crowded
  <2>1. crowded'
    BY <1>2 DEF Next, Step, Crash, vars
  <2>. QED
    BY <1>2, <2>1
<1>3. CASE ~crowded /\ crowded'
  <2>1. h = {} => h' = h
    BY <1>3
  <2>2. ASSUME NEW p \in holds PROVE Exclusive!Next
    <3>1. holds = {p} /\ p \in Callers
      BY <1>3, <2>2 DEF OneHolder, Types, TypeOK
    <3>. QED
      BY <1>3, <3>1 DEF Exclusive!Next, Exclusive!Leave
  <2>. QED
    BY <1>3, <2>1, <2>2
<1>4. CASE ~crowded /\ ~crowded'
  <2>1. ASSUME NEW p \in Callers, holds' = holds \cup {p}
        PROVE  Exclusive!Next \/ holds' = holds
    <3>1. CASE holds = {}
      BY <1>4, <2>1, <3>1 DEF Exclusive!Next, Exclusive!Take
    <3>2. CASE holds # {}
      BY <1>4, <2>1, <3>2 DEF OneHolder
    <3>. QED
      BY <3>1, <3>2
  <2>2. ASSUME NEW p \in Callers, holds' = holds \ {p}
        PROVE  Exclusive!Next \/ holds' = holds
    <3>1. CASE p \in holds
      <4>1. holds = {p}
        BY <1>4, <3>1 DEF OneHolder
      <4>. QED
        BY <1>4, <2>2, <4>1 DEF Exclusive!Next, Exclusive!Leave
    <3>2. CASE p \notin holds
      BY <2>2, <3>2
    <3>. QED
      BY <3>1, <3>2
  <2>3. ASSUME NEW p \in Callers, Step(p)
        PROVE  \/ holds' = holds
               \/ holds' = holds \cup {p}
               \/ holds' = holds \ {p}
    BY <2>3 DEF Step, Call, Exists, Rename, Confirm, Published, Unpublished, Look,
       Read, LookAgain, ReadAgain, Move, Moved, Unlock, Release, Unlink, Rmdir
  <2>4. ASSUME NEW p \in Callers, Crash(p) PROVE holds' = holds \ {p}
    BY <2>4 DEF Crash
  <2>5. Exclusive!Next \/ holds' = holds
    BY <2>1, <2>2, <2>3, <2>4 DEF Next, vars
  <2>. QED
    BY <1>4, <2>5
<1>. QED
  BY <1>2, <1>3, <1>4

(* The protocol of recovery-claim.ts, every file system call of it, does   *)
(* what its users rely on (lead-supervisor.ts, integrate.ts): the claim is *)
(* taken when it is free and passes from one holder to another only by     *)
(* being free in between, until more than two callers have met a lock that *)
(* a dead one left, or a claim that one of them died on.                   *)
THEOREM ImplementsClaim == Spec => ClaimSpec
<1>1. Init => Exclusive!Init
  BY DEF Init, Exclusive!Init
<1>2. Types /\ (~crowded => OneHolder) /\ (~crowded => OneHolder)' /\ [Next]_vars
      => [Exclusive!Next]_(IF crowded THEN {} ELSE holds)
  BY ExclusiveStep
<1>. QED
  BY <1>1, <1>2, OneHolderUntilCrowded, PTL DEF Spec, ClaimSpec, Exclusive!Spec
=============================================================================
