---------------------------- MODULE RecoveryClaim ----------------------------
(***************************************************************************)
(* The claim on one mission's recovery (and on one integration base): two  *)
(* directories in the temporary directory, the claim itself and the lock   *)
(* that serializes stealing it from a dead owner.  A directory appears with*)
(* its owner record inside, because a staging directory is renamed into    *)
(* place.  Each file system call is one action; a contender is one call of *)
(* claimRecoveryLock by one process and its token.                         *)
(*                                                                         *)
(* Source: src/src/adapters/filesystem/recovery-claim.ts.                  *)
(***************************************************************************)
EXTENDS Naturals, FiniteSets

CONSTANTS
    Callers,    \* the calls of claimRecoveryLock, each with its token
    DeadClaims, \* tokens of processes that may have died holding the claim,
    DeadLocks,  \* or the lock
    MaxCrashes  \* bound: how many callers die

Dirs == {"claim", "lock"}

(* What a directory path may show besides a record.                        *)
Blank == {"absent", "empty"}

Corpses == DeadClaims \cup DeadLocks
Tokens == Callers \cup Corpses

ASSUME ClaimAssumption ==
    /\ IsFiniteSet(Callers) /\ Callers \cap Corpses = {}
    /\ Tokens \cap (Blank \cup {"none"}) = {}
    /\ MaxCrashes \in Nat

VARIABLES
    disk,     \* what each directory holds: a token, nothing, or no record
    alive,    \* the processes that are alive
    pc,       \* per caller: its next file system call
    target,   \* per caller: the directory it publishes, moves or removes
    seen,     \* per caller: the token read in each directory, if any
    aside,    \* per caller: what it moved out of the way
    holds,    \* the callers that have been given the claim
    crowded   \* history: more than two callers have met what a dead one left

vars == <<disk, alive, pc, target, seen, aside, holds, crowded>>

Init ==
    /\ alive \in SUBSET Callers \ {{}}
    /\ pc = [p \in Callers |-> IF p \in alive THEN "exists" ELSE "idle"]
    /\ \E c \in DeadClaims \cup {"absent"}, l \in DeadLocks \cup {"absent"} :
          /\ crowded = (l # "absent" /\ Cardinality(alive) > 2)
          /\ disk = [d \in Dirs |-> IF d = "claim" THEN c ELSE l]
    /\ target = [p \in Callers |-> "claim"]
    /\ seen = [p \in Callers |-> [d \in Dirs |-> "none"]]
    /\ aside = [p \in Callers |-> "none"]
    /\ holds = {}

-----------------------------------------------------------------------------
Goto(p, step) == pc' = [pc EXCEPT ![p] = step]

Recorded(d) == disk[d] \notin Blank

(* Variant: no recorded owner passes for dead.                             *)
AbandonedNever(d) == disk[d] = "absent"

(* The owner is dead, or there is no directory; an unreadable directory is *)
(* nobody's corpse.                                                        *)
Abandoned(d) == disk[d] = "absent" \/ (Recorded(d) /\ disk[d] \notin alive)

(* publish: the path is free ...                                           *)
Exists(p) ==
    /\ pc[p] = "exists"
    /\ \/ disk[target[p]] = "absent" /\ Goto(p, "rename")
       \/ disk[target[p]] # "absent" /\ Goto(p, "unpublished")
    /\ UNCHANGED <<disk, alive, target, seen, aside, holds>>

(* ... the staging directory takes it, which an emptied directory does not *)
(* prevent ...                                                             *)
Rename(p) ==
    /\ pc[p] = "rename"
    /\ \/ /\ ~Recorded(target[p])
          /\ disk' = [disk EXCEPT ![target[p]] = p]
          /\ Goto(p, "confirm")
       \/ /\ Recorded(target[p])
          /\ Goto(p, "unpublished")
          /\ UNCHANGED disk
    /\ UNCHANGED <<alive, target, seen, aside, holds>>

(* ... and it is this caller's record that is found there.                 *)
Confirm(p) ==
    /\ pc[p] = "confirm"
    /\ IF disk[target[p]] = p THEN Goto(p, "published")
       ELSE Goto(p, "unpublished")
    /\ UNCHANGED <<disk, alive, target, seen, aside, holds>>

(* What a successful publish is good for: the claim is held, the lock      *)
(* allows a second look at the claim.  A claim that was stolen under the   *)
(* lock is returned only after the lock was released.                      *)
Published(p) ==
    /\ pc[p] = "published"
    /\ IF target[p] = "claim"
       THEN /\ holds' = holds \cup {p}
            /\ IF seen[p]["claim"] = "none" THEN Goto(p, "working")
               ELSE Goto(p, "unlock")
       ELSE Goto(p, "lookAgain") /\ UNCHANGED holds
    /\ UNCHANGED <<disk, alive, target, seen, aside>>

(* A failed publish: at the first attempt, look who owns the directory; in *)
(* a takeover, give up (and release the lock if it is held).               *)
Unpublished(p) ==
    /\ pc[p] = "unpublished"
    /\ IF seen[p][target[p]] = "none" THEN Goto(p, "look")
       ELSE IF target[p] = "claim" THEN Goto(p, "unlock") ELSE Goto(p, "done")
    /\ UNCHANGED <<disk, alive, target, seen, aside, holds>>

Look(p) ==
    /\ pc[p] = "look"
    /\ IF Abandoned(target[p]) THEN Goto(p, "read") ELSE Goto(p, "done")
    /\ UNCHANGED <<disk, alive, target, seen, aside, holds>>

(* The corpse is read a second time, for its token.  The claim's corpse    *)
(* calls for the lock; an abandoned lock is itself taken over.             *)
Read(p) ==
    LET d == target[p]
    IN /\ pc[p] = "read"
       /\ IF Recorded(d)
          THEN /\ seen' = [seen EXCEPT ![p][d] = disk[d]]
               /\ IF d = "claim"
                  THEN target' = [target EXCEPT ![p] = "lock"] /\ Goto(p, "exists")
                  ELSE Goto(p, "move") /\ UNCHANGED target
          ELSE Goto(p, "done") /\ UNCHANGED <<seen, target>>
       /\ UNCHANGED <<disk, alive, aside, holds>>

(* Variant: under the lock, the earlier look is relied on.                 *)
LookOnce(p) ==
    /\ pc[p] = "lookAgain"
    /\ Goto(p, "move")
    /\ target' = [target EXCEPT ![p] = "claim"]
    /\ UNCHANGED <<disk, alive, seen, aside, holds>>

(* Under the lock the claim is examined again ...                          *)
LookAgain(p) ==
    /\ pc[p] = "lookAgain"
    /\ IF Abandoned("claim") THEN Goto(p, "readAgain") ELSE Goto(p, "unlock")
    /\ UNCHANGED <<disk, alive, target, seen, aside, holds>>

(* ... and must still be the corpse that was seen without it.              *)
ReadAgain(p) ==
    /\ pc[p] = "readAgain"
    /\ IF disk["claim"] = seen[p]["claim"]
       THEN Goto(p, "move") /\ target' = [target EXCEPT ![p] = "claim"]
       ELSE Goto(p, "unlock") /\ UNCHANGED target
    /\ UNCHANGED <<disk, alive, seen, aside, holds>>

(* takeOver: whatever is there is moved out of the way ...                 *)
Move(p) ==
    LET d == target[p]
    IN /\ pc[p] = "move"
       /\ IF disk[d] = "absent"
          THEN Goto(p, "unpublished") /\ UNCHANGED <<disk, aside>>
          ELSE /\ aside' = [aside EXCEPT ![p] = disk[d]]
               /\ disk' = [disk EXCEPT ![d] = "absent"]
               /\ Goto(p, "moved")
       /\ UNCHANGED <<alive, target, seen, holds>>

(* Variant: what was moved is forgotten before it is put back.             *)
MovedForgetful(p) ==
    LET d == target[p]
    IN /\ pc[p] = "moved"
       /\ aside' = [aside EXCEPT ![p] = "none"]
       /\ IF aside[p] = seen[p][d]
          THEN Goto(p, "exists") /\ UNCHANGED disk
          ELSE /\ Goto(p, "unpublished")
               /\ disk' = [disk EXCEPT ![d] = aside'[p]]
       /\ UNCHANGED <<alive, target, seen, holds>>

(* Variant: what was moved is not compared with the corpse that was seen.  *)
MovedBlindly(p) ==
    /\ pc[p] = "moved"
    /\ aside' = [aside EXCEPT ![p] = "none"]
    /\ Goto(p, "exists")
    /\ UNCHANGED <<disk, alive, target, seen, holds>>

(* ... replaced if it is the corpse that was seen, and put back if not; a  *)
(* path taken in the meantime means it is thrown away.                     *)
Moved(p) ==
    LET d == target[p]
    IN /\ pc[p] = "moved"
       /\ aside' = [aside EXCEPT ![p] = "none"]
       /\ IF aside[p] = seen[p][d]
          THEN Goto(p, "exists") /\ UNCHANGED disk
          ELSE /\ Goto(p, "unpublished")
               /\ disk' = IF Recorded(d) THEN disk
                          ELSE [disk EXCEPT ![d] = aside[p]]
       /\ UNCHANGED <<alive, target, seen, holds>>

-----------------------------------------------------------------------------
(* Releasing: the record must be one's own, then the directory is removed, *)
(* its record first.                                                       *)

Unlock(p) ==
    /\ pc[p] = "unlock"
    /\ target' = [target EXCEPT ![p] = "lock"]
    /\ IF disk["lock"] = p THEN Goto(p, "unlink")
       ELSE IF p \in holds THEN Goto(p, "working") ELSE Goto(p, "done")
    /\ UNCHANGED <<disk, alive, seen, aside, holds>>

(* The work the claim was for is over; from here the caller no longer      *)
(* counts on it.                                                           *)
Release(p) ==
    /\ pc[p] = "working"
    /\ holds' = holds \ {p}
    /\ target' = [target EXCEPT ![p] = "claim"]
    /\ IF disk["claim"] = p THEN Goto(p, "unlink") ELSE Goto(p, "done")
    /\ UNCHANGED <<disk, alive, seen, aside>>

Unlink(p) ==
    /\ pc[p] = "unlink"
    /\ disk' = [disk EXCEPT ![target[p]] = IF @ = "absent" THEN @ ELSE "empty"]
    /\ Goto(p, "rmdir")
    /\ UNCHANGED <<alive, target, seen, aside, holds>>

Rmdir(p) ==
    /\ pc[p] = "rmdir"
    /\ disk' = [disk EXCEPT ![target[p]] = IF @ = "empty" THEN "absent" ELSE @]
    /\ IF p \in holds THEN Goto(p, "working") ELSE Goto(p, "done")
    /\ UNCHANGED <<alive, target, seen, aside, holds>>

Dead == {p \in Callers \ alive : pc[p] # "idle"}

(* A caller that dies abandons what it has published.                      *)
Abandons(p) == \E d \in Dirs : disk[d] = p

Crash(p) ==
    /\ p \in alive /\ Cardinality(Dead) < MaxCrashes
    /\ alive' = alive \ {p}
    /\ crowded' = (crowded \/ (Abandons(p) /\ Cardinality(alive') > 2))
    /\ holds' = holds \ {p}
    /\ Goto(p, "done")
    /\ UNCHANGED <<disk, target, seen, aside>>

-----------------------------------------------------------------------------
Call(p) ==
    \/ Exists(p) \/ Rename(p) \/ Confirm(p) \/ Published(p) \/ Unpublished(p)
    \/ Look(p) \/ Read(p) \/ LookAgain(p) \/ ReadAgain(p) \/ Move(p)
    \/ Moved(p) \/ Unlock(p) \/ Release(p) \/ Unlink(p) \/ Rmdir(p)

Step(p) == Call(p) /\ UNCHANGED crowded

Next == \E p \in Callers : Step(p) \/ Crash(p)

Spec == Init /\ [][Next]_vars
FairSpec == Spec /\ \A p \in Callers : WF_vars(Step(p))

-----------------------------------------------------------------------------
Steps == {"idle", "exists", "rename", "confirm", "published", "unpublished", "look",
          "read", "lookAgain", "readAgain", "move", "moved", "unlock",
          "working", "unlink", "rmdir", "done"}

(* The two directories hold a record, no record or nothing, and callers    *)
(* keep to the steps of the protocol.                                      *)
TypeOK ==
    /\ disk \in [Dirs -> Tokens \cup Blank]
    /\ alive \subseteq Callers
    /\ pc \in [Callers -> Steps]
    /\ target \in [Callers -> Dirs]
    /\ seen \in [Callers -> [Dirs -> Tokens \cup {"none"}]]
    /\ aside \in [Callers -> Tokens \cup {"none", "empty"}]
    /\ holds \subseteq Callers
    /\ crowded \in BOOLEAN

(* No two living runs hold the claim of one mission.                       *)
OneHolder == \A p, q \in holds : p = q

(* As long as nobody abandoned the lock, whoever holds the claim finds its *)
(* own record on disk.                                                     *)
HolderOnDisk ==
    disk["lock"] = "absent" => [](Dead = {} => \A p \in holds : disk["claim"] = p)

(* To the runs, all of this is one step that takes a free claim and one    *)
(* that leaves it: nobody gets the claim from a living holder, until more  *)
(* than two of them have met what a dead caller left.                      *)
Exclusive == INSTANCE ExclusiveClaim
                WITH Runs <- Callers, holders <- IF crowded THEN {} ELSE holds
ClaimSpec == Exclusive!Spec

(* A record of a living run on disk has a run that will remove it: it is   *)
(* holding, publishing or releasing that directory.                        *)
NoOrphanRecord ==
    \A d \in Dirs, p \in Callers :
        disk[d] = p /\ p \in alive => pc[p] # "done"

(* Of several runs after a claim that nobody living holds one gets it,     *)
(* unless one of them dies over it or the lock was abandoned before.       *)
SomeoneSucceeds == disk["lock"] = "absent" => <>(holds # {} \/ Dead # {})
=============================================================================
