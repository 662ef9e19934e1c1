---------------------------- MODULE Epics_proofs ----------------------------
(***************************************************************************)
(* Theorems about Epics: for any children and any number of sessions, no   *)
(* sibling's work gets to the base branch with a child's pull request, and *)
(* a child is cut from everything that was merged before.                  *)
(***************************************************************************)
EXTENDS Epics, TLAPS

-----------------------------------------------------------------------------
(* The inductive invariant *)

Started == pc \in {"claude", "push", "createPr", "log", "checkout", "cleanup"}
Locked == lock # NoLock

(* Nothing but c's own commits is in it that the base branch does not have. *)
Pure(commits, c) == \A x \in commits \ remote[Base] : x[1] = c

(* What git finds when it is asked to check out. *)
Checkouts ==
  /\ local[original] # {}
  /\ local[Base] = {Trunk} /\ Trunk \in remote[Base]
  /\ pc = "feature" \/ Started => local[effectiveTarget] # {}
  /\ Started => local[ticket] # {}
  /\ pc = "claude" => head = ticket
  /\ Locked => pc = "idle" /\ local[lock.key] # {} /\ local[lock.target] # {}

(* A run that is going to commit has a number for the commit. *)
Numbered ==
  pc \in {"children", "ensureEpic", "pushEpic", "feature", "claude"} => work < MaxWork

(* The entries a later run takes its target from, and the pull requests,   *)
(* are for targets the child was sent to.                                  *)
READ_BACK == {"PR_CREATED", "REWORK", "PUSHED", "PUSH_FAILED"}
OneTarget ==
  /\ \A c \in Child, b \in {Base, Epic} : <<c, b>> \in prs => b \in sentTo[c]
  /\ \A c \in Child :
       log[c].status \in READ_BACK => targetBranch(log[c].parent) \in sentTo[c]
  /\ pc = "createPr" => effectiveTarget \in sentTo[ticket]
  /\ isRework => pc # "idle" /\ ~skipEpicBranch
  /\ isRework => targetBranch(hasParent) \in sentTo[ticket]

(* What was never sent to the epic branch is the child's own: on the       *)
(* remote, in the run that is going to push it, and in the branch a resume *)
(* is going to push.                                                       *)
PureInRun ==
  Started /\ Epic \notin sentTo[ticket] /\ effectiveTarget = Base
    => Pure(local[ticket], ticket)
PureInLock ==
  Locked /\ Epic \notin sentTo[lock.key] /\ lock.target = Base
    => Pure(local[lock.key], lock.key)
PureOnRemote == \A c \in Child : Epic \notin sentTo[c] => Pure(remote[c], c)
Purity == PureOnRemote /\ PureInRun /\ PureInLock

(* The epic branch is as far as it was on the remote when the run began. *)
EpicAsMerged ==
  /\ pc # "idle" => epicAtStart \subseteq remote[Epic]
  /\ pc = "feature" /\ shouldBranchFromEpic => epicAtStart \subseteq local[Epic]
  /\ ChildHasMergedSiblings

IInv == TypeOK /\ Checkouts /\ Numbered /\ OneTarget /\ Purity /\ EpicAsMerged

-----------------------------------------------------------------------------
(* Names *)

LEMMA Branches ==
  /\ Base \in Branch /\ Epic \in Branch /\ Base # Epic
  /\ \A c \in Child : c \in Branch /\ c # Base /\ c # Epic /\ c # NoChild
  /\ \A c \in Child, k \in 1..MaxWork : <<c, k>> # Trunk
BY Names DEF Branch

LEMMA Targets == effectiveTarget \in {Base, Epic}
BY DEF effectiveTarget, targetBranch

LEMMA TicketIsChild == TypeOK /\ pc # "idle" => ticket \in Child
BY DEF TypeOK

LEMMA LockOfChild ==
  TypeOK /\ Locked => /\ lock.key \in Child /\ lock.parent \in BOOLEAN
                      /\ lock.target \in {Base, Epic}
BY DEF TypeOK, Locked, Lock

LEMMA LockTyped ==
  ASSUME NEW c \in Child, NEW parent \in BOOLEAN, NEW t \in {Base, Epic}
  PROVE  [key |-> c, parent |-> parent, target |-> t] \in Lock
BY DEF Lock

-----------------------------------------------------------------------------
(* Types *)

LEMMA NextTypeOK == IInv /\ [Next]_vars => TypeOK'
<1> SUFFICES ASSUME IInv, [Next]_vars PROVE TypeOK'
  OBVIOUS
<1> USE Branches, Targets, WorkBound
<1> USE DEF IInv, TypeOK, PC, ctx, git, board, logs, reviews, ghosts, run
<1>1. ASSUME NEW c \in Child, StartFresh(c) \/ StartRework(c) PROVE TypeOK'
  BY <1>1 DEF StartFresh, StartRework, Begin, Outcome
<1>2. ASSUME NEW c \in Child, RetryPr(c) \/ DeliverEpic(c) PROVE TypeOK'
  BY <1>2 DEF RetryPr, DeliverEpic, targetBranch, Status
<1>3. CASE checkSingleChild
  BY <1>3 DEF checkSingleChild, BranchSetupStep
<1>4. CASE EnsureByFetch \/ EnsureBase \/ PushEpic
  BY <1>4 DEF EnsureByFetch, EnsureBase, PushEpic, BranchSetupStep,
              Pushable, fetchRemoteBranch
<1>5. CASE EnsureFetchFails \/ EnsureLocalOnly \/ PushEpicFails
  BY <1>5 DEF EnsureFetchFails, EnsureLocalOnly, PushEpicFails, GiveUp, RunEnds, Checkouts, Outcome
<1>6. CASE CreateEpic
  BY <1>6 DEF CreateEpic, BranchSetupStep, Checkouts
<1>7. CASE FreshBranch \/ ReworkFetched \/ ReworkNotFetched
  BY <1>7, TicketIsChild
     DEF FreshBranch, ReworkFetched, ReworkNotFetched, BranchSetupStep, CutFeature,
         Fetchable, fetchRemoteBranch, Checkouts
<1>8. CASE Session
  BY <1>8, TicketIsChild DEF Session, BranchSetupStep, Commit, Numbered, Checkouts, Started
<1>9. CASE Push
  BY <1>9, TicketIsChild DEF Push, BranchSetupStep, Sent
<1>10. ASSUME NEW status \in Outcome, Delivered(status), pc # "idle",
             prs' \subseteq Child \X {Base, Epic}
      PROVE  TypeOK'
  BY <1>10 DEF Delivered
<1>11. CASE PushFails \/ PrCreated \/ PrNotCreated \/ PrFails
  BY <1>10, <1>11, TicketIsChild
     DEF PushFails, PrCreated, PrNotCreated, PrFails, prToOpen, Outcome
<1>18. CASE LogDelivery
  BY <1>18, TicketIsChild DEF LogDelivery, BranchSetupStep, Sent, parentKey, Outcome, Status
<1>19. CASE SafeCheckout
  <2>1. head' \in {head, effectiveTarget} /\ head' \in Branch
    BY <1>19 DEF SafeCheckout
  <2>2. local'[head'] # {} /\ local' = local
    BY <1>19, <2>1 DEF SafeCheckout
  <2>3. pc' \in {"log", "cleanup"} /\ pc = "checkout"
    BY <1>19 DEF SafeCheckout, BranchSetupStep
  <2> QED
    BY <1>19, <2>1, <2>2, <2>3 DEF SafeCheckout
<1>20. CASE Finish
  BY <1>20, TicketIsChild DEF Finish, RunEnds, Outcome
<1>23. CASE CrashEarly
  BY <1>23 DEF CrashEarly, RunEnds, Outcome
<1>12. CASE CrashLate
  <2>1. lock' \in Lock
    BY <1>12, TicketIsChild, LockTyped DEF CrashLate
  <2>2. RunEnds /\ UNCHANGED <<git, board, logs, reviews, work, sentTo>>
    BY <1>12 DEF CrashLate
  <2> QED
    BY <2>1, <2>2 DEF RunEnds, Outcome
<1>13. CASE ResumeFails
  <2>1. /\ lock.key \in Branch /\ local[lock.key] # {} /\ head' = lock.key /\ lock' = NoLock
        /\ UNCHANGED <<pc, ctx, local, remote, board, logs, reviews, work, ghosts>>
    BY <1>13, LockOfChild DEF ResumeFails, Locked, Checkouts
  <2> QED
    BY <2>1
<1>22. CASE NothingToResume
  BY <1>22 DEF NothingToResume
<1>21. CASE Resume
  <2>1. /\ lock.key \in Child /\ lock.parent \in BOOLEAN /\ lock.target \in {Base, Epic}
        /\ local[lock.target] # {}
    BY <1>21, LockOfChild DEF Resume, Locked, Checkouts
  <2>2. log' \in [Child -> [status : Status, parent : BOOLEAN]]
    BY <1>21, <2>1 DEF Resume, Status
  <2>3. sentTo' \in [Child -> SUBSET {Base, Epic}]
    BY <1>21, <2>1 DEF Resume, Sent
  <2>4. remote' \in [Branch -> SUBSET Commit]
    BY <1>21, <2>1 DEF Resume
  <2>5. head' = lock.target /\ lock' = NoLock
        /\ UNCHANGED <<pc, ctx, local, board, epicLog, reviews, work, epicAtStart>>
    BY <1>21 DEF Resume
  <2> QED
    BY <2>1, <2>2, <2>3, <2>4, <2>5
<1>14. ASSUME NEW c \in Child, AddChild(c) \/ RequestChanges(c) \/ MarkDone(c) PROVE TypeOK'
  BY <1>14 DEF AddChild, RequestChanges, MarkDone, Status
<1>15. ASSUME NEW c \in Child, NEW b \in {Base, Epic}, MergePr(c, b) PROVE TypeOK'
  BY <1>15 DEF MergePr
<1>16. CASE ReturnToBase
  BY <1>16 DEF ReturnToBase
<1>17. CASE UNCHANGED vars
  BY <1>17 DEF vars
<1> QED
  BY <1>1, <1>2, <1>3, <1>4, <1>5, <1>6, <1>7, <1>8, <1>9, <1>11, <1>12, <1>13, <1>14,
     <1>15, <1>16, <1>17, <1>18, <1>19, <1>20, <1>21, <1>22,
     <1>23 DEF Next, Setup, Deliver, World

-----------------------------------------------------------------------------
(* Git *)

LEMMA NextCheckouts == IInv /\ [Next]_vars => Checkouts'
<1> SUFFICES ASSUME IInv, [Next]_vars PROVE Checkouts'
  OBVIOUS
<1> USE Branches, Targets, TicketIsChild, LockOfChild
<1> USE DEF IInv, TypeOK, Checkouts, Started, Locked, effectiveTarget, targetBranch,
            ctx, run, git, BranchSetupStep
<1>1. ASSUME NEW c \in Child, StartFresh(c) \/ StartRework(c) PROVE Checkouts'
  BY <1>1 DEF StartFresh, StartRework, Begin
<1>2. ASSUME NEW c \in Child, RetryPr(c) \/ DeliverEpic(c) PROVE Checkouts'
  BY <1>2 DEF RetryPr, DeliverEpic
<1>3. CASE checkSingleChild
  BY <1>3 DEF checkSingleChild
<1>4. CASE EnsureBase
  BY <1>4 DEF EnsureBase, shouldBranchFromEpic
<1>5. CASE PushEpic
  BY <1>5 DEF PushEpic, Pushable
<1>6. CASE EnsureByFetch
  BY <1>6 DEF EnsureByFetch, fetchRemoteBranch
<1>7. CASE EnsureFetchFails \/ EnsureLocalOnly \/ PushEpicFails
  BY <1>7 DEF EnsureFetchFails, EnsureLocalOnly, PushEpicFails, GiveUp, RunEnds
<1>8. CASE CreateEpic
  BY <1>8 DEF CreateEpic
<1>9. CASE FreshBranch \/ ReworkNotFetched
  BY <1>9 DEF FreshBranch, ReworkNotFetched, CutFeature
<1>10. CASE ReworkFetched
  BY <1>10 DEF ReworkFetched, Fetchable, fetchRemoteBranch
<1>11. CASE Session
  BY <1>11 DEF Session
<1>12. CASE Push
  BY <1>12 DEF Push
<1>14. CASE PushFails \/ PrCreated \/ PrNotCreated \/ PrFails
  BY <1>14 DEF PushFails, PrCreated, PrNotCreated, PrFails, Delivered, logsLast
<1>13. CASE LogDelivery \/ SafeCheckout
  BY <1>13 DEF LogDelivery, SafeCheckout
<1>21. CASE Finish
  BY <1>21 DEF Finish, RunEnds
<1>15. CASE CrashEarly
  BY <1>15 DEF CrashEarly, RunEnds
<1>16. CASE CrashLate
  BY <1>16 DEF CrashLate, RunEnds
<1>17. CASE Resume \/ ResumeFails \/ NothingToResume
  BY <1>17 DEF Resume, ResumeFails, NothingToResume
<1>18. ASSUME NEW c \in Child, AddChild(c) \/ RequestChanges(c) \/ MarkDone(c) PROVE Checkouts'
  BY <1>18 DEF AddChild, RequestChanges, MarkDone
<1>19. ASSUME NEW c \in Child, NEW b \in {Base, Epic}, MergePr(c, b) PROVE Checkouts'
  BY <1>19 DEF MergePr
<1>20. CASE ReturnToBase \/ UNCHANGED vars
  BY <1>20 DEF ReturnToBase, vars
<1> QED
  BY <1>1, <1>2, <1>3, <1>4, <1>5, <1>6, <1>7, <1>8, <1>9, <1>10, <1>11, <1>12, <1>13, <1>14, <1>21,
     <1>15, <1>16, <1>17, <1>18, <1>19, <1>20 DEF Next, Setup, Deliver, World

LEMMA NextNumbered == IInv /\ [Next]_vars => Numbered'
<1> SUFFICES ASSUME IInv, [Next]_vars PROVE Numbered'
  OBVIOUS
<1> USE DEF IInv, Numbered, BranchSetupStep
<1>1. ASSUME NEW c \in Child, StartFresh(c) \/ StartRework(c) PROVE Numbered'
  BY <1>1 DEF StartFresh, StartRework, Begin
<1>2. ASSUME NEW c \in Child, RetryPr(c) \/ DeliverEpic(c) PROVE Numbered'
  BY <1>2 DEF RetryPr, DeliverEpic
<1>3. CASE checkSingleChild \/ EnsureBase \/ PushEpic \/ EnsureByFetch \/ CreateEpic
  BY <1>3 DEF checkSingleChild, EnsureBase, PushEpic, EnsureByFetch, CreateEpic
<1>4. CASE EnsureFetchFails \/ EnsureLocalOnly \/ PushEpicFails
  BY <1>4 DEF EnsureFetchFails, EnsureLocalOnly, PushEpicFails, GiveUp, RunEnds
<1>5. CASE FreshBranch \/ ReworkNotFetched \/ ReworkFetched
  BY <1>5 DEF FreshBranch, ReworkNotFetched, ReworkFetched
<1>6. CASE Session \/ Push \/ LogDelivery \/ SafeCheckout
  BY <1>6 DEF Session, Push, LogDelivery, SafeCheckout
<1>7. CASE PushFails \/ PrCreated \/ PrNotCreated \/ PrFails
  BY <1>7 DEF PushFails, PrCreated, PrNotCreated, PrFails, Delivered
<1>8. CASE Finish \/ CrashEarly \/ CrashLate
  BY <1>8 DEF Finish, CrashEarly, CrashLate, RunEnds
<1>9. CASE Resume \/ ResumeFails \/ NothingToResume
  BY <1>9 DEF Resume, ResumeFails, NothingToResume
<1>10. ASSUME NEW c \in Child, AddChild(c) \/ RequestChanges(c) \/ MarkDone(c) PROVE Numbered'
  BY <1>10 DEF AddChild, RequestChanges, MarkDone
<1>11. ASSUME NEW c \in Child, NEW b \in {Base, Epic}, MergePr(c, b) PROVE Numbered'
  BY <1>11 DEF MergePr
<1>12. CASE ReturnToBase \/ UNCHANGED vars
  BY <1>12 DEF ReturnToBase, vars
<1> QED
  BY <1>1, <1>2, <1>3, <1>4, <1>5, <1>6, <1>7, <1>8, <1>9, <1>10, <1>11, <1>12
     DEF Next, Setup, Deliver, World

LEMMA NextEpicAsMerged == IInv /\ [Next]_vars => EpicAsMerged'
<1> SUFFICES ASSUME IInv, [Next]_vars PROVE EpicAsMerged'
  OBVIOUS
<1> USE DEF IInv, EpicAsMerged, ChildHasMergedSiblings, shouldBranchFromEpic, ctx, run, git,
            ghosts, BranchSetupStep
<1>1. ASSUME UNCHANGED <<local, remote, epicAtStart>>, pc # "idle",
             pc' \notin {"feature", "claude"}
      PROVE  EpicAsMerged'
  BY <1>1
<1>2. ASSUME pc' = "idle" PROVE EpicAsMerged'
  BY <1>2
<1>3. ASSUME UNCHANGED <<pc, ctx, local, remote, epicAtStart>> PROVE EpicAsMerged'
  BY <1>3
<1>4. ASSUME NEW c \in Child, StartFresh(c) \/ StartRework(c) PROVE EpicAsMerged'
  BY <1>4 DEF StartFresh, StartRework, Begin
<1>5. ASSUME NEW c \in Child, DeliverEpic(c) \/ RetryPr(c) \/ MarkDone(c)
      PROVE  EpicAsMerged'
  BY <1>3, <1>5 DEF DeliverEpic, RetryPr, MarkDone
<1>6. ASSUME NEW c \in Child, AddChild(c) \/ RequestChanges(c) PROVE EpicAsMerged'
  BY <1>3, <1>6 DEF AddChild, RequestChanges
<1>7. CASE checkSingleChild
  BY <1>1, <1>7 DEF checkSingleChild
<1>8. CASE EnsureFetchFails \/ EnsureLocalOnly \/ PushEpicFails \/ CrashEarly \/ CrashLate
  BY <1>2, <1>8 DEF EnsureFetchFails, EnsureLocalOnly, PushEpicFails, GiveUp, CrashEarly,
                    CrashLate, RunEnds
<1>9. CASE PushFails \/ PrCreated \/ PrNotCreated \/ PrFails
  BY <1>1, <1>9 DEF PushFails, PrCreated, PrNotCreated, PrFails, Delivered
<1>20. CASE LogDelivery \/ SafeCheckout
  BY <1>1, <1>20 DEF LogDelivery, SafeCheckout
<1>21. CASE Finish
  BY <1>2, <1>21 DEF Finish, RunEnds
<1>10. CASE Resume \/ ResumeFails \/ NothingToResume \/ ReturnToBase
  BY <1>2, <1>10 DEF Resume, ResumeFails, NothingToResume, ReturnToBase
<1>11. CASE UNCHANGED vars
  BY <1>3, <1>11 DEF vars
<1> USE Branches, Targets, TicketIsChild DEF TypeOK
<1>12. CASE EnsureByFetch
  BY <1>12 DEF EnsureByFetch, fetchRemoteBranch
<1>13. CASE EnsureBase
  BY <1>13 DEF EnsureBase
<1>14. CASE CreateEpic
  BY <1>14 DEF CreateEpic
<1>15. CASE PushEpic
  BY <1>15 DEF PushEpic, Pushable
<1>16. CASE FreshBranch
  BY <1>16 DEF FreshBranch, CutFeature, effectiveTarget, targetBranch
<1>17. CASE ReworkFetched \/ ReworkNotFetched
  BY <1>17 DEF ReworkFetched, ReworkNotFetched, fetchRemoteBranch, CutFeature
<1>18. CASE Session \/ Push
  BY <1>18 DEF Session, Push
<1>19. ASSUME NEW c \in Child, NEW b \in {Base, Epic}, MergePr(c, b) PROVE EpicAsMerged'
  BY <1>19 DEF MergePr
<1> QED
  BY <1>4, <1>5, <1>6, <1>7, <1>8, <1>9, <1>10, <1>11, <1>12, <1>13, <1>14, <1>15,
     <1>16, <1>17, <1>18, <1>19, <1>20, <1>21 DEF Next, Setup, Deliver, World

-----------------------------------------------------------------------------
(* Targets, and whose work is sent to them *)

LEMMA ParentKey == parentKey \in BOOLEAN /\ effectiveTarget = targetBranch(parentKey)
BY DEF parentKey, effectiveTarget

LEMMA NextOneTarget == IInv /\ [Next]_vars => OneTarget'
<1> SUFFICES ASSUME IInv, [Next]_vars PROVE OneTarget'
  OBVIOUS
<1> USE DEF IInv, OneTarget, ctx, run, git, logs, reviews, ghosts, BranchSetupStep
<1>1. ASSUME UNCHANGED <<run, prs, log, sentTo>>, pc # "idle", pc' # "idle", pc' # "createPr"
      PROVE  OneTarget'
  BY <1>1
<1>2. ASSUME UNCHANGED <<prs, log, sentTo>>, pc' # "createPr", isRework' = FALSE
      PROVE  OneTarget'
  BY <1>2
<1>3. ASSUME UNCHANGED <<pc, run, prs, log, sentTo>> PROVE OneTarget'
  BY <1>3 DEF effectiveTarget
<1>4. CASE EnsureByFetch \/ CreateEpic \/ PushEpic \/ EnsureBase
  BY <1>1, <1>4 DEF EnsureByFetch, CreateEpic, PushEpic, EnsureBase
<1>5. CASE FreshBranch \/ ReworkFetched \/ ReworkNotFetched \/ Session
  BY <1>1, <1>5 DEF FreshBranch, ReworkFetched, ReworkNotFetched, Session
<1>6. CASE EnsureFetchFails \/ EnsureLocalOnly \/ PushEpicFails
  BY <1>2, <1>6 DEF EnsureFetchFails, EnsureLocalOnly, PushEpicFails, GiveUp, RunEnds
<1>7. CASE CrashEarly \/ CrashLate \/ Finish
  BY <1>2, <1>7 DEF CrashEarly, CrashLate, Finish, RunEnds
<1>8. CASE SafeCheckout
  BY <1>1, <1>8 DEF SafeCheckout
<1>9. CASE PushFails \/ PrNotCreated \/ PrFails
  BY <1>1, <1>9 DEF PushFails, PrNotCreated, PrFails, Delivered, logsLast
<1>10. CASE ResumeFails \/ NothingToResume \/ ReturnToBase
  BY <1>3, <1>10 DEF ResumeFails, NothingToResume, ReturnToBase
<1>11. ASSUME NEW c \in Child, DeliverEpic(c) \/ AddChild(c) \/ RequestChanges(c)
      PROVE  OneTarget'
  BY <1>3, <1>11 DEF DeliverEpic, AddChild, RequestChanges
<1>12. CASE UNCHANGED vars
  BY <1>3, <1>12 DEF vars
<1>13. CASE checkSingleChild
  BY <1>13 DEF checkSingleChild
<1> USE Branches, Targets, TicketIsChild, LockOfChild DEF TypeOK, READ_BACK
<1>14. ASSUME NEW c \in Child, StartFresh(c) PROVE OneTarget'
  BY <1>2, <1>14 DEF StartFresh, Begin
<1>15. ASSUME NEW c \in Child, StartRework(c) PROVE OneTarget'
  BY <1>15 DEF StartRework, Begin
<1>16. CASE Push
  BY <1>16 DEF Push, Sent, effectiveTarget
<1>17. CASE PrCreated
  <2>1. /\ prs' = prs \union {<<ticket, effectiveTarget>>} /\ pc' \notin {"idle", "createPr"}
        /\ effectiveTarget \in sentTo[ticket] /\ pc # "idle"
        /\ UNCHANGED <<run, log, sentTo>>
    BY <1>17 DEF PrCreated, Delivered, prToOpen, logsLast
  <2> QED
    BY <2>1
<1>18. CASE LogDelivery
  <2>1. /\ log' = [log EXCEPT ![ticket] = [status |-> outcome, parent |-> parentKey]]
        /\ sentTo' = [sentTo EXCEPT ![ticket] = @ \union {effectiveTarget}]
        /\ pc # "idle" /\ pc' \notin {"idle", "createPr"} /\ UNCHANGED <<run, prs>>
    BY <1>18 DEF LogDelivery, Sent
  <2>2. log'[ticket].parent = parentKey /\ effectiveTarget \in sentTo'[ticket]
    BY <2>1
  <2>3. \A c \in Child : sentTo[c] \subseteq sentTo'[c]
    BY <2>1
  <2>4. \A c \in Child \ {ticket} : log'[c] = log[c]
    BY <2>1
  <2>5. \A c \in Child :
          log'[c].status \in READ_BACK => targetBranch(log'[c].parent) \in sentTo'[c]
    BY <2>2, <2>3, <2>4, ParentKey
  <2> QED
    BY <2>1, <2>3, <2>5
<1>19. CASE Resume
  <2>1. /\ log' = [log EXCEPT ![lock.key] = [status |-> "RESUMED", parent |-> lock.parent]]
        /\ sentTo' = [sentTo EXCEPT ![lock.key] = @ \union {lock.target}]
        /\ pc = "idle" /\ pc' = "idle" /\ lock.key \in Child /\ UNCHANGED <<run, prs>>
    BY <1>19 DEF Resume, Sent, Locked
  <2> QED
    BY <2>1
<1>20. ASSUME NEW c \in Child, RetryPr(c) PROVE OneTarget'
  BY <1>20 DEF RetryPr
<1>21. ASSUME NEW c \in Child, MarkDone(c) PROVE OneTarget'
  BY <1>21 DEF MarkDone
<1>22. ASSUME NEW c \in Child, NEW b \in {Base, Epic}, MergePr(c, b) PROVE OneTarget'
  BY <1>22 DEF MergePr, effectiveTarget
<1> HIDE DEF IInv, TypeOK, OneTarget
<1> QED
  BY <1>4, <1>5, <1>6, <1>7, <1>8, <1>9, <1>10, <1>11, <1>12, <1>13, <1>14, <1>15, <1>16,
     <1>17, <1>18, <1>19, <1>20, <1>21, <1>22 DEF Next, Setup, Deliver, World

LEMMA NextPurity == IInv /\ [Next]_vars => Purity'
<1> SUFFICES ASSUME IInv, [Next]_vars PROVE Purity'
  OBVIOUS
<1> USE DEF IInv, Purity, PureOnRemote, PureInRun, PureInLock, Pure, Locked, Started,
            ctx, run, git, logs, reviews, ghosts, BranchSetupStep
<1>1. ASSUME UNCHANGED <<local, remote, sentTo>>, lock' = lock \/ lock' = NoLock,
             pc' \in {"idle", "children", "ensureEpic", "pushEpic", "feature"}
      PROVE  Purity'
  BY <1>1
<1>2. ASSUME UNCHANGED <<run, local, remote, lock, sentTo>>, Started PROVE Purity'
  BY <1>2 DEF effectiveTarget
<1>3. ASSUME UNCHANGED <<pc, run, local, remote, lock, sentTo>> PROVE Purity'
  BY <1>3 DEF effectiveTarget
<1>4. ASSUME NEW c \in Child, StartFresh(c) \/ StartRework(c) PROVE Purity'
  BY <1>1, <1>4 DEF StartFresh, StartRework, Begin
<1>5. ASSUME NEW c \in Child, DeliverEpic(c) \/ AddChild(c) \/ RequestChanges(c) \/ RetryPr(c)
                                \/ MarkDone(c)
      PROVE  Purity'
  BY <1>3, <1>5 DEF DeliverEpic, AddChild, RequestChanges, RetryPr, MarkDone
<1>6. CASE checkSingleChild \/ EnsureBase
  BY <1>1, <1>6 DEF EnsureBase, checkSingleChild
<1>7. CASE EnsureFetchFails \/ EnsureLocalOnly \/ PushEpicFails \/ CrashEarly \/ Finish
  BY <1>1, <1>7 DEF EnsureFetchFails, EnsureLocalOnly, PushEpicFails, CrashEarly, Finish, GiveUp,
                    RunEnds
<1>8. CASE ResumeFails \/ NothingToResume
  BY <1>1, <1>8 DEF ResumeFails, NothingToResume
<1>9. CASE PushFails \/ PrCreated \/ PrNotCreated \/ PrFails
  BY <1>2, <1>9 DEF PushFails, PrCreated, PrNotCreated, PrFails, Delivered
<1>10. CASE SafeCheckout
  BY <1>2, <1>10 DEF SafeCheckout
<1>11. CASE ReturnToBase \/ UNCHANGED vars
  BY <1>3, <1>11 DEF ReturnToBase, vars
<1> USE Branches, TicketIsChild, LockOfChild DEF TypeOK
<1>12. CASE EnsureByFetch \/ CreateEpic \/ PushEpic
  BY <1>12 DEF EnsureByFetch, CreateEpic, PushEpic, fetchRemoteBranch, Checkouts
<1>13. CASE FreshBranch \/ ReworkNotFetched
  <2>1. /\ pc' = "claude" /\ local' = [local EXCEPT ![ticket] = local[effectiveTarget]]
        /\ effectiveTarget' = effectiveTarget /\ pc # "idle"
        /\ UNCHANGED <<ticket, remote, lock, sentTo>>
    BY <1>13 DEF FreshBranch, ReworkNotFetched, CutFeature, effectiveTarget
  <2>2. lock' = NoLock /\ (effectiveTarget = Base => local'[ticket] \subseteq remote[Base])
    BY <2>1 DEF Checkouts
  <2> QED
    BY <2>1, <2>2
<1>14. CASE ReworkFetched
  <2>1. /\ pc' = "claude" /\ local' = [local EXCEPT ![ticket] = remote[ticket]]
        /\ pc # "idle" /\ UNCHANGED <<ticket, remote, lock, sentTo>>
    BY <1>14 DEF ReworkFetched, fetchRemoteBranch
  <2>2. lock' = NoLock
    BY <2>1 DEF Checkouts
  <2> QED
    BY <2>1, <2>2
<1>15. CASE Session
  <2>1. /\ pc = "claude" /\ pc' = "push" /\ lock' = NoLock
        /\ local' = [local EXCEPT ![ticket] = @ \union {<<ticket, work + 1>>}]
        /\ effectiveTarget' = effectiveTarget
        /\ UNCHANGED <<ticket, remote, lock, sentTo>>
    BY <1>15 DEF Session, effectiveTarget, Checkouts
  <2>2. ASSUME Pure(local[ticket], ticket) PROVE Pure(local'[ticket], ticket)
    <3>1. local'[ticket] = local[ticket] \union {<<ticket, work + 1>>}
      BY <2>1
    <3>2. <<ticket, work + 1>>[1] = ticket
      OBVIOUS
    <3> QED
      BY <2>2, <3>1, <3>2
  <2>3. PureInRun'
    BY <2>1, <2>2
  <2> QED
    BY <2>1, <2>3
<1>16. CASE Push
  <2>1. /\ pc = "push" /\ pc' = "createPr" /\ lock' = NoLock
        /\ remote' = [remote EXCEPT ![ticket] = local[ticket]]
        /\ sentTo' = [sentTo EXCEPT ![ticket] = @ \union {effectiveTarget}]
        /\ effectiveTarget' = effectiveTarget
        /\ UNCHANGED <<ticket, local>>
    BY <1>16 DEF Push, Sent, effectiveTarget, Checkouts
  <2>2. effectiveTarget \in {Base, Epic} /\ remote'[Base] = remote[Base]
    BY <2>1, Targets
  <2>3. ASSUME Epic \notin sentTo'[ticket]
        PROVE  Pure(local[ticket], ticket) /\ remote'[ticket] = local[ticket]
    BY <2>1, <2>2, <2>3
  <2> QED
    BY <2>1, <2>2, <2>3
<1>17. CASE LogDelivery
  <2>1. /\ pc = "log" /\ sentTo' = [sentTo EXCEPT ![ticket] = @ \union {effectiveTarget}]
        /\ lock' = NoLock /\ UNCHANGED <<run, local, remote>>
    BY <1>17 DEF LogDelivery, Sent, Checkouts
  <2>2. \A c \in Child : sentTo[c] \subseteq sentTo'[c]
    BY <2>1
  <2>3. effectiveTarget' = effectiveTarget /\ ticket' = ticket
    BY <2>1 DEF effectiveTarget
  <2> QED
    BY <2>1, <2>2, <2>3
<1>18. CASE CrashLate
  <2>1. /\ pc' = "idle" /\ Started
        /\ lock' = [key |-> ticket, parent |-> hasParent, target |-> effectiveTarget]
        /\ UNCHANGED <<local, remote, sentTo>>
    BY <1>18 DEF CrashLate, RunEnds
  <2> QED
    BY <2>1
<1>19. CASE Resume
  <2>1. /\ pc' = "idle" /\ lock' = NoLock /\ Locked
        /\ remote' = [remote EXCEPT ![lock.key] = local[lock.key]]
        /\ sentTo' = [sentTo EXCEPT ![lock.key] = @ \union {lock.target}]
        /\ UNCHANGED local
    BY <1>19 DEF Resume, Sent
  <2>2. lock.target \in {Base, Epic} /\ lock.key \in Child /\ remote'[Base] = remote[Base]
    BY <2>1
  <2>3. ASSUME Epic \notin sentTo'[lock.key]
        PROVE  Pure(local[lock.key], lock.key) /\ remote'[lock.key] = local[lock.key]
    BY <2>1, <2>2, <2>3
  <2> QED
    BY <2>1, <2>2, <2>3
<1>20. ASSUME NEW c \in Child, NEW b \in {Base, Epic}, MergePr(c, b) PROVE Purity'
  <2>1. /\ \A d \in Child : remote'[d] = remote[d]
        /\ remote[Base] \subseteq remote'[Base]
        /\ UNCHANGED <<pc, run, local, lock, sentTo>>
    BY <1>20 DEF MergePr
  <2>2. effectiveTarget' = effectiveTarget
    BY <2>1 DEF effectiveTarget
  <2> QED
    BY <2>1, <2>2
<1> HIDE DEF IInv, TypeOK, Purity
<1> QED
  BY <1>4, <1>5, <1>6, <1>7, <1>8, <1>9, <1>10, <1>11, <1>12, <1>13, <1>14, <1>15,
     <1>16, <1>17, <1>18, <1>19, <1>20 DEF Next, Setup, Deliver, World

-----------------------------------------------------------------------------
LEMMA InitIInv == Init => IInv
<1> SUFFICES ASSUME Init PROVE IInv
  OBVIOUS
<1> USE Branches, WorkBound DEF Init
<1>1. TypeOK
  <2>1. local \in [Branch -> SUBSET Commit] /\ local[head] # {} /\ local[Base] # {}
    BY DEF Commit
  <2>2. log \in [Child -> [status : Status, parent : BOOLEAN]]
    BY DEF Status
  <2>3. /\ remote = local /\ pc = "idle" /\ ticket = NoChild
        /\ original \in Branch /\ head \in Branch
    OBVIOUS
  <2>4. /\ onBoard \subseteq Child /\ oneChild \subseteq onBoard
        /\ lock = NoLock /\ epicLog = "NONE" /\ prs = {} /\ merged = {} /\ asked = {}
        /\ work \in 0..MaxWork /\ epicAtStart = {} /\ outcome = "NONE"
        /\ sentTo \in [Child -> SUBSET {Base, Epic}]
        /\ isRework = FALSE /\ hasParent = FALSE /\ skipEpicBranch = FALSE
    OBVIOUS
  <2> HIDE DEF Init
  <2> QED
    BY <2>1, <2>2, <2>3, <2>4 DEF TypeOK, PC, Outcome
<1>2. Checkouts /\ Numbered /\ OneTarget
  BY DEF Checkouts, Numbered, OneTarget, READ_BACK, Started, Locked
<1>3. Purity /\ EpicAsMerged
  BY DEF Purity, PureOnRemote, PureInRun, PureInLock, Pure, EpicAsMerged,
         ChildHasMergedSiblings, Started, Locked
<1> QED
  BY <1>1, <1>2, <1>3 DEF IInv

LEMMA Inductive == IInv /\ [Next]_vars => IInv'
BY NextTypeOK, NextCheckouts, NextNumbered, NextOneTarget, NextPurity, NextEpicAsMerged DEF IInv

-----------------------------------------------------------------------------
(* Branches hold numbered commits, the context and lock name children, and *)
(* what is checked out exists, whatever runs, crashes and reviews follow.  *)
THEOREM TypeCorrect == Spec => []TypeOK
<1>1. IInv => TypeOK
  BY DEF IInv
<1> QED
  BY <1>1, InitIInv, Inductive, PTL DEF Spec

(* A pull request onto the base branch holds no sibling's work that is not *)
(* on the base branch, unless the child was pushed or logged for both.      *)
THEOREM SiblingsStay == Spec => []SiblingsStayInEpic
<1>1. IInv => SiblingsStayInEpic
  <2> SUFFICES ASSUME IInv, NEW c \in Child, sentTo[c] # {Base, Epic}, <<c, Base>> \in prs
               PROVE  Pure(remote[c], c)
    BY DEF SiblingsStayInEpic, Pure
  <2>1. Base \in sentTo[c] /\ sentTo[c] \subseteq {Base, Epic}
    BY DEF IInv, OneTarget, TypeOK
  <2>2. Epic \notin sentTo[c]
    BY <2>1
  <2> QED
    BY <2>2 DEF IInv, Purity, PureOnRemote
<1> QED
  BY <1>1, InitIInv, Inductive, PTL DEF Spec

(* A new child of an epic starts from all that had been merged into the    *)
(* epic branch of the remote when its run began (ensureEpicBranch).        *)
THEOREM ChildrenHaveSiblings == Spec => []ChildHasMergedSiblings
<1>1. IInv => ChildHasMergedSiblings
  BY DEF IInv, EpicAsMerged
<1> QED
  BY <1>1, InitIInv, Inductive, PTL DEF Spec

=============================================================================
