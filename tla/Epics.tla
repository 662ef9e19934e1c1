------------------------------- MODULE Epics -------------------------------
(***************************************************************************)
(* Delivery of the children of one epic: the epic branch, the single-child *)
(* shortcut, the branches a child is cut from and delivered to, the parent *)
(* its progress entry carries, PR retry and epic completion, which both    *)
(* read that parent back.                                                  *)
(*                                                                         *)
(* Runs follow each other.  What the phases before branch setup do to a    *)
(* ticket is in Pipeline; the working tree is clean here (a session has    *)
(* committed what it did), so a checkout fails only for want of the branch.*)
(***************************************************************************)
EXTENDS Naturals

CONSTANTS
  Child,     \* the tickets that name the epic as their parent
  NoChild,   \* no run is under way
  Base,      \* CLANCY_BASE_BRANCH
  Epic,      \* the epic's key; its branch epic/{key}
  Trunk,     \* the commits of the base branch, taken as one
  MaxWork    \* bound: sessions that commit something in a behaviour

ASSUME Names ==
  /\ Base # Epic /\ {Base, Epic} \intersect Child = {}
  /\ NoChild \notin Child \union {Base, Epic}
  /\ Trunk \notin Child \X (1..MaxWork)
ASSUME WorkBound == MaxWork \in Nat

(* A child's feature branch goes by the child's name; a branch is the set  *)
(* of its commits, empty when it does not exist.                           *)
Branch == Child \union {Base, Epic}
Commit == {Trunk} \union (Child \X (1..MaxWork))

Status == {"NONE", "PUSH_FAILED", "PUSHED", "PR_CREATED", "PR_CREATION_FAILED",
           "REWORK", "RESUMED", "DONE"}
Outcome == {"NONE", "PUSH_FAILED", "PUSHED", "PR_CREATED", "PR_CREATION_FAILED", "REWORK"}

(* The fields of the lock file that resume reads. *)
Lock == [key : Child, parent : BOOLEAN, target : {Base, Epic}]
NoLock == [key |-> NoChild, parent |-> FALSE, target |-> Base]

PC == {"idle", "children", "ensureEpic", "pushEpic", "feature", "claude",
       "push", "createPr", "log", "checkout", "cleanup"}

VARIABLES
  pc,
  ticket,     \* ctx.ticket
  isRework,   \* ctx.isRework
  hasParent,  \* ctx.hasParent
  skipEpicBranch,   \* ctx.skipEpicBranch
  outcome,    \* the status the delivery under way is going to be logged with
  original,   \* the branch that was checked out when branch setup began
  head,       \* the branch that is checked out
  local,      \* local branches
  remote,     \* branches of `origin`
  onBoard,    \* the children the board lists under the epic
  oneChild,   \* those that have exactly one child of their own
  lock,       \* .clancy/lock.json of a killed run: [key, parent, target]
  log,        \* the last entry of each child: its status, and if it has `parent:`
  epicLog,    \* the status of the last entry under the epic's own key
  prs,        \* open pull requests, as <<child, branch it is to be merged into>>
  merged,     \* children whose pull request has been merged
  asked,      \* children whose reviewer asks for changes
  work,       \* sessions that have committed
  epicAtStart,  \* epicAtStart: the epic branch of `origin` when the run began
  sentTo      \* sentTo: the targets a child was pushed or logged for so far

run  == <<ticket, isRework, hasParent, skipEpicBranch, original>>
ctx  == <<run, outcome>>
git  == <<head, local, remote>>
board == <<onBoard, oneChild>>
logs == <<log, epicLog>>
reviews == <<prs, merged, asked>>
ghosts == <<epicAtStart, sentTo>>
vars == <<pc, ctx, git, board, lock, logs, reviews, work, ghosts>>

TypeOK ==
  /\ pc \in PC
  /\ ticket \in Child \union {NoChild}
  /\ isRework \in BOOLEAN /\ hasParent \in BOOLEAN /\ skipEpicBranch \in BOOLEAN
  /\ original \in Branch /\ head \in Branch
  /\ outcome \in Outcome
  /\ local \in [Branch -> SUBSET Commit] /\ remote \in [Branch -> SUBSET Commit]
  /\ onBoard \subseteq Child /\ oneChild \subseteq onBoard
  /\ lock \in Lock \union {NoLock}
  /\ log \in [Child -> [status : Status, parent : BOOLEAN]]
  /\ epicLog \in {"NONE", "PUSHED", "EPIC_PR_CREATED"}
  /\ prs \subseteq Child \X {Base, Epic}
  /\ merged \subseteq Child /\ asked \subseteq Child
  /\ work \in 0..MaxWork
  /\ epicAtStart \subseteq Commit /\ sentTo \in [Child -> SUBSET {Base, Epic}]
  /\ pc = "idle" <=> ticket = NoChild
  /\ local[head] # {} /\ local[Base] # {}

Init ==
  /\ pc = "idle" /\ ticket = NoChild
  /\ isRework = FALSE /\ hasParent = FALSE /\ skipEpicBranch = FALSE
  /\ original = Base /\ outcome = "NONE" /\ head = Base
  /\ local = [b \in Branch |-> IF b = Base THEN {Trunk} ELSE {}]
  /\ remote = local
  /\ onBoard \in {s \in SUBSET Child : s # {}} /\ oneChild \in SUBSET onBoard
  /\ log = [c \in Child |-> [status |-> "NONE", parent |-> FALSE]]
  /\ epicLog = "NONE" /\ lock = NoLock
  /\ prs = {} /\ merged = {} /\ asked = {}
  /\ work = 0
  /\ epicAtStart = {} /\ sentTo = [c \in Child |-> {}]

-----------------------------------------------------------------------------
(* git *)

targetBranch(parent) == IF parent THEN Epic ELSE Base

(* `git fetch origin b:b` updates the local branch by fast-forward only,   *)
(* and refuses the branch that is checked out.                             *)
Fetchable(b) == remote[b] # {} /\ local[b] \subseteq remote[b] /\ head # b

(* `git push` without --force: by fast-forward only. *)
Pushable(b) == local[b] # {} /\ remote[b] \subseteq local[b]

fetchRemoteBranch(b) == local' = [local EXCEPT ![b] = remote[b]]

-----------------------------------------------------------------------------
(* A run begins *)

Begin(c, rework, parent) ==
  /\ pc = "idle" /\ lock = NoLock /\ work < MaxWork
  /\ ticket' = c /\ isRework' = rework /\ hasParent' = parent
  /\ skipEpicBranch' = FALSE
  /\ original' = head /\ outcome' = "NONE"
  /\ epicAtStart' = remote[Epic]
  /\ pc' = "children"
  /\ UNCHANGED <<git, board, lock, logs, reviews, work, sentTo>>

(* The context of a run goes with it. *)
RunEnds ==
  /\ pc' = "idle" /\ ticket' = NoChild
  /\ isRework' = FALSE /\ hasParent' = FALSE /\ skipEpicBranch' = FALSE
  /\ original' = Base /\ outcome' = "NONE" /\ epicAtStart' = {}

(* A child that is in the queue: a new one, or one whose build label was   *)
(* not removed after its delivery.                                         *)
StartFresh(c) == c \in onBoard \ merged /\ Begin(c, FALSE, TRUE)

(* A rework ticket has no ticket from the board: its parentInfo is the     *)
(* `parent:` of its progress entry.                                        *)
StartRework(c) ==
  /\ c \in asked
  /\ log[c].status \in {"PR_CREATED", "REWORK", "PUSHED", "PUSH_FAILED"}
  /\ Begin(c, TRUE, log[c].parent)

-----------------------------------------------------------------------------
(* branchSetup *)

BranchSetupStep(from, to) == pc = from /\ pc' = to

effectiveTarget == targetBranch(hasParent /\ ~skipEpicBranch)

(* checkSingleChild, as it is wired (dep-factory.ts:280): the board is     *)
(* asked for the children of the ticket itself, not of its parent.  It may *)
(* not answer, which is not one child.                                     *)
checkSingleChild ==
  /\ BranchSetupStep("children", "ensureEpic")
  /\ skipEpicBranch' \in BOOLEAN
  /\ skipEpicBranch' => hasParent /\ ~isRework /\ ticket \in oneChild
  /\ UNCHANGED <<ticket, isRework, hasParent, original, outcome, git, board, lock,
                 logs, reviews, work, ghosts>>

shouldBranchFromEpic == hasParent /\ ~skipEpicBranch

(* branchSetup gives up: it puts back the branch it found checked out.     *)
GiveUp ==
  /\ head' = original
  /\ RunEnds
  /\ UNCHANGED <<remote, board, lock, logs, reviews, work, sentTo>>

(* Mutant: a local epic branch is good enough. *)
EnsureByFetch_localSuffices ==
  /\ BranchSetupStep("ensureEpic", "feature") /\ shouldBranchFromEpic
  /\ remote[Epic] # {} /\ local[Epic] # {}
  /\ UNCHANGED <<ctx, git, board, lock, logs, reviews, work, ghosts>>

(* The epic branch is on the remote: bring the local one up to date. *)
EnsureByFetch ==
  /\ BranchSetupStep("ensureEpic", "feature") /\ shouldBranchFromEpic
  /\ remote[Epic] # {}
  /\ Fetchable(Epic)
  /\ fetchRemoteBranch(Epic)
  /\ UNCHANGED <<ctx, head, remote, board, lock, logs, reviews, work, ghosts>>

(* It could not be fetched: git refuses, or the network fails. *)
EnsureFetchFails ==
  /\ pc = "ensureEpic" /\ shouldBranchFromEpic
  /\ remote[Epic] # {}
  /\ GiveUp /\ UNCHANGED local

(* It exists here only, as far as the remote could be asked. *)
EnsureLocalOnly ==
  /\ pc = "ensureEpic" /\ shouldBranchFromEpic
  /\ local[Epic] # {}
  /\ GiveUp /\ UNCHANGED local

(* createFreshEpic, when neither the remote (which may not have answered)  *)
(* nor the repository shows an epic branch.                                *)
CreateEpic ==
  /\ BranchSetupStep("ensureEpic", "pushEpic") /\ shouldBranchFromEpic
  /\ local[Epic] = {}
  /\ local' = [local EXCEPT ![Epic] = remote[Base]]
  /\ head' = Epic
  /\ UNCHANGED <<ctx, remote, board, lock, logs, reviews, work, ghosts>>

PushEpic ==
  /\ BranchSetupStep("pushEpic", "feature")
  /\ Pushable(Epic)
  /\ remote' = [remote EXCEPT ![Epic] = local[Epic]]
  /\ UNCHANGED <<ctx, head, local, board, lock, logs, reviews, work, ghosts>>

(* The push fails after the branch was created: the branch stays. *)
PushEpicFails == pc = "pushEpic" /\ GiveUp /\ UNCHANGED local

(* ensureBranch(base, base): the base branch is never fetched. *)
EnsureBase ==
  /\ BranchSetupStep("ensureEpic", "feature") /\ ~shouldBranchFromEpic
  /\ local[Base] # {}
  /\ UNCHANGED <<ctx, git, board, lock, logs, reviews, work, ghosts>>

(* `git checkout target` and `git checkout -B feature`, which starts the   *)
(* feature branch again where the target is.                               *)
CutFeature == local' = [local EXCEPT ![ticket] = local[effectiveTarget]]

(* Mutant: the feature branch is checked out but not created. *)
FreshBranch_notCreated ==
  /\ BranchSetupStep("feature", "claude") /\ ~isRework
  /\ head' = ticket
  /\ UNCHANGED <<ctx, local, remote, board, lock, logs, reviews, work, ghosts>>

FreshBranch ==
  /\ BranchSetupStep("feature", "claude") /\ ~isRework
  /\ CutFeature
  /\ head' = ticket
  /\ UNCHANGED <<ctx, remote, board, lock, logs, reviews, work, ghosts>>

ReworkFetched ==
  /\ BranchSetupStep("feature", "claude") /\ isRework
  /\ Fetchable(ticket)
  /\ fetchRemoteBranch(ticket)
  /\ head' = ticket
  /\ UNCHANGED <<ctx, remote, board, lock, logs, reviews, work, ghosts>>

ReworkNotFetched ==
  /\ BranchSetupStep("feature", "claude") /\ isRework
  /\ CutFeature
  /\ head' = ticket
  /\ UNCHANGED <<ctx, remote, board, lock, logs, reviews, work, ghosts>>

-----------------------------------------------------------------------------
(* The session and delivery *)

Session ==
  /\ BranchSetupStep("claude", "push")
  /\ work' = work + 1
  /\ local' = [local EXCEPT ![head] = @ \union {<<ticket, work + 1>>}]
  /\ UNCHANGED <<ctx, head, remote, board, lock, logs, reviews, ghosts>>

(* parentKeys: only a delivery onto the epic branch is logged with its     *)
(* parent.                                                                 *)
parentKey == hasParent /\ ~skipEpicBranch

Sent(c, target) == sentTo' = [sentTo EXCEPT ![c] = @ \union {target}]

Push ==
  /\ BranchSetupStep("push", "createPr")
  /\ Pushable(ticket)
  /\ remote' = [remote EXCEPT ![ticket] = local[ticket]]
  /\ Sent(ticket, effectiveTarget)
  /\ UNCHANGED <<ctx, head, local, board, lock, logs, reviews, work, epicAtStart>>

(* What is logged, and whether the delivery logs it itself or leaves it to *)
(* the phase, which has the target branch checked out again by then.       *)
logsLast(status) == isRework \/ status = "PR_CREATION_FAILED"
Delivered(status) ==
  /\ outcome' = status
  /\ pc' = IF logsLast(status) THEN "checkout" ELSE "log"
  /\ UNCHANGED <<run, git, board, lock, logs, merged, asked, work, ghosts>>

PushFails ==
  /\ pc = "push"
  /\ Delivered("PUSH_FAILED")
  /\ UNCHANGED prs

prToOpen == <<ticket, effectiveTarget>>

PrCreated ==
  /\ pc = "createPr" /\ prToOpen \notin prs
  /\ prs' = prs \union {prToOpen}
  /\ Delivered(IF isRework THEN "REWORK" ELSE "PR_CREATED")

(* It was open already, or no token allows to open it. *)
PrNotCreated ==
  /\ pc = "createPr"
  /\ Delivered(IF isRework THEN "REWORK" ELSE "PUSHED")
  /\ UNCHANGED prs

PrFails ==
  /\ pc = "createPr" /\ prToOpen \notin prs
  /\ Delivered("PR_CREATION_FAILED")
  /\ UNCHANGED prs

(* The entry; what was asked for before it is not read as feedback again.  *)
LogDelivery ==
  /\ BranchSetupStep("log", IF logsLast(outcome) THEN "cleanup" ELSE "checkout")
  /\ log' = [log EXCEPT ![ticket] = [status |-> outcome, parent |-> parentKey]]
  /\ Sent(ticket, effectiveTarget)
  /\ asked' = IF outcome \in {"PUSH_FAILED", "PR_CREATION_FAILED"}
              THEN asked ELSE asked \ {ticket}
  /\ UNCHANGED <<ctx, git, board, lock, epicLog, prs, merged, work, epicAtStart>>

(* deliverViaPullRequest ends on the target branch, whatever happened. *)
SafeCheckout ==
  /\ BranchSetupStep("checkout", IF logsLast(outcome) THEN "log" ELSE "cleanup")
  /\ head' = IF local[effectiveTarget] # {} THEN effectiveTarget ELSE head
  /\ UNCHANGED <<ctx, local, remote, board, lock, logs, reviews, work, ghosts>>

(* The run returns, and its lock is deleted. *)
Finish ==
  /\ pc = "cleanup"
  /\ RunEnds
  /\ UNCHANGED <<git, board, lock, logs, reviews, work, sentTo>>

-----------------------------------------------------------------------------
(* Crash and resume *)

(* The process is killed during branch setup, before the lock is written.  *)
CrashEarly ==
  /\ pc \in {"children", "ensureEpic", "pushEpic", "feature"}
  /\ RunEnds
  /\ UNCHANGED <<git, board, lock, logs, reviews, work, sentTo>>

(* It is killed later: the lock holds the ticket's parentInfo, whether or  *)
(* not the epic branch was skipped, and the effective target.              *)
CrashLate ==
  /\ pc \in {"claude", "push", "createPr", "log", "checkout", "cleanup"}
  /\ RunEnds
  /\ lock' = [key |-> ticket, parent |-> hasParent, target |-> effectiveTarget]
  /\ UNCHANGED <<git, board, logs, reviews, work, sentTo>>

hasUnpushed(c, target) ==
  IF remote[c] # {} THEN ~(local[c] \subseteq remote[c])
                    ELSE ~(local[c] \subseteq remote[target])

(* executeResume, as it is wired: no pull request is created. *)
Resume ==
  /\ pc = "idle" /\ lock # NoLock
  /\ hasUnpushed(lock.key, lock.target) /\ Pushable(lock.key)
  /\ remote' = [remote EXCEPT ![lock.key] = local[lock.key]]
  /\ log' = [log EXCEPT ![lock.key] = [status |-> "RESUMED", parent |-> lock.parent]]
  /\ head' = lock.target
  /\ lock' = NoLock
  /\ Sent(lock.key, lock.target)
  /\ UNCHANGED <<pc, ctx, local, board, epicLog, reviews, work, epicAtStart>>

(* The push of the resumed branch fails: it stays checked out. *)
ResumeFails ==
  /\ pc = "idle" /\ lock # NoLock
  /\ hasUnpushed(lock.key, lock.target)
  /\ head' = lock.key
  /\ lock' = NoLock
  /\ UNCHANGED <<pc, ctx, local, remote, board, logs, reviews, work, ghosts>>

(* Nothing to push: the stale lock is deleted and the run goes on. *)
NothingToResume ==
  /\ pc = "idle" /\ lock # NoLock
  /\ ~hasUnpushed(lock.key, lock.target)
  /\ lock' = NoLock
  /\ UNCHANGED <<pc, ctx, git, board, logs, reviews, work, ghosts>>

-----------------------------------------------------------------------------
(* The phases of a later run that read the log back *)

(* Mutant: the parent of the entry is not looked at. *)
RetryPr_ontoBase(c) ==
  /\ pc = "idle" /\ lock = NoLock /\ log[c].status = "PUSHED"
  /\ prs' = prs \union {<<c, Base>>}
  /\ log' = [log EXCEPT ![c].status = "PR_CREATED"]
  /\ UNCHANGED <<pc, ctx, git, board, lock, epicLog, merged, asked, work, ghosts>>

(* prRetry opens the pull request of a PUSHED entry onto the branch its    *)
(* `parent:` names, and logs the entry again with that parent, unless it   *)
(* is killed between the two.                                              *)
RetryPr(c) ==
  /\ pc = "idle" /\ lock = NoLock /\ log[c].status = "PUSHED"
  /\ prs' = prs \union {<<c, targetBranch(log[c].parent)>>}
  /\ log' \in {log, [log EXCEPT ![c].status = "PR_CREATED"]}
  /\ UNCHANGED <<pc, ctx, git, board, lock, epicLog, merged, asked, work, ghosts>>

(* findCompletedEpics: the parents of the entries that say DONE, each with *)
(* the key of such a child for the name of the epic's branch.              *)
completedEpics == {c \in Child : log[c].status = "DONE" /\ log[c].parent}
epicBranchOf(c) == <<"key", c>>

(* deliverEpicToBase.  The platform refuses a pull request from a branch   *)
(* the remote does not have; that, and not asking it, is logged PUSHED.    *)
DeliverEpic(c) ==
  /\ pc = "idle" /\ lock = NoLock /\ c \in completedEpics
  /\ LET source == epicBranchOf(c) IN
     epicLog' \in IF source \in Branch /\ remote[source] # {}
                 THEN {"EPIC_PR_CREATED", "PUSHED"} ELSE {"PUSHED"}
  /\ UNCHANGED <<pc, ctx, git, board, lock, log, reviews, work, ghosts>>

-----------------------------------------------------------------------------
(* The board, the reviewer and the operator *)

AddChild(c) ==
  /\ c \notin onBoard /\ onBoard' = onBoard \union {c}
  /\ oneChild' \in {oneChild, oneChild \union {c}}
  /\ UNCHANGED <<pc, ctx, git, lock, logs, reviews, work, ghosts>>

MergePr(c, b) ==
  /\ <<c, b>> \in prs
  /\ prs' = prs \ {<<c, b>>} /\ merged' = merged \union {c} /\ asked' = asked \ {c}
  /\ remote' = [remote EXCEPT ![b] = @ \union remote[c]]
  /\ UNCHANGED <<pc, ctx, head, local, board, lock, logs, work, ghosts>>

RequestChanges(c) ==
  /\ \E b \in {Base, Epic} : <<c, b>> \in prs
  /\ c \notin asked /\ asked' = asked \union {c}
  /\ UNCHANGED <<pc, ctx, git, board, lock, logs, prs, merged, work, ghosts>>

(* A line of progress.txt no run writes: `... | DONE | parent:KEY`. *)
MarkDone(c) ==
  /\ pc = "idle" /\ c \in merged /\ log[c].parent /\ log[c].status # "DONE"
  /\ log' = [log EXCEPT ![c].status = "DONE"]
  /\ UNCHANGED <<pc, ctx, git, board, lock, epicLog, reviews, work, ghosts>>

(* The operator, or the run of a ticket without parent, leaves the base    *)
(* branch checked out.                                                     *)
ReturnToBase ==
  /\ pc = "idle" /\ head # Base
  /\ head' = Base
  /\ UNCHANGED <<pc, ctx, local, remote, board, lock, logs, reviews, work, ghosts>>

-----------------------------------------------------------------------------
Setup == \/ checkSingleChild \/ EnsureByFetch \/ EnsureFetchFails \/ EnsureLocalOnly
         \/ CreateEpic \/ PushEpic \/ PushEpicFails \/ EnsureBase
         \/ FreshBranch \/ ReworkFetched \/ ReworkNotFetched
Deliver == Session \/ Push \/ PushFails \/ PrCreated \/ PrNotCreated \/ PrFails
           \/ LogDelivery \/ SafeCheckout \/ Finish
World == \E c \in Child :
           \/ AddChild(c) \/ RequestChanges(c) \/ MarkDone(c)
           \/ \E b \in {Base, Epic} : MergePr(c, b)

Next ==
  \/ \E c \in Child : StartFresh(c) \/ StartRework(c) \/ RetryPr(c) \/ DeliverEpic(c)
  \/ Setup \/ Deliver
  \/ CrashEarly \/ CrashLate \/ Resume \/ ResumeFails \/ NothingToResume
  \/ World
  \/ ReturnToBase

Spec == Init /\ [][Next]_vars

(* A pull request onto the base branch holds no sibling's work that the    *)
(* base branch does not have: what was merged into the epic branch gets to *)
(* the base branch with the epic.  Rework, PR retry and resume all take    *)
(* their target from what an earlier run left behind, whole or killed.     *)
(* Excepted is a child that was pushed or logged for both targets, because *)
(* the board counted its children differently for two of its runs.         *)
SiblingsStayInEpic ==
  \A c \in Child : sentTo[c] # {Base, Epic} /\ <<c, Base>> \in prs =>
    \A x \in remote[c] \ remote[Base] : x[1] = c

(* A session that builds on the epic branch has before it everything that  *)
(* had been merged into the epic branch of the remote when its run began,  *)
(* whatever local epic branch earlier runs, failed or killed, left behind. *)
ChildHasMergedSiblings ==
  pc = "claude" /\ ~isRework /\ shouldBranchFromEpic
    => epicAtStart \subseteq local[ticket]

(* docs/roles/IMPLEMENTER.md:83, of an epic branch that exists: "fetches   *)
(* from remote if it does".  Said of a local branch the remote's can be    *)
(* fast-forwarded from, and a network that answers.                        *)
EpicCanBeFetched ==
  pc = "ensureEpic" /\ shouldBranchFromEpic
    /\ remote[Epic] # {} /\ local[Epic] \subseteq remote[Epic]
  => Fetchable(Epic)

=============================================================================
