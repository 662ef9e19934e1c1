------------------------------ MODULE Pipeline ------------------------------
(***************************************************************************)
(* One Clancy pipeline run after another over a project: the lock and the  *)
(* resume of a crashed run, PR retry, rework detection, ticket fetch,      *)
(* feasibility, branch setup, the Claude session and delivery; with the    *)
(* git branches, the progress log, the pull requests and the board queue   *)
(* they act on.  A run may crash between any two steps, and git and the    *)
(* platform APIs may fail wherever the code handles their failure.         *)
(*                                                                         *)
(* Runs follow each other here, and tickets are standalone (no epic), with *)
(* one target branch, Base.  SessionLock treats runs that overlap.         *)
(***************************************************************************)
EXTENDS Naturals, Sequences, FiniteSets

CONSTANTS
  Ticket,         \* the tickets of the board
  NoTicket,       \* no lock file, or no ticket chosen yet
  Trunk,          \* the commits of the base branch, taken as one
  Base,           \* CLANCY_BASE_BRANCH, the target of every pull request
  Hosts,          \* the kinds of `origin` a project may have: a subset of Host
  Modes,          \* the ways runs are started: a subset of Mode
  MaxRework,      \* CLANCY_MAX_REWORK (3 unless configured)
  MaxCandidates,  \* MAX_CANDIDATES of rework.ts (5)
  MaxWork,        \* bound: pieces of work Claude does in a behaviour
  MaxReviews,     \* bound: reviews left in a behaviour
  MaxClosed,      \* bound: pull requests that are closed at a time
  MaxCrashes,     \* bound: runs killed in a behaviour
  MaxRequeues     \* bound: tickets put back in the queue by the operator

(* What detectRemote finds in `origin`.                                    *)
(* "known": a platform told from the URL; "override": one that only        *)
(* CLANCY_GIT_PLATFORM tells; "unknown": neither; "none": no `origin`.     *)
Host == {"known", "override", "unknown", "none"}

Mode == {"afk", "interactive", "dryRun"}

ASSUME Distinct ==
  /\ NoTicket \notin Ticket
  /\ Base \notin Ticket
ASSUME Configuration ==
  /\ Hosts \subseteq Host
  /\ Modes \subseteq Mode
  /\ MaxRework \in Nat /\ MaxCandidates \in Nat
  /\ MaxWork \in Nat /\ MaxReviews \in Nat /\ MaxClosed \in Nat
  /\ MaxCrashes \in Nat /\ MaxRequeues \in Nat

(* A piece of work: the ticket it was done for, and a number.  A branch is *)
(* the set of the commits it holds: Trunk, and one for each piece of work. *)
(* A branch that does not exist is the empty set.                          *)
Work == Ticket \X (1..MaxWork)
Branches == [Ticket -> SUBSET (Work \union {Trunk})]
NoBranch == {}

(* The statuses of progress.txt a ticket's entries may have. *)
Status == {"NONE", "SKIPPED", "PUSH_FAILED", "PUSHED", "PR_CREATED",
           "PR_CREATION_FAILED", "REWORK", "RESUMED"}
DELIVERED_STATUSES == {"PR_CREATED", "PUSHED", "REWORK", "RESUMED"}
FAILED_STATUSES == {"SKIPPED", "PUSH_FAILED", "PR_CREATION_FAILED"}

(* The feedback on a pull request, as checkPrReviewState sees it.          *)
(*   "fresh"      comments newer than the ticket's last log entry          *)
(*   "taken"      such comments, handed to the rework run under way        *)
(*   "stale"      comments older than the last entry: filtered out         *)
(*   "requested"  a formal change request, which is not filtered by age    *)
Feedback == {"none", "fresh", "taken", "stale", "requested"}

Outcome == {"none", "created", "exists", "failed", "not_attempted", "unsupported"}

PC == {"idle", "lockCheck", "resume", "resumePushed", "preflight", "retry",
       "rework", "fetch", "feasibility", "branchSetup", "lockWrite",
       "transition", "claude", "push", "createPr", "log", "unlabel", "ending"}

VARIABLES
  host,         \* what `origin` is: the same in all runs
  pc, mode,     \* the phase the run is in, and how the run was started
  ticket,       \* ctx.ticket
  isRework,     \* ctx.isRework
  lockOwner,    \* ctx.lockOwner
  original,     \* ctx.originalBranch
  outcome,      \* what became of the pull request of this delivery
  retry,        \* entries prRetry has found and not finished
  retried,      \* those of them that have a pull request, not yet logged
  lock,         \* the ticket .clancy/lock.json names; its pid is dead when idle
  head,         \* the branch that is checked out
  local,        \* local branches
  remote,       \* branches of `origin`
  dirty,        \* work in the working tree that is not committed
  latest,       \* the status of each ticket's last entry in progress.txt
  order,        \* the tickets in the order of their first entries
  reworks,      \* the number of each ticket's REWORK entries
  pr,           \* the pull request of each ticket
  feedback,     \* the feedback on it
  queued,       \* the tickets the board offers
  work, reviews, crashes, requeues   \* counters of the bounds

runVars   == <<ticket, isRework, lockOwner, original, outcome>>
retryVars == <<retry, retried>>
gitVars   == <<head, local, remote, dirty>>
logVars   == <<latest, order, reworks>>
setting   == <<host, work, reviews, crashes, requeues>>
vars == <<pc, mode, runVars, retryVars, lock, gitVars, logVars, pr, feedback,
          queued, setting>>

TypeOK ==
  /\ host \in Hosts
  /\ pc \in PC /\ mode \in Mode
  /\ ticket \in Ticket \union {NoTicket}
  /\ isRework \in BOOLEAN /\ lockOwner \in BOOLEAN
  /\ original \in Ticket \union {Base}
  /\ outcome \in Outcome
  /\ retry \in SUBSET Ticket /\ retried \in SUBSET Ticket
  /\ lock \in Ticket \union {NoTicket}
  /\ head \in Ticket \union {Base}
  /\ local \in Branches /\ remote \in Branches
  /\ dirty \in SUBSET Work
  /\ latest \in [Ticket -> Status]
  /\ order \in Seq(Ticket)
  /\ reworks \in [Ticket -> Nat]
  /\ pr \in [Ticket -> {"none", "open", "closed"}]
  /\ feedback \in [Ticket -> Feedback]
  /\ queued \in SUBSET Ticket
  /\ work \in 0..MaxWork /\ reviews \in Nat /\ crashes \in Nat /\ requeues \in Nat

-----------------------------------------------------------------------------
(* progress.txt *)

(* appendProgress.  The entry's timestamp becomes the `since` of the next  *)
(* review check, so every comment made before it is stale from now on.     *)
AppendProgress(t, status) ==
  /\ latest' = [latest EXCEPT ![t] = status]
  /\ order' = IF latest[t] = "NONE" THEN Append(order, t) ELSE order
  /\ reworks' = [reworks EXCEPT ![t] = @ + (IF status = "REWORK" THEN 1 ELSE 0)]
  /\ feedback' = [feedback EXCEPT ![t] = IF @ \in {"fresh", "taken"} THEN "stale" ELSE @]

findEntriesWithStatus(status) ==
  SelectSeq(order, LAMBDA t : latest[t] = status)

(* The entries fetchReworkFromPrReview asks the platform about. *)
toCheck ==
  LET candidates == findEntriesWithStatus("PR_CREATED")
                 \o findEntriesWithStatus("REWORK")
                 \o findEntriesWithStatus("PUSHED")
                 \o findEntriesWithStatus("PUSH_FAILED")
      n == IF Len(candidates) < MaxCandidates THEN Len(candidates) ELSE MaxCandidates
  IN  {candidates[i] : i \in 1..n}

hasChangesRequested(t) == pr[t] = "open" /\ feedback[t] \in {"fresh", "requested"}

-----------------------------------------------------------------------------
(* git *)

(* `git checkout b` carries uncommitted edits along, or refuses when they  *)
(* collide with the other branch. *)
MayRefuse(b) == dirty # {} /\ head # b

(* A checkout whose failure is swallowed. *)
SafeCheckout(b) == head' \in IF MayRefuse(b) THEN {head, b} ELSE {b}

(* `git push -u origin b`, without force: the remote must be an ancestor.  *)
Pushable(t) ==
  /\ host # "none"
  /\ remote[t] \subseteq local[t]

(* `git fetch origin b:b` updates the local branch by fast-forward only,   *)
(* and refuses a branch that is checked out. *)
Fetchable(t) ==
  /\ remote[t] # NoBranch
  /\ head # t
  /\ local[t] \subseteq remote[t]

-----------------------------------------------------------------------------
(* The start of a run, and its end *)

Goto(phase) == pc' = phase

Start(m) ==
  /\ pc = "idle"
  /\ Goto("lockCheck")
  /\ mode' = m
  /\ UNCHANGED <<runVars, retryVars, lock, gitVars, logVars, pr, feedback, queued, setting>>

(* The context of the run is gone.  Feedback it took and did not answer    *)
(* with a log entry is as fresh as before.                                 *)
DropContext ==
  /\ Goto("idle") /\ mode' = "interactive"
  /\ ticket' = NoTicket /\ isRework' = FALSE /\ lockOwner' = FALSE
  /\ original' = Base /\ outcome' = "none"
  /\ retry' = {} /\ retried' = {}
  /\ feedback' = [t \in Ticket |-> IF feedback[t] = "taken" THEN "fresh" ELSE feedback[t]]

(* cleanupLock: only the run that wrote the lock deletes it, and an error  *)
(* of the deletion is swallowed.  (While the process of that run lives its *)
(* further runs end at the lock check, with no effect.)                    *)
EndRun ==
  /\ pc = "ending"
  /\ lock' \in IF lockOwner THEN {NoTicket, lock} ELSE {lock}
  /\ DropContext
  /\ UNCHANGED <<gitVars, logVars, pr, queued, setting>>

(* The process is killed: nothing is cleaned up. *)
Crash ==
  /\ pc # "idle"
  /\ crashes < MaxCrashes
  /\ crashes' = crashes + 1
  /\ DropContext
  /\ UNCHANGED <<lock, gitVars, logVars, pr, queued, host, work, reviews, requeues>>

(* progress.txt cannot be written: runPipeline catches the error and       *)
(* restores the branch that branch setup had recorded.                     *)
LogThrows ==
  /\ pc \in {"push", "log"}
  /\ Goto("ending")
  /\ SafeCheckout(original)
  /\ UNCHANGED <<mode, runVars, retryVars, lock, local, remote, dirty, logVars,
                 pr, feedback, queued, setting>>

-----------------------------------------------------------------------------
(* lock-check and resume *)

NoLock ==
  /\ pc = "lockCheck"
  /\ lock = NoTicket
  /\ Goto("preflight")
  /\ UNCHANGED <<mode, runVars, retryVars, lock, gitVars, logVars, pr, feedback,
                 queued, setting>>

(* inspectBranch: git diff does not see files that were never added. *)
hasUncommitted == IF dirty = {} THEN {FALSE} ELSE {TRUE, FALSE}

hasUnpushedCommits(t) ==
  ~(local[t] \subseteq IF remote[t] = NoBranch THEN {Trunk} ELSE remote[t])

(* The lock of a dead process: it is deleted first, and then the run looks *)
(* for work to resume.  An AFK run resumes what it finds; any other run    *)
(* reports it and goes on as if nothing had been found.                    *)
StaleLock ==
  /\ pc = "lockCheck"
  /\ lock # NoTicket
  /\ lock' = NoTicket
  /\ \/ /\ mode = "afk"
        /\ local[lock] # NoBranch
        /\ TRUE \in hasUncommitted \/ hasUnpushedCommits(lock)
        /\ Goto("resume")
        /\ ticket' = lock
     \/ /\ \/ mode # "afk"
           \/ local[lock] = NoBranch
           \/ MayRefuse(lock)
           \/ FALSE \in hasUncommitted /\ ~hasUnpushedCommits(lock)
        /\ Goto("preflight")
        /\ UNCHANGED ticket
  /\ UNCHANGED <<mode, isRework, lockOwner, original, outcome, retryVars, gitVars,
                 logVars, pr, feedback, queued, setting>>

(* executeResume up to the push; the working tree is committed whole. *)
ResumePush ==
  /\ pc = "resume"
  /\ head' = ticket
  /\ \E commit \in hasUncommitted :
       LET branch == IF commit THEN local[ticket] \union dirty ELSE local[ticket]
       IN  /\ host # "none"
           /\ remote[ticket] \subseteq branch
           /\ local' = [local EXCEPT ![ticket] = branch]
           /\ remote' = [remote EXCEPT ![ticket] = branch]
           /\ dirty' = IF commit THEN {} ELSE dirty
  /\ Goto("resumePushed")
  /\ UNCHANGED <<mode, runVars, retryVars, lock, logVars, pr, feedback, queued, setting>>

(* The checkout, the commit or the push fails: the run goes on as usual,   *)
(* wherever that left HEAD.                                                *)
ResumeFails ==
  /\ pc = "resume"
  /\ \/ MayRefuse(ticket) /\ UNCHANGED <<head, local, dirty>>
     \/ head' = ticket /\ UNCHANGED <<local, dirty>>
     \/ /\ head' = ticket /\ dirty # {}
        /\ local' = [local EXCEPT ![ticket] = @ \union dirty]
        /\ dirty' = {}
  /\ Goto("preflight")
  /\ ticket' = NoTicket
  /\ UNCHANGED <<mode, isRework, lockOwner, original, outcome, retryVars, lock,
                 remote, logVars, pr, feedback, queued, setting>>

ResumeLog ==
  /\ pc = "resumePushed"
  /\ AppendProgress(ticket, "RESUMED")
  /\ SafeCheckout(Base)
  /\ Goto("ending")
  /\ UNCHANGED <<mode, runVars, retryVars, lock, local, remote, dirty, pr, queued, setting>>

(* progress.txt cannot be written: executeResume reports a failure, and    *)
(* the run goes on with the branch pushed and nothing logged.              *)
ResumeLogFails ==
  /\ pc = "resumePushed"
  /\ Goto("preflight")
  /\ ticket' = NoTicket
  /\ UNCHANGED <<mode, isRework, lockOwner, original, outcome, retryVars, lock,
                 gitVars, logVars, pr, feedback, queued, setting>>

-----------------------------------------------------------------------------
(* preflight, pr-retry, rework-detection *)

PreflightFails ==
  /\ pc = "preflight"
  /\ Goto("ending")
  /\ UNCHANGED <<mode, runVars, retryVars, lock, gitVars, logVars, pr, feedback,
                 queued, setting>>

PreflightOk_wrongStatus ==
  /\ pc = "preflight"
  /\ Goto("retry")
  /\ retry' = {t \in Ticket : latest[t] = "PR_CREATION_FAILED"}
  /\ UNCHANGED <<mode, runVars, retried, lock, gitVars, logVars, pr, feedback,
                 queued, setting>>

(* Preflight passes, and prRetry reads the entries it will retry. *)
PreflightOk ==
  /\ pc = "preflight"
  /\ Goto("retry")
  /\ retry' = {t \in Ticket : latest[t] = "PUSHED"}
  /\ UNCHANGED <<mode, runVars, retried, lock, gitVars, logVars, pr, feedback,
                 queued, setting>>

(* handleUnsupportedRemote.  prRetry asks detectRemote without the         *)
(* configured platform, so an overridden host is an unknown one here.      *)
RetryUnsupported(t) ==
  /\ pc = "retry" /\ t \in retry
  /\ host # "known"
  /\ retry' = retry \ {t}
  /\ AppendProgress(t, "PR_CREATED")
  /\ UNCHANGED <<pc, mode, runVars, retried, lock, gitVars, pr, queued, setting>>

(* The platform opens the pull request, or has one open already. *)
RetryCreates(t) ==
  /\ pc = "retry" /\ t \in retry
  /\ host = "known"
  /\ pr[t] = "open" \/ remote[t] \notin {NoBranch, {Trunk}}
  /\ retry' = retry \ {t}
  /\ retried' = retried \union {t}
  /\ pr' = [pr EXCEPT ![t] = "open"]
  /\ feedback' = [feedback EXCEPT ![t] = IF pr[t] = "open" THEN @ ELSE "none"]
  /\ UNCHANGED <<pc, mode, runVars, lock, gitVars, logVars, queued, setting>>

RetryLogs(t) ==
  /\ pc = "retry" /\ t \in retried
  /\ retried' = retried \ {t}
  /\ AppendProgress(t, "PR_CREATED")
  /\ UNCHANGED <<pc, mode, runVars, retry, lock, gitVars, pr, queued, setting>>

RetryFails_logsAnyway(t) ==
  /\ pc = "retry" /\ t \in retry
  /\ retry' = retry \ {t}
  /\ AppendProgress(t, "PR_CREATED")
  /\ UNCHANGED <<pc, mode, runVars, retried, lock, gitVars, pr, queued, setting>>

(* "failed", or "skipped" for want of credentials: left for the next run.  *)
RetryFails(t) ==
  /\ pc = "retry" /\ t \in retry
  /\ host = "known"
  /\ retry' = retry \ {t}
  /\ UNCHANGED <<pc, mode, runVars, retried, lock, gitVars, logVars, pr, feedback,
                 queued, setting>>

(* progress.txt cannot be written: prRetry swallows the error, and the     *)
(* entry stays as it was.  (Requests of other entries that are under way   *)
(* are taken to end before the next phase.)                                *)
RetryLogFails(t) ==
  /\ pc = "retry"
  /\ t \in retried \/ (t \in retry /\ host # "known")
  /\ retry' = retry \ {t}
  /\ retried' = retried \ {t}
  /\ UNCHANGED <<pc, mode, runVars, lock, gitVars, logVars, pr, feedback, queued, setting>>

RetryDone ==
  /\ pc = "retry"
  /\ retry = {} /\ retried = {}
  /\ Goto("rework")
  /\ UNCHANGED <<mode, runVars, retryVars, lock, gitVars, logVars, pr, feedback,
                 queued, setting>>

(* Rework detection finds feedback.  A candidate whose check fails is      *)
(* passed over, so any of those checked may be the first that is found.    *)
ReworkDetected(t) ==
  /\ pc = "rework"
  /\ host = "known"
  /\ t \in toCheck
  /\ hasChangesRequested(t)
  /\ ticket' = t
  /\ isRework' = TRUE
  /\ feedback' = [feedback EXCEPT ![t] = IF @ = "fresh" THEN "taken" ELSE @]
  /\ Goto("fetch")
  /\ UNCHANGED <<mode, lockOwner, original, outcome, retryVars, lock, gitVars,
                 logVars, pr, queued, setting>>

(* There is none, or the platform cannot be asked. *)
NoRework ==
  /\ pc = "rework"
  /\ Goto("fetch")
  /\ UNCHANGED <<mode, runVars, retryVars, lock, gitVars, logVars, pr, feedback,
                 queued, setting>>

-----------------------------------------------------------------------------
(* ticket-fetch, the dry-run gate, feasibility *)

(* The queue is empty or the board cannot be asked. *)
NoTickets ==
  /\ pc = "fetch"
  /\ ~isRework
  /\ Goto("ending")
  /\ UNCHANGED <<mode, runVars, retryVars, lock, gitVars, logVars, pr, feedback,
                 queued, setting>>

(* fetchTicket takes the first candidate that is not blocked; the board's  *)
(* order and the blockers are the board's business. *)
FetchTicket(t) ==
  /\ pc = "fetch"
  /\ ~isRework
  /\ t \in queued
  /\ ticket' = t
  /\ Goto(IF mode = "dryRun" THEN "ending" ELSE "feasibility")
  /\ UNCHANGED <<mode, isRework, lockOwner, original, outcome, retryVars, lock,
                 gitVars, logVars, pr, feedback, queued, setting>>

FetchRework_offByOne ==
  /\ pc = "fetch"
  /\ isRework
  /\ reworks[ticket] <= MaxRework
  /\ Goto(IF mode = "dryRun" THEN "ending" ELSE "branchSetup")
  /\ UNCHANGED <<mode, runVars, retryVars, lock, gitVars, logVars, pr, feedback,
                 queued, setting>>

(* The rework guard lets the ticket through; feasibility is not asked.     *)
FetchRework ==
  /\ pc = "fetch"
  /\ isRework
  /\ reworks[ticket] < MaxRework
  /\ Goto(IF mode = "dryRun" THEN "ending" ELSE "branchSetup")
  /\ UNCHANGED <<mode, runVars, retryVars, lock, gitVars, logVars, pr, feedback,
                 queued, setting>>

(* applyMaxReworkGuard *)
ReworkExhausted ==
  /\ pc = "fetch"
  /\ isRework
  /\ reworks[ticket] >= MaxRework
  /\ AppendProgress(ticket, "SKIPPED")
  /\ Goto("ending")
  /\ UNCHANGED <<mode, runVars, retryVars, lock, gitVars, pr, queued, setting>>

Feasible_locksEarly ==
  /\ pc = "feasibility"
  /\ Goto("branchSetup")
  /\ lock' = ticket /\ lockOwner' = TRUE
  /\ UNCHANGED <<mode, ticket, isRework, original, outcome, retryVars, gitVars,
                 logVars, pr, feedback, queued, setting>>

Feasible ==
  /\ pc = "feasibility"
  /\ Goto("branchSetup")
  /\ UNCHANGED <<mode, runVars, retryVars, lock, gitVars, logVars, pr, feedback,
                 queued, setting>>

(* Not feasible, or Claude could not be asked.  The ticket stays queued.   *)
Infeasible ==
  /\ pc = "feasibility"
  /\ AppendProgress(ticket, "SKIPPED")
  /\ Goto("ending")
  /\ UNCHANGED <<mode, runVars, retryVars, lock, gitVars, pr, queued, setting>>

(* The SKIPPED entry of either cannot be written: the error ends the run.  *)
SkipLogThrows ==
  /\ \/ pc = "feasibility"
     \/ pc = "fetch" /\ isRework /\ reworks[ticket] >= MaxRework
  /\ Goto("ending")
  /\ UNCHANGED <<mode, runVars, retryVars, lock, gitVars, logVars, pr, feedback,
                 queued, setting>>

-----------------------------------------------------------------------------
(* branch-setup, transition *)

(* A checkout is refused and throws; runPipeline restores the branch that  *)
(* was checked out, which is where HEAD still is.                          *)
BranchSetupThrows ==
  /\ pc = "branchSetup"
  /\ \/ MayRefuse(Base) /\ UNCHANGED local
     \/ /\ isRework /\ Fetchable(ticket) /\ MayRefuse(ticket)
        /\ local' = [local EXCEPT ![ticket] = remote[ticket]]
  /\ Goto("ending")
  /\ original' = head
  /\ UNCHANGED <<mode, ticket, isRework, lockOwner, outcome, retryVars, lock, head,
                 remote, dirty, logVars, pr, feedback, queued, setting>>

BranchFromBase_noCheckout ==
  /\ pc = "branchSetup"
  /\ local' = [local EXCEPT ![ticket] = {Trunk}]
  /\ original' = head
  /\ Goto("lockWrite")
  /\ UNCHANGED <<mode, ticket, isRework, lockOwner, outcome, retryVars, lock,
                 head, remote, dirty, logVars, pr, feedback, queued, setting>>

(* setupStandalone, and setupReworkBranch when the fetch is refused: the   *)
(* branch is created from Base, or reset to it with `checkout -B`.         *)
BranchFromBase ==
  /\ pc = "branchSetup"
  /\ local' = [local EXCEPT ![ticket] = {Trunk}]
  /\ original' = head
  /\ head' = ticket
  /\ Goto("lockWrite")
  /\ UNCHANGED <<mode, ticket, isRework, lockOwner, outcome, retryVars, lock,
                 remote, dirty, logVars, pr, feedback, queued, setting>>

(* setupReworkBranch: the branch under review is fetched. *)
BranchFromRemote ==
  /\ pc = "branchSetup"
  /\ isRework
  /\ Fetchable(ticket)
  /\ local' = [local EXCEPT ![ticket] = remote[ticket]]
  /\ original' = head
  /\ head' = ticket
  /\ Goto("lockWrite")
  /\ UNCHANGED <<mode, ticket, isRework, lockOwner, outcome, retryVars, lock,
                 remote, dirty, logVars, pr, feedback, queued, setting>>

(* writeLockSafe *)
WriteLock ==
  /\ pc = "lockWrite"
  /\ lock' = ticket
  /\ lockOwner' = TRUE
  /\ Goto("transition")
  /\ UNCHANGED <<mode, ticket, isRework, original, outcome, retryVars, gitVars,
                 logVars, pr, feedback, queued, setting>>

WriteLockFails ==
  /\ pc = "lockWrite"
  /\ Goto("transition")
  /\ UNCHANGED <<mode, runVars, retryVars, lock, gitVars, logVars, pr, feedback,
                 queued, setting>>

(* The ticket moves to CLANCY_STATUS_IN_PROGRESS, which takes it out of    *)
(* the queue - if a status is configured and the board accepts it.         *)
Transition ==
  /\ pc = "transition"
  /\ queued' \in {queued, queued \ {ticket}}
  /\ Goto("claude")
  /\ UNCHANGED <<mode, runVars, retryVars, lock, gitVars, logVars, pr, feedback, setting>>

-----------------------------------------------------------------------------
(* The Claude session *)

ClaudeEdits ==
  /\ pc = "claude"
  /\ work < MaxWork
  /\ work' = work + 1
  /\ dirty' = dirty \union {<<ticket, work + 1>>}
  /\ UNCHANGED <<pc, mode, runVars, retryVars, lock, head, local, remote, logVars,
                 pr, feedback, queued, host, reviews, crashes, requeues>>

ClaudeCommits ==
  /\ pc = "claude"
  /\ dirty # {}
  /\ local' = [local EXCEPT ![ticket] = @ \union dirty]
  /\ dirty' = {}
  /\ UNCHANGED <<pc, mode, runVars, retryVars, lock, head, remote, logVars, pr,
                 feedback, queued, setting>>

InvokeOk ==
  /\ pc = "claude"
  /\ Goto("push")
  /\ UNCHANGED <<mode, runVars, retryVars, lock, gitVars, logVars, pr, feedback,
                 queued, setting>>

(* The session exits with an error: the run aborts where it stands.        *)
InvokeFails ==
  /\ pc = "claude"
  /\ Goto("ending")
  /\ UNCHANGED <<mode, runVars, retryVars, lock, gitVars, logVars, pr, feedback,
                 queued, setting>>

-----------------------------------------------------------------------------
(* deliver *)

PushSucceeds ==
  /\ pc = "push"
  /\ Pushable(ticket)
  /\ remote' = [remote EXCEPT ![ticket] = local[ticket]]
  /\ Goto("createPr")
  /\ UNCHANGED <<mode, runVars, retryVars, lock, head, local, dirty, logVars, pr,
                 feedback, queued, setting>>

PushFails_unnoticed ==
  /\ pc = "push"
  /\ AppendProgress(ticket, "PUSHED")
  /\ SafeCheckout(Base)
  /\ Goto("unlabel")
  /\ UNCHANGED <<mode, runVars, retryVars, lock, local, remote, dirty, pr, queued, setting>>

(* handlePushFailure and detectDeliveryFailure; a fresh ticket's failure   *)
(* is logged by both, to the same effect. *)
PushFails ==
  /\ pc = "push"
  /\ AppendProgress(ticket, "PUSH_FAILED")
  /\ SafeCheckout(Base)
  /\ Goto("ending")
  /\ UNCHANGED <<mode, runVars, retryVars, lock, local, remote, dirty, pr, queued, setting>>

(* createPr and deliveryOutcome: the platform opens a pull request for a   *)
(* branch that holds work and has none open.                               *)
CreatePr ==
  /\ pc = "createPr"
  /\ \/ /\ host \in {"known", "override"}
        /\ pr[ticket] # "open" /\ remote[ticket] # {Trunk}
        /\ outcome' = "created"
        /\ pr' = [pr EXCEPT ![ticket] = "open"]
        /\ feedback' = [feedback EXCEPT ![ticket] = "none"]
     \/ /\ host \in {"known", "override"}
        /\ outcome' \in {"failed", "not_attempted"}
                       \union (IF pr[ticket] = "open" THEN {"exists"} ELSE {})
        /\ UNCHANGED <<pr, feedback>>
     \/ /\ host = "unknown"
        /\ outcome' = "unsupported"
        /\ UNCHANGED <<pr, feedback>>
  /\ Goto("log")
  /\ UNCHANGED <<mode, ticket, isRework, lockOwner, original, retryVars, lock,
                 gitVars, logVars, queued, setting>>

progressForOutcome_local ==
  IF outcome = "failed" THEN "PR_CREATION_FAILED"
  ELSE IF outcome = "not_attempted" THEN "LOCAL"
  ELSE IF isRework THEN "REWORK"
  ELSE IF outcome = "created" THEN "PR_CREATED"
  ELSE "PUSHED"

progressForOutcome ==
  IF outcome = "failed" THEN "PR_CREATION_FAILED"
  ELSE IF isRework THEN "REWORK"
  ELSE IF outcome = "created" THEN "PR_CREATED"
  ELSE "PUSHED"

(* The delivery's log entry, and the checkout of the target branch. *)
LogDelivery ==
  /\ pc = "log"
  /\ AppendProgress(ticket, progressForOutcome)
  /\ SafeCheckout(Base)
  /\ Goto(IF outcome = "failed" THEN "ending" ELSE "unlabel")
  /\ UNCHANGED <<mode, runVars, retryVars, lock, local, remote, dirty, pr, queued, setting>>

(* safeRemoveBuildLabel takes the ticket out of the queue, at best. *)
RemoveBuildLabel ==
  /\ pc = "unlabel"
  /\ queued' \in {queued, queued \ {ticket}}
  /\ Goto("ending")
  /\ UNCHANGED <<mode, runVars, retryVars, lock, gitVars, logVars, pr, feedback, setting>>

-----------------------------------------------------------------------------
(* Reviewers and the operator, at any time *)

(* A comment, a formal change request, or the withdrawal of one. *)
Review(t) ==
  /\ pr[t] = "open"
  /\ reviews < MaxReviews
  /\ reviews' = reviews + 1
  /\ \E kind \in {"fresh", "requested", "none"} :
       /\ feedback[t] = "requested" <=> kind = "none"
       /\ feedback' = [feedback EXCEPT ![t] = kind]
  /\ UNCHANGED <<pc, mode, runVars, retryVars, lock, gitVars, logVars, pr, queued,
                 host, work, crashes, requeues>>

ClosePr(t) ==
  /\ pr[t] = "open"
  /\ Cardinality({u \in Ticket : pr[u] = "closed"}) < MaxClosed
  /\ pr' = [pr EXCEPT ![t] = "closed"]
  /\ feedback' = [feedback EXCEPT ![t] = "none"]
  /\ UNCHANGED <<pc, mode, runVars, retryVars, lock, gitVars, logVars, queued, setting>>

(* The operator labels a failed ticket for another try. *)
Requeue(t) ==
  /\ latest[t] \in FAILED_STATUSES
  /\ t \notin queued
  /\ requeues < MaxRequeues
  /\ requeues' = requeues + 1
  /\ queued' = queued \union {t}
  /\ UNCHANGED <<pc, mode, runVars, retryVars, lock, gitVars, logVars, pr, feedback,
                 host, work, reviews, crashes>>

-----------------------------------------------------------------------------

Init ==
  /\ host \in Hosts
  /\ pc = "idle" /\ mode = "interactive"
  /\ ticket = NoTicket /\ isRework = FALSE /\ lockOwner = FALSE
  /\ original = Base /\ outcome = "none"
  /\ retry = {} /\ retried = {}
  /\ lock = NoTicket
  /\ head = Base /\ dirty = {}
  /\ local = [t \in Ticket |-> NoBranch]
  /\ remote = [t \in Ticket |-> NoBranch]
  /\ latest = [t \in Ticket |-> "NONE"]
  /\ order = <<>>
  /\ reworks = [t \in Ticket |-> 0]
  /\ pr = [t \in Ticket |-> "none"]
  /\ feedback = [t \in Ticket |-> "none"]
  /\ queued = Ticket
  /\ work = 0 /\ reviews = 0 /\ crashes = 0 /\ requeues = 0

Resuming == NoLock \/ StaleLock \/ ResumePush \/ ResumeFails \/ ResumeLog \/ ResumeLogFails

Retrying ==
  \/ PreflightFails \/ PreflightOk \/ RetryDone
  \/ \E t \in Ticket :
       \/ RetryUnsupported(t) \/ RetryCreates(t) \/ RetryFails(t)
       \/ RetryLogs(t) \/ RetryLogFails(t)

Choosing ==
  \/ NoRework \/ NoTickets \/ FetchRework \/ ReworkExhausted \/ Feasible \/ Infeasible
  \/ SkipLogThrows
  \/ \E t \in Ticket : ReworkDetected(t) \/ FetchTicket(t)

Working ==
  \/ BranchSetupThrows \/ BranchFromBase \/ BranchFromRemote
  \/ WriteLock \/ WriteLockFails \/ Transition
  \/ ClaudeEdits \/ ClaudeCommits \/ InvokeOk \/ InvokeFails

Delivering ==
  PushSucceeds \/ PushFails \/ CreatePr \/ LogDelivery \/ LogThrows \/ RemoveBuildLabel

RunStep == Resuming \/ Retrying \/ Choosing \/ Working \/ Delivering \/ EndRun

World ==
  \/ Crash
  \/ \E t \in Ticket : Review(t) \/ ClosePr(t) \/ Requeue(t)

Next == (\E m \in Modes : Start(m)) \/ RunStep \/ World

Spec == Init /\ [][Next]_vars

(***************************************************************************)
(* Fairness: another run is started when one is over.  Nothing is assumed  *)
(* of how long a run takes: neither the Claude session nor most requests   *)
(* have a time limit.  The other conjuncts are about git, the platform and *)
(* the disk: what could have been read, opened or written again and again  *)
(* is so at last.                                                          *)
(***************************************************************************)
FairSpec ==
  /\ Spec
  /\ WF_vars(\E m \in Modes : Start(m))
  /\ SF_vars(PreflightOk)
  /\ \A t \in Ticket : SF_vars(RetryCreates(t)) /\ SF_vars(RetryLogs(t))

-----------------------------------------------------------------------------
(* Properties *)

(* What a status says has happened.  Where the platform is not told from   *)
(* the URL, PR_CREATED only says "do not retry" (handleUnsupportedRemote). *)
ClaimOf(status) ==
  IF status \in {"PR_CREATED", "REWORK"} /\ host = "known" THEN 2
  ELSE IF status \in DELIVERED_STATUSES \union {"PR_CREATION_FAILED"} THEN 1
  ELSE 0

TruthOf(t) ==
  IF remote[t] = NoBranch THEN 0 ELSE IF pr[t] = "none" THEN 1 ELSE 2

(***************************************************************************)
(* The log never claims what has not happened, in whatever order pushes,   *)
(* pull requests, entries, retries and crashes come: a ticket logged as    *)
(* PR_CREATED or REWORK has a pull request, one logged as PUSHED, RESUMED  *)
(* or PR_CREATION_FAILED is on the remote.  Stated as a refinement: the    *)
(* pipeline implements DeliveryLedger, so it also never takes a pushed     *)
(* branch or a pull request back.                                          *)
(***************************************************************************)
Ledger == INSTANCE DeliveryLedger WITH
  truth <- [t \in Ticket |-> TruthOf(t)],
  claim <- [t \in Ticket |-> ClaimOf(latest[t])]

ImplementsLedger == Ledger!LedgerSpec

LogNeverLeads == \A t \in Ticket : ClaimOf(latest[t]) <= TruthOf(t)

(***************************************************************************)
(* A lock left by a crash names a ticket whose branch exists, so that      *)
(* resume detection always has a branch to look at: the lock is written    *)
(* after the checkout, and no run ever takes a branch away.                *)
(***************************************************************************)
LockFindsItsBranch == lock # NoTicket => local[lock] # NoBranch

(***************************************************************************)
(* From branch setup to the push HEAD is on the ticket's own branch, so    *)
(* that Claude's commits land there: whatever HEAD was left on by runs     *)
(* that aborted, crashed or failed to resume.                              *)
(***************************************************************************)
SessionOnItsBranch ==
  pc \in {"lockWrite", "transition", "claude", "push"} =>
    head = ticket /\ local[ticket] # NoBranch

(* A ticket is reworked MaxRework times at most, over all runs. *)
ReworkBounded == \A t \in Ticket : reworks[t] <= MaxRework

(***************************************************************************)
(* A ticket that was pushed without a pull request gets one from PR retry  *)
(* in a later run, through crashes of the runs between, as long as every   *)
(* run ends or is killed at last; unless a run for the ticket itself comes *)
(* in between, and leaves an entry that PR retry does not look at.         *)
(* (A branch without any work on it is refused by the platform for good,   *)
(* and prRetry gives up on a host it cannot tell from the URL.)            *)
(***************************************************************************)
PushedGetsPr ==
  host = "known" /\ []<>(pc = "idle") =>
    \A t \in Ticket :
      latest[t] = "PUSHED" /\ remote[t] # {Trunk} ~>
        pr[t] # "none" \/ latest[t] \in FAILED_STATUSES \union {"RESUMED"}

=============================================================================
