---------------------------- MODULE PullRequests ----------------------------
(***************************************************************************)
(* The pull request of one ticket on the five git platforms: its creation, *)
(* the comments people leave on it, and the rework runs that look for      *)
(* them.  What a run looks at is decided by the clock: the comments since  *)
(* the ticket's last line in progress.txt, whose time is cut to a minute.  *)
(***************************************************************************)
EXTENDS Naturals, FiniteSets

CONSTANTS
  MaxComments,  \* bound: comments on the pull request
  MaxMinute,    \* bound: minutes that pass
  Page          \* comments of one answer; the next page is never asked for

CommentBounds ==
  MaxComments \in Nat /\ MaxMinute \in Nat /\ Page \in Nat \ {0}

Comment == 1..MaxComments   \* in the order they are written

Platform == {"github", "gitlab", "azdo", "cloud", "server"}
Status == {"none", "PUSHED", "PR_CREATED", "PR_CREATION_FAILED", "REWORK",
           "PUSH_FAILED", "RESUMED"}
Candidate == {"PR_CREATED", "REWORK", "PUSHED", "PUSH_FAILED"}

VARIABLES
  platform,
  now,        \* the minute
  pr,         \* the pull request of the ticket's branch
  entry,      \* the ticket's last line in progress.txt
  comments,   \* comments: what each is, when it was written, and its thread
  resolved,   \* GitLab: threads that are resolved
  review,     \* GitHub: a review that requests changes stands
  pc, feedback, discussions,   \* the run, and what it took from the platform
  addressed,  \* addressed: comments that a pushed rework was given
  late        \* late: comments no run is sure to see (see OnlyKnownLosses)

vars == <<platform, now, pr, entry, comments, resolved, review, pc, feedback,
          discussions, addressed, late>>
world == <<platform, now, pr, comments, review>>
run == <<feedback, discussions>>

Unwritten == [kind |-> "none"]
Written == {c \in Comment : comments[c].kind # "none"}

TypeOK ==
  /\ platform \in Platform /\ now \in 0..MaxMinute
  /\ pr \in {"none", "open", "closed"}
  /\ entry \in [status : Status, at : 0..now]
  /\ comments \in [Comment -> {Unwritten} \union
       [kind : {"inline", "rework", "talk"}, at : 0..now, thread : Written]]
  /\ pr = "none" => Written = {}
  /\ resolved \subseteq Written /\ review \in BOOLEAN
  /\ pc \in {"start", "idle", "fetch", "session", "push", "actions", "threads", "crashed"}
  /\ feedback \subseteq Written /\ discussions \subseteq Written
  /\ addressed \subseteq Written /\ late \subseteq Written

Init ==
  /\ platform \in Platform /\ now = 0 /\ pr = "none"
  /\ entry = [status |-> "none", at |-> 0]
  /\ comments = [c \in Comment |-> Unwritten]
  /\ resolved = {} /\ review = FALSE
  /\ pc = "start" /\ feedback = {} /\ discussions = {}
  /\ addressed = {} /\ late = {}

Log(status) == entry' = [status |-> status, at |-> now]

-----------------------------------------------------------------------------
(* What a comment is to the platform's filters *)

(* The inline property, the type or the threadContext. *)
Inline(c) == comments[c].kind = "inline"
isReworkComment(c) == comments[c].kind = "rework"
Reply(c) == comments[c].thread # c

(* Times are compared with the start of the minute of the entry. *)
filterBySince(cs) == {c \in cs : comments[c].at >= entry.at}

OldestFirst(cs) == {c \in cs : Cardinality({d \in cs : d < c}) < Page}
NewestFirst(cs) == {c \in cs : Cardinality({d \in cs : d > c}) < Page}
Wanted(cs) == {c \in cs : Inline(c) \/ isReworkComment(c)}

(* GitHub applies `since` before it cuts the page, the others get the page *)
(* first.  There are two requests, for inline and for other comments.      *)
githubComments ==
  LET since == filterBySince(Written)
  IN OldestFirst({c \in since : Inline(c)})
     \union Wanted(OldestFirst({c \in since : ~Inline(c)}))

(* The page is one of threads; each of their notes is looked at, a diff    *)
(* note while it is unresolved.                                            *)
gitlabFeedback ==
  LET threads == OldestFirst({c \in Written : ~Reply(c)})
      notes == filterBySince({c \in Written : comments[c].thread \in threads})
  IN {c \in Wanted(notes) : Inline(c) => comments[c].thread \notin resolved}

(* The first comment of a thread, and the thread's time, are looked at.    *)
azdoThreads == Wanted(filterBySince({c \in Written : ~Reply(c)}))

cloudComments == Wanted(filterBySince(OldestFirst(Written)))

serverActivities == Wanted(filterBySince(NewestFirst(Written)))

Actionable ==
  CASE platform = "github" -> githubComments
    [] platform = "gitlab" -> gitlabFeedback
    [] platform = "azdo" -> azdoThreads
    [] platform = "cloud" -> cloudComments
    [] platform = "server" -> serverActivities

-----------------------------------------------------------------------------
(* Creating it *)

(* A refusal: its status and what its text says.  Each platform has a way  *)
(* of its own to say that the branch has a pull request.                   *)
Refusal == {400, 409, 422} \X {"already exists", "active", "only one", "other"}

createGitHubPr(r) == r = <<422, "already exists">>
createMergeRequest(r) == r = <<409, "already exists">>
createAzdoPr(r) == r[1] = 409 \/ r = <<400, "active">>
createCloudPr(r) == r = <<409, "already exists">>
createServerPr(r) == r[1] = 409 /\ r[2] \in {"already exists", "only one"}

isAlreadyExists(r) ==
  CASE platform = "github" -> createGitHubPr(r)
    [] platform = "gitlab" -> createMergeRequest(r)
    [] platform = "azdo" -> createAzdoPr(r)
    [] platform = "cloud" -> createCloudPr(r)
    [] platform = "server" -> createServerPr(r)

(* One that is open is refused, and another reason may be given for any;   *)
(* a request may have created it when its answer is lost, late or without  *)
(* a number.                                                               *)
postPullRequest(result) ==
  \/ result = "ok" /\ pr = "none" /\ pr' = "open"
  \/ /\ UNCHANGED pr
     /\ \E r \in Refusal :
          /\ r[2] # "other" => pr = "open"
          /\ result = IF isAlreadyExists(r) THEN "alreadyExists" ELSE "failed"
  \/ result = "failed" /\ pr' \in {pr, "open"}

(* The ticket is delivered: an error of the request is logged as such;     *)
(* without a token or an API none is made.                                 *)
Deliver ==
  /\ pc = "start" /\ pc' = "idle"
  /\ \/ (postPullRequest("ok") \/ postPullRequest("alreadyExists")) /\ Log("PR_CREATED")
     \/ postPullRequest("failed") /\ Log("PR_CREATION_FAILED")
     \/ UNCHANGED pr /\ Log("PUSHED")
  /\ UNCHANGED <<platform, now, comments, review, resolved, run, addressed, late>>

(* prRetry logs nothing when the request fails.  A pull request somebody   *)
(* opened by the manual URL may have comments that this line hides.        *)
RetryPr ==
  /\ pc = "idle" /\ entry.status = "PUSHED"
  /\ \/ (postPullRequest("ok") \/ postPullRequest("alreadyExists")) /\ Log("PR_CREATED")
     \/ postPullRequest("failed") /\ UNCHANGED entry
  /\ late' = late \union (IF entry'.at > entry.at THEN Written ELSE {})
  /\ UNCHANGED <<platform, now, comments, review, resolved, pc, run, addressed>>

-----------------------------------------------------------------------------
findOpenPr == pr = "open"

(* checkCandidates.  A request that fails means there is nothing to do; on *)
(* GitHub a failed comment request still leaves the reviews.               *)
Check(p, hasChangesRequested) ==
  /\ platform = p /\ hasChangesRequested
  /\ pc = "idle" /\ entry.status \in Candidate /\ findOpenPr
  /\ pc' = "fetch"
  /\ UNCHANGED <<world, entry, resolved, run, addressed, late>>

checkPrReviewState == Check("github", githubComments # {} \/ review)
checkMrReviewState == Check("gitlab", gitlabFeedback # {})
checkAzdoReviewState == Check("azdo", azdoThreads # {})
checkBbCloudReviewState == Check("cloud", cloudComments # {})
checkServerPrReviewState == Check("server", serverActivities # {})

(* The comments are asked for again.  A failure is an empty answer, and    *)
(* the run goes on: what it was started for is not given to the session.   *)
Fetch(p, found, ids) ==
  /\ platform = p /\ pc = "fetch" /\ pc' = "session"
  /\ \/ feedback' = found /\ discussions' = ids /\ UNCHANGED late
     \/ feedback' = {} /\ discussions' = {} /\ late' = late \union found
  /\ UNCHANGED <<world, entry, resolved, addressed>>

fetchGitHubComments_inlineOnly ==
  Fetch("github", {c \in githubComments : Inline(c)}, {})

fetchGitHubComments == Fetch("github", githubComments, {})
fetchMrReviewComments ==
  Fetch("gitlab", gitlabFeedback, {comments[c].thread : c \in gitlabFeedback})
fetchAzdoComments == Fetch("azdo", azdoThreads, {})
fetchBbCloudComments == Fetch("cloud", cloudComments, {})
fetchServerPrReviewComments == Fetch("server", serverActivities, {})

Session ==
  /\ pc = "session" /\ pc' = "push"
  /\ UNCHANGED <<world, entry, resolved, run, addressed, late>>

EndRun == pc' = "idle" /\ feedback' = {} /\ discussions' = {}

(* The run ends without a line: the comments stay in sight. *)
RunFails ==
  /\ pc \in {"fetch", "session"} /\ EndRun
  /\ UNCHANGED <<world, entry, resolved, addressed, late>>

DeliverRework_entryKept ==
  /\ pc = "push" /\ pc' = "actions"
  /\ entry' = [entry EXCEPT !.status = "REWORK"]
  /\ addressed' = addressed \union feedback
  /\ UNCHANGED <<world, resolved, run, late>>

DeliverRework ==
  /\ pc = "push" /\ pc' = "actions"
  /\ Log("REWORK")
  /\ addressed' = addressed \union feedback
  /\ UNCHANGED <<world, resolved, run, late>>

(* handlePushFailure logs PUSH_FAILED at the time of the failure, which    *)
(* hides what the session was given from the next run.                     *)
PushFails ==
  /\ pc = "push" /\ EndRun
  /\ Log("PUSH_FAILED")
  /\ late' = late \union feedback
  /\ UNCHANGED <<world, resolved, addressed>>

(* postReworkActions, none of which need succeed.  A comment that starts   *)
(* with [clancy], which every filter drops, takes its place among the      *)
(* comments.                                                               *)
PostComment(p) ==
  LET c == Cardinality(Written) + 1 IN
  /\ platform = p /\ pc = "actions" /\ pc' = "threads"
  /\ \/ /\ pr = "open" /\ c \in Comment
        /\ comments' = [comments EXCEPT ![c] = [kind |-> "talk", at |-> now, thread |-> c]]
     \/ UNCHANGED comments
  /\ UNCHANGED <<platform, now, pr, review, entry, resolved, run, addressed, late>>

postGitHubComment == PostComment("github")
postMrNote == PostComment("gitlab")
postAzdoComment == PostComment("azdo")
postCloudPrComment == PostComment("cloud")
postServerPrComment == PostComment("server")

Done == pc = "threads" /\ EndRun /\ UNCHANGED <<world, entry, addressed, late>>

(* The threads, each by a request of its own. *)
resolveDiscussions ==
  /\ platform = "gitlab" /\ Done
  /\ \E done \in SUBSET discussions : resolved' = resolved \union done

(* A review is asked for again: the old one stands until there is a new one. *)
requestReview == platform = "github" /\ Done /\ UNCHANGED resolved

noopResolve == platform \notin {"github", "gitlab"} /\ Done /\ UNCHANGED resolved

(* The run is killed.  The next one resumes: the branch is pushed when it  *)
(* has commits, and RESUMED is not a status that is looked at again.       *)
Crash ==
  /\ pc \in {"session", "push", "actions", "threads"} /\ pc' = "crashed"
  /\ feedback' = {} /\ discussions' = {}
  /\ late' = late \union feedback
  /\ UNCHANGED <<world, entry, resolved, addressed>>

Resume ==
  /\ pc = "crashed" /\ pc' = "idle"
  /\ Log("RESUMED") \/ UNCHANGED entry
  /\ UNCHANGED <<world, resolved, run, addressed, late>>

-----------------------------------------------------------------------------
(* People *)

(* A comment that is written after the fetch of a run that is under way,   *)
(* or on a pull request Clancy does not know of, may be hidden.            *)
Write(c, kind, thread) ==
  /\ pr = "open" /\ c = Cardinality(Written) + 1
  /\ \/ thread = c
     \/ /\ thread \in Written /\ ~Reply(thread)
        /\ (kind = "inline") = Inline(thread)
  /\ comments' = [comments EXCEPT ![c] = [kind |-> kind, at |-> now, thread |-> thread]]
  /\ late' = IF pc \in {"session", "push", "actions", "threads", "crashed"}
             THEN late \union {c} ELSE late
  /\ UNCHANGED <<platform, now, pr, review, entry, resolved, pc, run, addressed>>

(* A reviewer, or the author of the thread, resolves it, and may reopen it *)
(* when a run that did not see it has been logged.                         *)
Resolve(c) ==
  /\ platform = "gitlab" /\ c \in Written /\ ~Reply(c)
  /\ \/ /\ c \notin resolved /\ resolved' = resolved \union {c}
        /\ UNCHANGED late
     \/ /\ c \in resolved /\ resolved' = resolved \ {c}
        /\ late' = late \union {d \in Written : comments[d].thread = c}
  /\ UNCHANGED <<world, entry, pc, run, addressed>>

Review ==
  /\ platform = "github" /\ pr = "open" /\ review' = ~review
  /\ UNCHANGED <<platform, now, pr, comments, entry, resolved, pc, run, addressed, late>>

(* By the manual URL. *)
OpenByHand ==
  /\ pc = "idle" /\ pr = "none" /\ pr' = "open"
  /\ UNCHANGED <<platform, now, comments, review, entry, resolved, pc, run, addressed, late>>

(* Merged or declined, and reopened.  One that was opened by hand is not   *)
(* closed before PR retry has found it.                                    *)
Close ==
  /\ pr = "open" /\ entry.status # "PUSHED" /\ pr' = "closed"
  /\ UNCHANGED <<platform, now, comments, review, entry, resolved, pc, run, addressed, late>>

Reopen ==
  /\ pr = "closed" /\ pr' = "open"
  /\ UNCHANGED <<platform, now, comments, review, entry, resolved, pc, run, addressed, late>>

Tick ==
  /\ now < MaxMinute /\ now' = now + 1
  /\ UNCHANGED <<platform, pr, comments, review, entry, resolved, pc, run, addressed, late>>

-----------------------------------------------------------------------------
Next ==
  \/ Deliver \/ RetryPr
  \/ checkPrReviewState \/ checkMrReviewState \/ checkAzdoReviewState
  \/ checkBbCloudReviewState \/ checkServerPrReviewState
  \/ fetchGitHubComments \/ fetchMrReviewComments \/ fetchAzdoComments
  \/ fetchBbCloudComments \/ fetchServerPrReviewComments
  \/ Session \/ RunFails
  \/ DeliverRework \/ PushFails \/ Crash \/ Resume
  \/ postGitHubComment \/ postMrNote \/ postAzdoComment \/ postCloudPrComment
  \/ postServerPrComment \/ resolveDiscussions \/ requestReview \/ noopResolve
  \/ \E c \in Comment :
       \/ \E k \in {"inline", "rework", "talk"}, t \in Comment : Write(c, k, t)
       \/ Resolve(c)
  \/ Review \/ OpenByHand \/ Close \/ Reopen \/ Tick

Spec == Init /\ [][Next]_vars

-----------------------------------------------------------------------------
(* A comment that asks for rework, on a pull request whose ticket is still *)
(* looked at, is given to a run that delivers or stays in sight of the     *)
(* next one.  It may be lost in these ways only: written after the run's   *)
(* fetch, fetched by a run that failed to push or was killed, its fetch    *)
(* failed, hidden by the line of a PR retry, and, by the platform, behind  *)
(* the page that is read, in a thread that is or was resolved on GitLab,   *)
(* or a reply on Azure DevOps.                                             *)
OnlyKnownLosses ==
  entry.status \in Candidate =>
    \A c \in Written \ (addressed \union late) :
      \/ comments[c].kind = "talk"
      \/ c \in Actionable \union feedback
      \/ platform = "gitlab" /\ comments[c].thread \in resolved
      \/ IF platform = "azdo" THEN Reply(c) ELSE Cardinality(Written) > Page

(* What a delivered rework was given is not worked on again, unless it was *)
(* written in the minute in which that rework was logged: `since` is cut   *)
(* to the minute.                                                          *)
NotWorkedOnTwice ==
  pc \in {"session", "push"} =>
    \A c \in feedback \intersect addressed : comments[c].at = entry.at

(* "Code comments: leave inline comments on specific lines.  These are     *)
(* always picked up automatically" (the footer of every pull request,      *)
(* pr-body.ts).                                                            *)
InlineCommentsPickedUp ==
  entry.status = "REWORK" /\ pr = "open" /\ pc = "idle" =>
    \A c \in Written : Inline(c) /\ comments[c].thread \notin resolved =>
                         c \in Actionable \union addressed

=============================================================================
