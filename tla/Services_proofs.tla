-------------------------- MODULE Services_proofs ---------------------------
(***************************************************************************)
(* Proofs about what a run asks of other machines, for every number of     *)
(* clients, labels, comments, minutes and pages.  Each service has an      *)
(* inductive invariant of its own; at the end they are put together.       *)
(***************************************************************************)
EXTENDS Services, FiniteSetTheorems, WellFoundedInduction, TLAPS

-----------------------------------------------------------------------------
(* Reviews of a pull request *)

Running == {"fetch", "session", "push", "actions", "threads"}

(* Comments are written in their order, replies below a comment that is    *)
(* none; there are none before the delivery.                               *)
Threads ==
  /\ \E n \in 0..MaxComments : Reviews!Written = 1..n
  /\ \A c \in Reviews!Written : ~Reviews!Reply(comments[c].thread)
  /\ pc = "start" => pr = "none"

(* What a run knows of comments, and that only a candidate's run is one.   *)
Feedback ==
  /\ pc \in {"start", "idle", "fetch", "crashed"} => feedback = {}
  /\ pc \in {"actions", "threads"} => feedback \subseteq addressed
  /\ pc \in {"session", "push"} => \A c \in feedback : comments[c].at >= entry.at
  /\ pc \in Running => entry.status \in Reviews!Candidate

(* The ticket's line is not older than what was delivered before it.       *)
AddressedBefore == \A c \in addressed : comments[c].at <= entry.at

(* Out of sight for good, in one of the ways OnlyKnownLosses names.        *)
Excused(c) ==
  \/ comments[c].kind = "talk"
  \/ platform = "gitlab" /\ comments[c].thread \in resolved
  \/ IF platform = "azdo" THEN Reviews!Reply(c)
     ELSE Cardinality(Reviews!Written) > Page

(* Between runs a comment is in sight if the ticket's line is not younger; *)
(* from the fetch on, the run has it.                                      *)
InSight ==
  entry.status \in Reviews!Candidate =>
    \A c \in Reviews!Written \ (addressed \union late) :
      \/ Excused(c) \/ c \in feedback
      \/ pc \in {"start", "idle", "fetch"} /\ comments[c].at >= entry.at

ReviewsInv ==
  Reviews!TypeOK /\ Threads /\ Feedback /\ AddressedBefore /\ InSight

(* What the type says of one comment, and of the ticket's line.            *)
LEMMA Known ==
  ASSUME Reviews!TypeOK
  PROVE  /\ \A c \in Reviews!Written :
              /\ c \in Reviews!Comment
              /\ comments[c] \in [kind : {"inline", "rework", "talk"}, at : 0..now,
                                  thread : Reviews!Written]
         /\ now \in Nat /\ entry.at \in 0..now
         /\ entry = [status |-> entry.status, at |-> entry.at]
BY ServiceBounds
DEF Reviews!TypeOK, Reviews!Written, Reviews!Unwritten, Reviews!CommentBounds

(* A step that keeps the comments leaves their type, however time passes.  *)
LEMMA CommentsKept ==
  ASSUME Reviews!TypeOK, UNCHANGED comments, now' \in now..MaxMinute
  PROVE  /\ Reviews!Written' = Reviews!Written
         /\ comments' \in [Reviews!Comment -> {Reviews!Unwritten} \union
              [kind : {"inline", "rework", "talk"}, at : 0..now', thread : Reviews!Written']]
<1>1. Reviews!Written' = Reviews!Written
  BY DEF Reviews!Written
<1>2. 0..now \subseteq 0..now'
  BY ServiceBounds, Known DEF Reviews!CommentBounds
<1>3. [kind : {"inline", "rework", "talk"}, at : 0..now, thread : Reviews!Written]
        \subseteq
      [kind : {"inline", "rework", "talk"}, at : 0..now', thread : Reviews!Written']
  BY <1>1, <1>2
<1> QED
  BY <1>1, <1>3 DEF Reviews!TypeOK

(* The comments are numbered from one, so they are finitely many.          *)
LEMMA Numbered ==
  ASSUME Threads
  PROVE  /\ IsFiniteSet(Reviews!Written)
         /\ Cardinality(Reviews!Written) \in 0..MaxComments
         /\ Reviews!Written = 1..Cardinality(Reviews!Written)
<1>1. PICK n \in 0..MaxComments : Reviews!Written = 1..n
  BY DEF Threads
<1>2. IsFiniteSet(1..n) /\ Cardinality(1..n) = n
  BY <1>1, FS_Interval, ServiceBounds DEF Reviews!CommentBounds
<1> QED
  BY <1>1, <1>2

(* The counting of the instance is that of the theorems about finite sets. *)
LEMMA Counting == \A S : Reviews!Cardinality(S) = Cardinality(S)
BY DEF Reviews!Cardinality, Cardinality

(* When all comments fit on a page, cutting it loses none of them.         *)
LEMMA PageHolds ==
  ASSUME Threads, Cardinality(Reviews!Written) <= Page,
         NEW cs \in SUBSET Reviews!Written, NEW c \in cs
  PROVE  c \in Reviews!OldestFirst(cs) /\ c \in Reviews!NewestFirst(cs)
<1>1. ASSUME NEW few \in SUBSET Reviews!Written, c \notin few
      PROVE  Cardinality(few) < Page
  <2>1. Cardinality(few) <= Cardinality(Reviews!Written)
        /\ (Cardinality(few) = Cardinality(Reviews!Written) => few = Reviews!Written)
    BY Numbered, FS_Subset
  <2>2. Cardinality(few) \in Nat
    BY Numbered, FS_Subset, FS_CardinalityType
  <2> QED
    BY <1>1, <2>1, <2>2, Numbered, ServiceBounds DEF Reviews!CommentBounds
<1>2. c \in Nat
  BY Numbered, ServiceBounds DEF Reviews!CommentBounds
<1>3. ~(c < c) /\ ~(c > c)
  BY <1>2
<1>4. Cardinality({d \in cs : d < c}) < Page
  <2>1. {d \in cs : d < c} \subseteq Reviews!Written /\ c \notin {d \in cs : d < c}
    BY <1>3
  <2> QED
    BY <1>1, <2>1
<1>5. Cardinality({d \in cs : d > c}) < Page
  <2>1. {d \in cs : d > c} \subseteq Reviews!Written /\ c \notin {d \in cs : d > c}
    BY <1>3
  <2> QED
    BY <1>1, <2>1
<1> QED
  BY <1>4, <1>5, Counting DEF Reviews!OldestFirst, Reviews!NewestFirst

(* Whatever the platform, a comment that is not excused and not older than *)
(* the ticket's line is among those a run is given.                        *)
LEMMA Sight ==
  ASSUME ReviewsInv, NEW c \in Reviews!Written, comments[c].at >= entry.at, ~Excused(c)
  PROVE  c \in Reviews!Actionable
<1>1. comments[c].kind \in {"inline", "rework"} /\ comments[c].thread \in Reviews!Written
  BY Known DEF ReviewsInv, Excused
<1>2. Reviews!Inline(c) \/ Reviews!isReworkComment(c)
  BY <1>1 DEF Reviews!Inline, Reviews!isReworkComment
<1>3. Cardinality(Reviews!Written) \in Nat
  BY Numbered DEF ReviewsInv
<1>4. CASE platform = "github"
  <2> DEFINE since == Reviews!filterBySince(Reviews!Written)
             inline == {d \in since : Reviews!Inline(d)}
             other == {d \in since : ~Reviews!Inline(d)}
  <2>1. c \in since /\ inline \subseteq Reviews!Written /\ other \subseteq Reviews!Written
    BY DEF Reviews!filterBySince
  <2>2. Cardinality(Reviews!Written) <= Page
    BY <1>3, <1>4, ServiceBounds DEF Excused, Reviews!CommentBounds
  <2>3. CASE Reviews!Inline(c)
    BY <1>4, <2>1, <2>2, <2>3, PageHolds
    DEF ReviewsInv, Reviews!Actionable, Reviews!githubComments
  <2>4. CASE ~Reviews!Inline(c)
    BY <1>2, <1>4, <2>1, <2>2, <2>4, PageHolds
    DEF ReviewsInv, Reviews!Actionable, Reviews!githubComments, Reviews!Wanted
  <2> QED
    BY <2>3, <2>4
<1>5. CASE platform = "gitlab"
  <2> DEFINE first == {d \in Reviews!Written : ~Reviews!Reply(d)}
  <2>1. Cardinality(Reviews!Written) <= Page
    BY <1>3, <1>5, ServiceBounds DEF Excused, Reviews!CommentBounds
  <2>2. comments[c].thread \in first
    BY <1>1 DEF ReviewsInv, Threads
  <2>3. comments[c].thread \in Reviews!OldestFirst(first)
    BY <2>1, <2>2, PageHolds DEF ReviewsInv
  <2>4. comments[c].thread \notin resolved
    BY <1>5 DEF Excused
  <2> QED
    BY <1>2, <1>5, <2>3, <2>4
    DEF Reviews!Actionable, Reviews!gitlabFeedback, Reviews!Wanted, Reviews!filterBySince
<1>6. CASE platform = "azdo"
  BY <1>2, <1>6
  DEF Excused, Reviews!Actionable, Reviews!azdoThreads, Reviews!Wanted,
      Reviews!filterBySince
<1>7. CASE platform \in {"cloud", "server"}
  <2>1. Cardinality(Reviews!Written) <= Page
    BY <1>3, <1>7, ServiceBounds DEF Excused, Reviews!CommentBounds
  <2>2. c \in Reviews!OldestFirst(Reviews!Written) /\ c \in Reviews!NewestFirst(Reviews!Written)
    BY <2>1, PageHolds DEF ReviewsInv
  <2> QED
    BY <1>2, <1>7, <2>2
    DEF Reviews!Actionable, Reviews!cloudComments, Reviews!serverActivities,
        Reviews!Wanted, Reviews!filterBySince
<1> QED
  BY <1>4, <1>5, <1>6, <1>7 DEF ReviewsInv, Reviews!TypeOK, Reviews!Platform

(* No platform gives a run a comment from before the ticket's line.        *)
LEMMA NothingOld ==
  ASSUME Reviews!TypeOK
  PROVE  Reviews!Actionable \subseteq Reviews!filterBySince(Reviews!Written)
<1>1. CASE platform = "github"
  BY <1>1
  DEF Reviews!Actionable, Reviews!githubComments, Reviews!filterBySince,
      Reviews!OldestFirst, Reviews!Wanted
<1>2. CASE platform = "gitlab"
  BY <1>2
  DEF Reviews!Actionable, Reviews!gitlabFeedback, Reviews!filterBySince, Reviews!Wanted
<1>3. CASE platform = "azdo"
  BY <1>3
  DEF Reviews!Actionable, Reviews!azdoThreads, Reviews!filterBySince, Reviews!Wanted
<1>4. CASE platform = "cloud"
  BY <1>4
  DEF Reviews!Actionable, Reviews!cloudComments, Reviews!filterBySince,
      Reviews!OldestFirst, Reviews!Wanted
<1>5. CASE platform = "server"
  BY <1>5
  DEF Reviews!Actionable, Reviews!serverActivities, Reviews!filterBySince,
      Reviews!NewestFirst, Reviews!Wanted
<1> QED
  BY <1>1, <1>2, <1>3, <1>4, <1>5 DEF Reviews!TypeOK, Reviews!Platform

LEMMA ReviewsInit == Reviews!Init => ReviewsInv
<1> SUFFICES ASSUME Reviews!Init PROVE ReviewsInv
  OBVIOUS
<1>1. Reviews!Written = {}
  BY DEF Reviews!Init, Reviews!Written, Reviews!Unwritten
<1>2. 0 \in 0..now /\ now \in 0..MaxMinute
  BY ServiceBounds DEF Reviews!Init, Reviews!CommentBounds
<1>3. /\ entry \in [status : Reviews!Status, at : 0..now]
      /\ comments \in [Reviews!Comment -> {Reviews!Unwritten}]
  BY <1>2 DEF Reviews!Init, Reviews!Status
<1>4. Reviews!TypeOK
  BY <1>1, <1>2, <1>3 DEF Reviews!Init, Reviews!TypeOK
<1>5. Reviews!Written = 1..0 /\ 0 \in 0..MaxComments
  BY <1>1, ServiceBounds DEF Reviews!CommentBounds
<1> QED
  BY <1>1, <1>4, <1>5
  DEF Reviews!Init, ReviewsInv, Threads, Feedback, AddressedBefore, InSight, Running

(* One more comment, whoever writes it: it takes the next number, and says *)
(* nothing about the others.                                               *)
LEMMA OneMore ==
  ASSUME ReviewsInv, NEW c \in Reviews!Comment, c = Cardinality(Reviews!Written) + 1,
         NEW k \in {"inline", "rework", "talk"}, NEW t,
         t = c \/ (t \in Reviews!Written /\ ~Reviews!Reply(t)),
         comments' = [comments EXCEPT ![c] = [kind |-> k, at |-> now, thread |-> t]],
         UNCHANGED now
  PROVE  /\ Reviews!Written' = Reviews!Written \union {c} /\ c \notin Reviews!Written
         /\ comments' \in [Reviews!Comment -> {Reviews!Unwritten} \union
              [kind : {"inline", "rework", "talk"}, at : 0..now', thread : Reviews!Written']]
         /\ comments'[c] = [kind |-> k, at |-> now, thread |-> t]
         /\ \A d \in Reviews!Written : comments'[d] = comments[d]
         /\ \E n \in 0..MaxComments : Reviews!Written' = 1..n
         /\ Cardinality(Reviews!Written)' = Cardinality(Reviews!Written) + 1
         /\ \A d \in Reviews!Written' : ~Reviews!Reply(comments[d].thread)'
<1>1. PICK n \in 0..MaxComments : Reviews!Written = 1..n /\ c = n + 1
  BY Numbered DEF ReviewsInv
<1>2. n \in Nat /\ c \notin Reviews!Written
  BY <1>1, ServiceBounds DEF Reviews!CommentBounds
<1>3. /\ comments'[c] = [kind |-> k, at |-> now, thread |-> t]
      /\ \A d \in Reviews!Comment : d # c => comments'[d] = comments[d]
  BY DEF ReviewsInv, Reviews!TypeOK
<1>4. Reviews!Written' = Reviews!Written \union {c}
  <2>1. comments'[c].kind # "none"
    BY <1>3
  <2>2. \A d \in Reviews!Comment :
          comments'[d].kind # "none" <=> d = c \/ comments[d].kind # "none"
    BY <1>3, <2>1
  <2> QED
    BY <2>2 DEF Reviews!Written
<1>5. Reviews!Written' = 1..(n + 1) /\ n + 1 \in 0..MaxComments
  BY <1>1, <1>2, <1>4, ServiceBounds DEF Reviews!CommentBounds, Reviews!Comment
<1>6. Cardinality(Reviews!Written)' = Cardinality(Reviews!Written) + 1
  BY <1>1, <1>2, <1>5, FS_Interval
<1>7. now \in 0..now
  BY Known DEF ReviewsInv
<1>8. ASSUME NEW d \in Reviews!Comment
      PROVE  comments'[d] \in {Reviews!Unwritten} \union
               [kind : {"inline", "rework", "talk"}, at : 0..now', thread : Reviews!Written']
  <2>1. CASE d = c
    BY <1>3, <1>4, <1>7, <2>1
  <2>2. CASE d # c
    BY <1>3, <1>4, <2>2 DEF ReviewsInv, Reviews!TypeOK
  <2> QED
    BY <2>1, <2>2
<1>9. ASSUME NEW d \in Reviews!Written' PROVE ~Reviews!Reply(comments[d].thread)'
  <2>1. \A e \in Reviews!Written :
          e \in Reviews!Comment /\ e # c /\ comments'[e] = comments[e]
    BY <1>2, <1>3, Known DEF ReviewsInv
  <2>2. CASE d = c
    <3>1. CASE t = c
      BY <1>3, <2>2, <3>1 DEF Reviews!Reply
    <3>2. CASE t \in Reviews!Written /\ ~Reviews!Reply(t)
      BY <1>3, <2>1, <2>2, <3>2 DEF Reviews!Reply
    <3> QED
      BY <3>1, <3>2
  <2>3. CASE d \in Reviews!Written
    <3>1. comments[d].thread \in Reviews!Written /\ ~Reviews!Reply(comments[d].thread)
      BY <2>3, Known DEF ReviewsInv, Threads
    <3> QED
      BY <2>1, <2>3, <3>1 DEF Reviews!Reply
  <2> QED
    BY <1>4, <2>2, <2>3
<1>10. comments' \in [Reviews!Comment -> {Reviews!Unwritten} \union
         [kind : {"inline", "rework", "talk"}, at : 0..now', thread : Reviews!Written']]
  <2>1. DOMAIN comments' = Reviews!Comment /\ comments' = [d \in Reviews!Comment |-> comments'[d]]
    BY DEF ReviewsInv, Reviews!TypeOK
  <2> QED
    BY <1>8, <2>1
<1> QED
  BY <1>2, <1>3, <1>4, <1>5, <1>6, <1>9, <1>10, Known DEF ReviewsInv

(* A step that writes nothing on the pull request: the rest of the state   *)
(* has its type, and the invariant is about what the step changes.         *)
WritesNothing ==
  /\ UNCHANGED <<platform, comments>>
  /\ now' \in now..MaxMinute
  /\ pr' \in {"none", "open", "closed"} /\ (pr' = "none" => pr = "none")
  /\ pc' = "start" => pr' = "none"
  /\ entry' \in [status : Reviews!Status, at : 0..now']
  /\ resolved' \subseteq Reviews!Written /\ review' \in BOOLEAN
  /\ pc' \in {"start", "idle", "fetch", "session", "push", "actions", "threads", "crashed"}
  /\ feedback' \subseteq Reviews!Written /\ discussions' \subseteq Reviews!Written
  /\ addressed' \subseteq Reviews!Written /\ late' \subseteq Reviews!Written

LEMMA Unwritten ==
  ASSUME ReviewsInv, WritesNothing
  PROVE  /\ Reviews!TypeOK' /\ Threads'
         /\ Reviews!Written' = Reviews!Written
         /\ \A c \in Reviews!Written : Reviews!Reply(c)' <=> Reviews!Reply(c)
<1>1. /\ Reviews!Written' = Reviews!Written
      /\ comments' \in [Reviews!Comment -> {Reviews!Unwritten} \union
           [kind : {"inline", "rework", "talk"}, at : 0..now', thread : Reviews!Written']]
  BY CommentsKept DEF ReviewsInv, WritesNothing
<1>2. now' \in 0..MaxMinute
  BY Known, ServiceBounds DEF ReviewsInv, WritesNothing, Reviews!CommentBounds
<1>3. Reviews!TypeOK'
  BY <1>1, <1>2 DEF ReviewsInv, WritesNothing, Reviews!TypeOK
<1>4. \A c : Reviews!Reply(c)' <=> Reviews!Reply(c)
  BY DEF WritesNothing, Reviews!Reply
<1>5. Threads'
  BY <1>1, <1>4 DEF ReviewsInv, WritesNothing, Threads
<1> QED
  BY <1>1, <1>3, <1>4, <1>5

(* What a run takes from the platform is all that it was to see.           *)
LEMMA Fetched ==
  ASSUME ReviewsInv, NEW p, NEW found, NEW asked \in SUBSET Reviews!Written,
         found = Reviews!Actionable, Reviews!Fetch(p, found, asked)
  PROVE  ReviewsInv'
<1>1. found \subseteq Reviews!Written /\ \A c \in found : comments[c].at >= entry.at
  BY NothingOld DEF ReviewsInv, Reviews!filterBySince
<1>2. now' \in now..MaxMinute
  BY Known, ServiceBounds
  DEF Reviews!Fetch, Reviews!world, ReviewsInv, Reviews!TypeOK, Reviews!CommentBounds
<1>3. Reviews!TypeOK' /\ Threads' /\ Reviews!Written' = Reviews!Written
      /\ \A c \in Reviews!Written : Reviews!Reply(c)' <=> Reviews!Reply(c)
  <2>1. WritesNothing
    BY <1>1, <1>2 DEF WritesNothing, ReviewsInv, Reviews!TypeOK, Reviews!Fetch, Reviews!world
  <2> QED
    BY <2>1, Unwritten
<1>4. Feedback'
  BY <1>1 DEF ReviewsInv, Feedback, Running, Reviews!Fetch, Reviews!world
<1>5. AddressedBefore'
  BY DEF ReviewsInv, AddressedBefore, Reviews!Fetch, Reviews!world
<1>6. InSight'
  <2> SUFFICES ASSUME NEW c \in Reviews!Written, c \notin addressed', c \notin late',
                      entry.status \in Reviews!Candidate
               PROVE  Excused(c)' \/ c \in feedback'
    BY <1>3 DEF InSight, Reviews!Fetch, Reviews!world
  <2>1. c \notin addressed /\ c \notin late /\ (c \in found => c \in feedback')
    BY DEF Reviews!Fetch, Reviews!world
  <2>2. Excused(c) \/ c \in found
    <3>1. Excused(c) \/ comments[c].at >= entry.at
      BY <2>1 DEF ReviewsInv, InSight, Feedback, Reviews!Fetch
    <3> QED
      BY <3>1, Sight
  <2>3. Excused(c) => Excused(c)'
    BY <1>3 DEF Excused, Reviews!Fetch, Reviews!world
  <2> QED
    BY <2>1, <2>2, <2>3
<1> QED
  BY <1>3, <1>4, <1>5, <1>6 DEF ReviewsInv

(* A comment of a person or of the run itself: one that asks for rework is *)
(* late, or there is a run to come whose fetch sees it.                    *)
LEMMA CommentAdded ==
  ASSUME ReviewsInv, pr = "open",
         NEW c \in Reviews!Comment, c = Cardinality(Reviews!Written) + 1,
         NEW k \in {"inline", "rework", "talk"}, NEW t,
         t = c \/ (t \in Reviews!Written /\ ~Reviews!Reply(t)),
         comments' = [comments EXCEPT ![c] = [kind |-> k, at |-> now, thread |-> t]],
         pc' = pc \/ (pc = "actions" /\ pc' = "threads"),
         late' \in {late, late \union {c}},
         k = "talk" \/ c \in late' \/ pc' \in {"start", "idle", "fetch"},
         UNCHANGED <<platform, now, pr, review, entry, resolved, feedback, discussions,
                     addressed>>
  PROVE  ReviewsInv'
<1>1. /\ Reviews!Written' = Reviews!Written \union {c} /\ c \notin Reviews!Written
      /\ comments' \in [Reviews!Comment -> {Reviews!Unwritten} \union
           [kind : {"inline", "rework", "talk"}, at : 0..now', thread : Reviews!Written']]
      /\ comments'[c] = [kind |-> k, at |-> now, thread |-> t]
      /\ \A d \in Reviews!Written : comments'[d] = comments[d]
      /\ \E n \in 0..MaxComments : Reviews!Written' = 1..n
      /\ Cardinality(Reviews!Written)' = Cardinality(Reviews!Written) + 1
      /\ \A d \in Reviews!Written' : ~Reviews!Reply(comments[d].thread)'
  BY OneMore
<1>2. pc # "start"
  BY DEF ReviewsInv, Threads
<1>3. Reviews!TypeOK'
  BY <1>1 DEF ReviewsInv, Reviews!TypeOK
<1>4. Threads'
  BY <1>1, <1>2 DEF Threads
<1>5. Feedback' /\ AddressedBefore'
  BY <1>1 DEF ReviewsInv, Reviews!TypeOK, Feedback, AddressedBefore, Running
<1>6. InSight'
  <2> SUFFICES ASSUME entry.status \in Reviews!Candidate, NEW d \in Reviews!Written',
                      d \notin addressed, d \notin late'
               PROVE  \/ Excused(d)' \/ d \in feedback
                      \/ pc' \in {"start", "idle", "fetch"} /\ comments'[d].at >= entry.at
    BY DEF InSight
  <2>1. CASE d = c
    BY <1>1, <2>1, Known DEF ReviewsInv, Excused
  <2>2. CASE d \in Reviews!Written
    <3>1. Cardinality(Reviews!Written) > Page => Cardinality(Reviews!Written)' > Page
      BY <1>1, Numbered, ServiceBounds DEF ReviewsInv, Reviews!CommentBounds
    <3>2. Excused(d) => Excused(d)'
      BY <1>1, <2>2, <3>1 DEF Excused, Reviews!Reply
    <3> QED
      BY <1>1, <2>2, <3>2 DEF ReviewsInv, InSight
  <2> QED
    BY <1>1, <2>1, <2>2
<1> QED
  BY <1>3, <1>4, <1>5, <1>6 DEF ReviewsInv

LEMMA ReviewsNext == ReviewsInv /\ [Reviews!Next]_Reviews!vars => ReviewsInv'
<1> SUFFICES ASSUME ReviewsInv, [Reviews!Next]_Reviews!vars PROVE ReviewsInv'
  OBVIOUS
<1> USE DEF Reviews!world, Reviews!run, Reviews!Log, Reviews!EndRun
<1>now. /\ now \in now..MaxMinute /\ now \in 0..now
        /\ entry \in [status : Reviews!Status, at : 0..now]
        /\ \A s \in Reviews!Status : [status |-> s, at |-> now] \in [status : Reviews!Status, at : 0..now]
  BY Known, ServiceBounds DEF ReviewsInv, Reviews!TypeOK, Reviews!CommentBounds
<1>1. CASE Reviews!Deliver
  <2>1. WritesNothing
    BY <1>1, <1>now
    DEF WritesNothing, ReviewsInv, Threads, Reviews!TypeOK, Reviews!Status,
        Reviews!Deliver, Reviews!postPullRequest
  <2>2. Reviews!TypeOK' /\ Threads' /\ Reviews!Written' = Reviews!Written
        /\ \A c \in Reviews!Written : Reviews!Reply(c)' <=> Reviews!Reply(c)
    BY <2>1, Unwritten
  <2>3. Feedback' /\ AddressedBefore'
    BY <1>1, <2>2, Known
    DEF ReviewsInv, Feedback, AddressedBefore, Running, Reviews!TypeOK, Reviews!Deliver,
        Reviews!postPullRequest,
        Reviews!Candidate
  <2>4. Reviews!Written = {}
    BY <1>1 DEF ReviewsInv, Threads, Reviews!TypeOK, Reviews!Deliver
  <2>5. InSight'
    BY <2>2, <2>4 DEF InSight
  <2> QED
    BY <2>2, <2>3, <2>5 DEF ReviewsInv
<1>2. CASE Reviews!RetryPr
  <2>1. WritesNothing
    BY <1>2, <1>now
    DEF WritesNothing, ReviewsInv, Threads, Reviews!TypeOK, Reviews!Status,
        Reviews!RetryPr, Reviews!postPullRequest
  <2>2. Reviews!TypeOK' /\ Threads' /\ Reviews!Written' = Reviews!Written
        /\ \A c \in Reviews!Written : Reviews!Reply(c)' <=> Reviews!Reply(c)
    BY <2>1, Unwritten
  <2>3. Feedback' /\ AddressedBefore'
    BY <1>2, <2>2, Known
    DEF ReviewsInv, Feedback, AddressedBefore, Running, Reviews!TypeOK, Reviews!RetryPr,
        Reviews!postPullRequest,
        Reviews!Candidate
  <2>4. InSight'
    BY <1>2, <2>2, Known
    DEF ReviewsInv, InSight, Feedback, Excused, Running, Reviews!TypeOK, Reviews!RetryPr,
        Reviews!postPullRequest,
        Reviews!Candidate
  <2> QED
    BY <2>2, <2>3, <2>4 DEF ReviewsInv
<1>3. CASE Reviews!Session
  <2>1. WritesNothing
    BY <1>3, <1>now
    DEF WritesNothing, ReviewsInv, Threads, Reviews!TypeOK, Reviews!Status, Reviews!Session
  <2>2. Reviews!TypeOK' /\ Threads' /\ Reviews!Written' = Reviews!Written
        /\ \A c \in Reviews!Written : Reviews!Reply(c)' <=> Reviews!Reply(c)
    BY <2>1, Unwritten
  <2>3. Feedback' /\ AddressedBefore'
    BY <1>3, <2>2, Known
    DEF ReviewsInv, Feedback, AddressedBefore, Running, Reviews!TypeOK, Reviews!Session,
        Reviews!Candidate
  <2>4. InSight'
    BY <1>3, <2>2, Known
    DEF ReviewsInv, InSight, Feedback, Excused, Running, Reviews!TypeOK, Reviews!Session,
        Reviews!Candidate
  <2> QED
    BY <2>2, <2>3, <2>4 DEF ReviewsInv
<1>4. CASE Reviews!RunFails
  <2>1. WritesNothing
    BY <1>4, <1>now
    DEF WritesNothing, ReviewsInv, Threads, Reviews!TypeOK, Reviews!Status, Reviews!RunFails
  <2>2. Reviews!TypeOK' /\ Threads' /\ Reviews!Written' = Reviews!Written
        /\ \A c \in Reviews!Written : Reviews!Reply(c)' <=> Reviews!Reply(c)
    BY <2>1, Unwritten
  <2>3. Feedback' /\ AddressedBefore'
    BY <1>4, <2>2, Known
    DEF ReviewsInv, Feedback, AddressedBefore, Running, Reviews!TypeOK, Reviews!RunFails,
        Reviews!Candidate
  <2>4. InSight'
    BY <1>4, <2>2, Known
    DEF ReviewsInv, InSight, Feedback, Excused, Running, Reviews!TypeOK, Reviews!RunFails,
        Reviews!Candidate
  <2> QED
    BY <2>2, <2>3, <2>4 DEF ReviewsInv
<1>5. CASE Reviews!DeliverRework
  <2>1. WritesNothing
    BY <1>5, <1>now
    DEF WritesNothing, ReviewsInv, Threads, Reviews!TypeOK, Reviews!Status,
        Reviews!DeliverRework
  <2>2. Reviews!TypeOK' /\ Threads' /\ Reviews!Written' = Reviews!Written
        /\ \A c \in Reviews!Written : Reviews!Reply(c)' <=> Reviews!Reply(c)
    BY <2>1, Unwritten
  <2>3. Feedback' /\ AddressedBefore'
    BY <1>5, <2>2, Known
    DEF ReviewsInv, Feedback, AddressedBefore, Running, Reviews!TypeOK, Reviews!DeliverRework,
        Reviews!Candidate
  <2>4. InSight'
    BY <1>5, <2>2, Known
    DEF ReviewsInv, InSight, Feedback, Excused, Running, Reviews!TypeOK, Reviews!DeliverRework,
        Reviews!Candidate
  <2> QED
    BY <2>2, <2>3, <2>4 DEF ReviewsInv
<1>6. CASE Reviews!PushFails
  <2>1. WritesNothing
    BY <1>6, <1>now
    DEF WritesNothing, ReviewsInv, Threads, Reviews!TypeOK, Reviews!Status, Reviews!PushFails
  <2>2. Reviews!TypeOK' /\ Threads' /\ Reviews!Written' = Reviews!Written
        /\ \A c \in Reviews!Written : Reviews!Reply(c)' <=> Reviews!Reply(c)
    BY <2>1, Unwritten
  <2>3. Feedback' /\ AddressedBefore'
    BY <1>6, <2>2, Known
    DEF ReviewsInv, Feedback, AddressedBefore, Running, Reviews!TypeOK, Reviews!PushFails,
        Reviews!Candidate
  <2>4. InSight'
    BY <1>6, <2>2, Known
    DEF ReviewsInv, InSight, Feedback, Excused, Running, Reviews!TypeOK, Reviews!PushFails,
        Reviews!Candidate
  <2> QED
    BY <2>2, <2>3, <2>4 DEF ReviewsInv
<1>7. CASE Reviews!Crash
  <2>1. WritesNothing
    BY <1>7, <1>now
    DEF WritesNothing, ReviewsInv, Threads, Reviews!TypeOK, Reviews!Status, Reviews!Crash
  <2>2. Reviews!TypeOK' /\ Threads' /\ Reviews!Written' = Reviews!Written
        /\ \A c \in Reviews!Written : Reviews!Reply(c)' <=> Reviews!Reply(c)
    BY <2>1, Unwritten
  <2>3. Feedback' /\ AddressedBefore'
    BY <1>7, <2>2, Known
    DEF ReviewsInv, Feedback, AddressedBefore, Running, Reviews!TypeOK, Reviews!Crash,
        Reviews!Candidate
  <2>4. InSight'
    BY <1>7, <2>2, Known
    DEF ReviewsInv, InSight, Feedback, Excused, Running, Reviews!TypeOK, Reviews!Crash,
        Reviews!Candidate
  <2> QED
    BY <2>2, <2>3, <2>4 DEF ReviewsInv
<1>8. CASE Reviews!Resume
  <2>1. WritesNothing
    BY <1>8, <1>now
    DEF WritesNothing, ReviewsInv, Threads, Reviews!TypeOK, Reviews!Status, Reviews!Resume
  <2>2. Reviews!TypeOK' /\ Threads' /\ Reviews!Written' = Reviews!Written
        /\ \A c \in Reviews!Written : Reviews!Reply(c)' <=> Reviews!Reply(c)
    BY <2>1, Unwritten
  <2>3. Feedback' /\ AddressedBefore'
    BY <1>8, <2>2, Known
    DEF ReviewsInv, Feedback, AddressedBefore, Running, Reviews!TypeOK, Reviews!Resume,
        Reviews!Candidate
  <2>4. InSight'
    BY <1>8, <2>2, Known
    DEF ReviewsInv, InSight, Feedback, Excused, Running, Reviews!TypeOK, Reviews!Resume,
        Reviews!Candidate
  <2> QED
    BY <2>2, <2>3, <2>4 DEF ReviewsInv
<1>9. CASE Reviews!Review
  <2>1. WritesNothing
    BY <1>9, <1>now
    DEF WritesNothing, ReviewsInv, Threads, Reviews!TypeOK, Reviews!Status, Reviews!Review
  <2>2. Reviews!TypeOK' /\ Threads' /\ Reviews!Written' = Reviews!Written
        /\ \A c \in Reviews!Written : Reviews!Reply(c)' <=> Reviews!Reply(c)
    BY <2>1, Unwritten
  <2>3. Feedback' /\ AddressedBefore'
    BY <1>9, <2>2, Known
    DEF ReviewsInv, Feedback, AddressedBefore, Running, Reviews!TypeOK, Reviews!Review,
        Reviews!Candidate
  <2>4. InSight'
    BY <1>9, <2>2, Known
    DEF ReviewsInv, InSight, Feedback, Excused, Running, Reviews!TypeOK, Reviews!Review,
        Reviews!Candidate
  <2> QED
    BY <2>2, <2>3, <2>4 DEF ReviewsInv
<1>10. CASE Reviews!OpenByHand
  <2>1. WritesNothing
    BY <1>10, <1>now
    DEF WritesNothing, ReviewsInv, Threads, Reviews!TypeOK, Reviews!Status, Reviews!OpenByHand
  <2>2. Reviews!TypeOK' /\ Threads' /\ Reviews!Written' = Reviews!Written
        /\ \A c \in Reviews!Written : Reviews!Reply(c)' <=> Reviews!Reply(c)
    BY <2>1, Unwritten
  <2>3. Feedback' /\ AddressedBefore'
    BY <1>10, <2>2, Known
    DEF ReviewsInv, Feedback, AddressedBefore, Running, Reviews!TypeOK, Reviews!OpenByHand,
        Reviews!Candidate
  <2>4. InSight'
    BY <1>10, <2>2, Known
    DEF ReviewsInv, InSight, Feedback, Excused, Running, Reviews!TypeOK, Reviews!OpenByHand,
        Reviews!Candidate
  <2> QED
    BY <2>2, <2>3, <2>4 DEF ReviewsInv
<1>11. CASE Reviews!Close
  <2>1. WritesNothing
    BY <1>11, <1>now
    DEF WritesNothing, ReviewsInv, Threads, Reviews!TypeOK, Reviews!Status, Reviews!Close
  <2>2. Reviews!TypeOK' /\ Threads' /\ Reviews!Written' = Reviews!Written
        /\ \A c \in Reviews!Written : Reviews!Reply(c)' <=> Reviews!Reply(c)
    BY <2>1, Unwritten
  <2>3. Feedback' /\ AddressedBefore'
    BY <1>11, <2>2, Known
    DEF ReviewsInv, Feedback, AddressedBefore, Running, Reviews!TypeOK, Reviews!Close,
        Reviews!Candidate
  <2>4. InSight'
    BY <1>11, <2>2, Known
    DEF ReviewsInv, InSight, Feedback, Excused, Running, Reviews!TypeOK, Reviews!Close,
        Reviews!Candidate
  <2> QED
    BY <2>2, <2>3, <2>4 DEF ReviewsInv
<1>12. CASE Reviews!Reopen
  <2>1. WritesNothing
    BY <1>12, <1>now
    DEF WritesNothing, ReviewsInv, Threads, Reviews!TypeOK, Reviews!Status, Reviews!Reopen
  <2>2. Reviews!TypeOK' /\ Threads' /\ Reviews!Written' = Reviews!Written
        /\ \A c \in Reviews!Written : Reviews!Reply(c)' <=> Reviews!Reply(c)
    BY <2>1, Unwritten
  <2>3. Feedback' /\ AddressedBefore'
    BY <1>12, <2>2, Known
    DEF ReviewsInv, Feedback, AddressedBefore, Running, Reviews!TypeOK, Reviews!Reopen,
        Reviews!Candidate
  <2>4. InSight'
    BY <1>12, <2>2, Known
    DEF ReviewsInv, InSight, Feedback, Excused, Running, Reviews!TypeOK, Reviews!Reopen,
        Reviews!Candidate
  <2> QED
    BY <2>2, <2>3, <2>4 DEF ReviewsInv
<1>13. CASE Reviews!Tick
  <2>1. WritesNothing
    <3>1. now + 1 \in now..MaxMinute /\ 0..now \subseteq 0..now + 1
      BY <1>13, Known, ServiceBounds DEF ReviewsInv, Reviews!Tick, Reviews!CommentBounds
    <3>2. entry' \in [status : Reviews!Status, at : 0..now']
      BY <1>13, <1>now, <3>1 DEF Reviews!Tick
    <3> QED
      BY <1>13, <3>1, <3>2
      DEF WritesNothing, ReviewsInv, Threads, Reviews!TypeOK, Reviews!Tick
  <2>2. Reviews!TypeOK' /\ Threads' /\ Reviews!Written' = Reviews!Written
        /\ \A c \in Reviews!Written : Reviews!Reply(c)' <=> Reviews!Reply(c)
    BY <2>1, Unwritten
  <2>3. Feedback' /\ AddressedBefore'
    BY <1>13, <2>2, Known
    DEF ReviewsInv, Feedback, AddressedBefore, Running, Reviews!TypeOK, Reviews!Tick,
        Reviews!Candidate
  <2>4. InSight'
    BY <1>13, <2>2, Known
    DEF ReviewsInv, InSight, Feedback, Excused, Running, Reviews!TypeOK, Reviews!Tick,
        Reviews!Candidate
  <2> QED
    BY <2>2, <2>3, <2>4 DEF ReviewsInv
<1>14. CASE Reviews!resolveDiscussions
  <2>1. WritesNothing
    BY <1>14, <1>now
    DEF WritesNothing, ReviewsInv, Threads, Reviews!TypeOK, Reviews!Status,
        Reviews!resolveDiscussions, Reviews!Done
  <2>2. Reviews!TypeOK' /\ Threads' /\ Reviews!Written' = Reviews!Written
        /\ \A c \in Reviews!Written : Reviews!Reply(c)' <=> Reviews!Reply(c)
    BY <2>1, Unwritten
  <2>3. Feedback' /\ AddressedBefore'
    BY <1>14, <2>2, Known
    DEF ReviewsInv, Feedback, AddressedBefore, Running, Reviews!TypeOK,
        Reviews!resolveDiscussions, Reviews!Done,
        Reviews!Candidate
  <2>4. InSight'
    BY <1>14, <2>2, Known
    DEF ReviewsInv, InSight, Feedback, Excused, Running, Reviews!TypeOK,
        Reviews!resolveDiscussions, Reviews!Done,
        Reviews!Candidate
  <2> QED
    BY <2>2, <2>3, <2>4 DEF ReviewsInv
<1>15. CASE Reviews!requestReview
  <2>1. WritesNothing
    BY <1>15, <1>now
    DEF WritesNothing, ReviewsInv, Threads, Reviews!TypeOK, Reviews!Status,
        Reviews!requestReview, Reviews!Done
  <2>2. Reviews!TypeOK' /\ Threads' /\ Reviews!Written' = Reviews!Written
        /\ \A c \in Reviews!Written : Reviews!Reply(c)' <=> Reviews!Reply(c)
    BY <2>1, Unwritten
  <2>3. Feedback' /\ AddressedBefore'
    BY <1>15, <2>2, Known
    DEF ReviewsInv, Feedback, AddressedBefore, Running, Reviews!TypeOK,
        Reviews!requestReview, Reviews!Done,
        Reviews!Candidate
  <2>4. InSight'
    BY <1>15, <2>2, Known
    DEF ReviewsInv, InSight, Feedback, Excused, Running, Reviews!TypeOK,
        Reviews!requestReview, Reviews!Done,
        Reviews!Candidate
  <2> QED
    BY <2>2, <2>3, <2>4 DEF ReviewsInv
<1>16. CASE Reviews!noopResolve
  <2>1. WritesNothing
    BY <1>16, <1>now
    DEF WritesNothing, ReviewsInv, Threads, Reviews!TypeOK, Reviews!Status,
        Reviews!noopResolve, Reviews!Done
  <2>2. Reviews!TypeOK' /\ Threads' /\ Reviews!Written' = Reviews!Written
        /\ \A c \in Reviews!Written : Reviews!Reply(c)' <=> Reviews!Reply(c)
    BY <2>1, Unwritten
  <2>3. Feedback' /\ AddressedBefore'
    BY <1>16, <2>2, Known
    DEF ReviewsInv, Feedback, AddressedBefore, Running, Reviews!TypeOK,
        Reviews!noopResolve, Reviews!Done,
        Reviews!Candidate
  <2>4. InSight'
    BY <1>16, <2>2, Known
    DEF ReviewsInv, InSight, Feedback, Excused, Running, Reviews!TypeOK,
        Reviews!noopResolve, Reviews!Done,
        Reviews!Candidate
  <2> QED
    BY <2>2, <2>3, <2>4 DEF ReviewsInv
<1>17. ASSUME NEW p, NEW seen, Reviews!Check(p, seen) PROVE ReviewsInv'
  <2>1. WritesNothing
    BY <1>17, <1>now
    DEF WritesNothing, ReviewsInv, Threads, Reviews!TypeOK, Reviews!Status, Reviews!Check
  <2>2. Reviews!TypeOK' /\ Threads' /\ Reviews!Written' = Reviews!Written
        /\ \A c \in Reviews!Written : Reviews!Reply(c)' <=> Reviews!Reply(c)
    BY <2>1, Unwritten
  <2>3. Feedback' /\ AddressedBefore'
    BY <1>17, <2>2, Known
    DEF ReviewsInv, Feedback, AddressedBefore, Running, Reviews!TypeOK, Reviews!Check,
        Reviews!Candidate
  <2>4. InSight'
    BY <1>17, <2>2, Known
    DEF ReviewsInv, InSight, Feedback, Excused, Running, Reviews!TypeOK, Reviews!Check,
        Reviews!Candidate
  <2> QED
    BY <2>2, <2>3, <2>4 DEF ReviewsInv
<1>18. ASSUME NEW c \in Reviews!Comment, Reviews!Resolve(c) PROVE ReviewsInv'
  <2>1. WritesNothing
    BY <1>18, <1>now
    DEF WritesNothing, ReviewsInv, Threads, Reviews!TypeOK, Reviews!Status, Reviews!Resolve
  <2>2. Reviews!TypeOK' /\ Threads' /\ Reviews!Written' = Reviews!Written
        /\ \A d \in Reviews!Written : Reviews!Reply(d)' <=> Reviews!Reply(d)
    BY <2>1, Unwritten
  <2>3. Feedback' /\ AddressedBefore'
    BY <1>18, <2>2, Known
    DEF ReviewsInv, Feedback, AddressedBefore, Running, Reviews!TypeOK, Reviews!Resolve,
        Reviews!Candidate
  <2>4. InSight'
    <3> SUFFICES ASSUME entry.status \in Reviews!Candidate, NEW d \in Reviews!Written,
                        d \notin addressed, d \notin late'
                 PROVE  \/ Excused(d)' \/ d \in feedback
                        \/ pc \in {"start", "idle", "fetch"} /\ comments[d].at >= entry.at
      BY <1>18, <2>2 DEF InSight, Reviews!Resolve
    <3>1. d \notin late /\ (comments[d].thread \in resolved => comments[d].thread \in resolved')
      BY <1>18 DEF Reviews!Resolve
    <3>2. Excused(d) => Excused(d)'
      BY <1>18, <2>2, <3>1 DEF Excused, Reviews!Resolve
    <3> QED
      BY <3>1, <3>2 DEF ReviewsInv, InSight
  <2> QED
    BY <2>2, <2>3, <2>4 DEF ReviewsInv
<1>19. ASSUME NEW c \in Reviews!Comment, NEW k \in {"inline", "rework", "talk"},
              NEW t \in Reviews!Comment, Reviews!Write(c, k, t)
       PROVE  ReviewsInv'
  <2>1. pc \in {"session", "push", "actions", "threads", "crashed"} => c \in late'
    BY <1>19 DEF Reviews!Write
  <2>2. pc \in {"start", "idle", "fetch", "session", "push", "actions", "threads", "crashed"}
    BY DEF ReviewsInv, Reviews!TypeOK
  <2> QED
    BY <1>19, <2>1, <2>2, CommentAdded, Counting DEF Reviews!Write
<1>20. ASSUME NEW p, Reviews!PostComment(p) PROVE ReviewsInv'
  <2>1. CASE UNCHANGED comments
    <3>1. WritesNothing
      BY <1>20, <1>now, <2>1
      DEF WritesNothing, ReviewsInv, Threads, Reviews!TypeOK, Reviews!PostComment
    <3>2. Reviews!TypeOK' /\ Threads' /\ Reviews!Written' = Reviews!Written
          /\ \A c \in Reviews!Written : Reviews!Reply(c)' <=> Reviews!Reply(c)
      BY <3>1, Unwritten
    <3>3. Feedback' /\ AddressedBefore' /\ InSight'
      BY <1>20, <2>1, <3>2, Known
      DEF ReviewsInv, Feedback, AddressedBefore, InSight, Excused, Running,
          Reviews!TypeOK, Reviews!PostComment, Reviews!Candidate
    <3> QED
      BY <3>2, <3>3 DEF ReviewsInv
  <2>2. CASE ~UNCHANGED comments
    BY <1>20, <2>2, CommentAdded, Counting DEF Reviews!PostComment
  <2> QED
    BY <2>1, <2>2
<1>21. CASE Reviews!fetchGitHubComments
  BY <1>21, Fetched DEF Reviews!fetchGitHubComments, Reviews!Fetch, Reviews!Actionable
<1>22. CASE Reviews!fetchMrReviewComments
  <2>1. platform = "gitlab" /\ Reviews!Actionable = Reviews!gitlabFeedback
    BY <1>22 DEF Reviews!fetchMrReviewComments, Reviews!Fetch, Reviews!Actionable
  <2>2. {comments[c].thread : c \in Reviews!gitlabFeedback} \subseteq Reviews!Written
    BY <2>1, Known, NothingOld DEF ReviewsInv, Reviews!filterBySince
  <2> QED
    BY <1>22, <2>1, <2>2, Fetched DEF Reviews!fetchMrReviewComments
<1>23. CASE Reviews!fetchAzdoComments
  BY <1>23, Fetched DEF Reviews!fetchAzdoComments, Reviews!Fetch, Reviews!Actionable
<1>24. CASE Reviews!fetchBbCloudComments
  BY <1>24, Fetched DEF Reviews!fetchBbCloudComments, Reviews!Fetch, Reviews!Actionable
<1>25. CASE Reviews!fetchServerPrReviewComments
  BY <1>25, Fetched
  DEF Reviews!fetchServerPrReviewComments, Reviews!Fetch, Reviews!Actionable
<1>26. CASE UNCHANGED Reviews!vars
  <2>1. WritesNothing
    BY <1>26, <1>now
    DEF WritesNothing, ReviewsInv, Threads, Reviews!TypeOK, Reviews!vars
  <2>2. Reviews!TypeOK' /\ Threads' /\ Reviews!Written' = Reviews!Written
        /\ \A c \in Reviews!Written : Reviews!Reply(c)' <=> Reviews!Reply(c)
    BY <2>1, Unwritten
  <2> QED
    BY <1>26, <2>2
    DEF ReviewsInv, Feedback, AddressedBefore, InSight, Excused, Reviews!vars
<1> QED
  BY <1>1, <1>2, <1>3, <1>4, <1>5, <1>6, <1>7, <1>8, <1>9, <1>10, <1>11, <1>12, <1>13,
     <1>14, <1>15, <1>16, <1>17, <1>18, <1>19, <1>20, <1>21, <1>22, <1>23, <1>24, <1>25,
     <1>26
  DEF Reviews!Next, Reviews!checkPrReviewState, Reviews!checkMrReviewState,
      Reviews!checkAzdoReviewState, Reviews!checkBbCloudReviewState,
      Reviews!checkServerPrReviewState, Reviews!postGitHubComment, Reviews!postMrNote,
      Reviews!postAzdoComment, Reviews!postCloudPrComment, Reviews!postServerPrComment

(* The two properties of reviews follow.                                   *)
LEMMA ReviewsProperties == ReviewsInv => Reviews!NotWorkedOnTwice /\ Reviews!OnlyKnownLosses
<1> SUFFICES ASSUME ReviewsInv PROVE Reviews!NotWorkedOnTwice /\ Reviews!OnlyKnownLosses
  OBVIOUS
<1>1. Reviews!NotWorkedOnTwice
  BY Known
  DEF ReviewsInv, Feedback, AddressedBefore, Reviews!TypeOK, Reviews!NotWorkedOnTwice
<1>2. Reviews!OnlyKnownLosses
  <2> SUFFICES ASSUME entry.status \in Reviews!Candidate,
                      NEW c \in Reviews!Written \ (addressed \union late)
               PROVE  c \in Reviews!Actionable \union feedback \/ Excused(c)
    BY Counting DEF Reviews!OnlyKnownLosses, Excused
  <2> QED
    BY Sight DEF ReviewsInv, InSight
<1> QED
  BY <1>1, <1>2

-----------------------------------------------------------------------------
(* Labels of a ticket *)

CallType ==
  {Labels!NoCall} \union [pc : Labels!PC \ {"idle"}, add : BOOLEAN, label : Label,
                          id : Labels!Id, seen : SUBSET Labels!Id]

Named(on, l) == \E i \in on : i[1] = l

(* Which labels there are: a board that takes any name has them all; the   *)
(* others count how often each was defined.                                *)
Definitions ==
  IF Labels!Defined THEN \A l \in live : gen[l] # 0 ELSE live = Label

(* An operation r knows its label by an id of that label, and a board that *)
(* goes by names has one id for each.  The list it has read and will write *)
(* back, on is on the ticket: no label is listed twice, what is to be      *)
(* taken off is listed, and, but for the label r is to change and those in *)
(* but, it lists what is on the ticket.  GitHub never writes a list.       *)
Sound(r, on, but) ==
  r.pc # "idle" =>
    /\ r.id[1] = r.label
    /\ ~Labels!ById => r.id[2] = 0 /\ \A i \in r.seen : i[2] = 0
    /\ r.pc = "write" =>
         /\ kind # "github"
         /\ \A i, j \in r.seen : i[1] = j[1] => i = j
         /\ ~r.add => r.id \in r.seen
         /\ \A m \in Label \ but : m # r.label => (Named(on, m) <=> Named(r.seen, m))

Calls == \A c \in Client : Sound(call[c], labels, excused)

CachesFit ==
  /\ cache \in [Client -> [Label -> 0..MaxGen]] /\ listed \subseteq Client
  /\ \A c \in Client, l \in Label : cache[c][l] <= gen[l]

LabelsInv == Labels!TypeOK /\ Definitions /\ Calls /\ Labels!LastEditStands

LEMMA LabelsInit == Labels!Init => LabelsInv
<1> SUFFICES ASSUME Labels!Init PROVE LabelsInv
  OBVIOUS
<1>1. 0 \in 0..MaxGen /\ 1 \in 0..MaxGen
  BY ServiceBounds DEF Labels!LabelBounds
<1>2. /\ gen \in [Label -> 0..MaxGen]
      /\ cache \in [Client -> [Label -> 0..MaxGen]]
      /\ \A c \in Client, l \in Label : cache[c][l] <= gen[l]
      /\ call \in [Client -> CallType]
  BY <1>1 DEF Labels!Init, CallType
<1>3. Labels!TypeOK
  BY <1>2 DEF Labels!Init, Labels!TypeOK, CallType
<1>4. Definitions
  BY <1>2 DEF Labels!Init, Definitions
<1>5. Calls
  BY DEF Labels!Init, Calls, Sound, Labels!NoCall
<1>6. Labels!LastEditStands
  BY DEF Labels!Init, Labels!LastEditStands
<1> QED
  BY <1>3, <1>4, <1>5, <1>6 DEF LabelsInv

(* One client's operation goes on, to r; the others stay where they are.   *)
LEMMA CallGoesOn ==
  ASSUME Labels!TypeOK, NEW c \in Client, NEW r \in CallType,
         call' = [call EXCEPT ![c] = r]
  PROVE  /\ call' \in [Client -> CallType] /\ call'[c] = r
         /\ \A d \in Client : d # c => call'[d] = call[d]
BY DEF Labels!TypeOK, CallType

(* Only a label that is not defined is defined, and it gets an id that no  *)
(* ticket has.                                                             *)
LEMMA OneDefined ==
  ASSUME Labels!TypeOK, Definitions, NEW l \in Label, l \notin live, Labels!Define(l),
         UNCHANGED kind
  PROVE  /\ gen' \in [Label -> 0..MaxGen] /\ live' \subseteq Label
         /\ gen'[l] = gen[l] + 1 /\ \A m \in Label \ {l} : gen'[m] = gen[m]
         /\ Definitions'
         /\ {Labels!CurrentId(m) : m \in live} \subseteq {Labels!CurrentId(m) : m \in live}'
<1>1. gen[l] + 1 \in 0..MaxGen /\ gen[l] + 1 # 0
  BY ServiceBounds DEF Labels!TypeOK, Labels!LabelBounds, Labels!Define
<1>2. /\ gen' \in [Label -> 0..MaxGen] /\ live' \subseteq Label
      /\ gen'[l] = gen[l] + 1 /\ \A m \in Label \ {l} : gen'[m] = gen[m]
  BY <1>1 DEF Labels!TypeOK, Labels!Define
<1>3. Definitions'
  BY <1>1, <1>2 DEF Labels!TypeOK, Labels!Define, Definitions, Labels!Defined
<1>4. \A m \in live : m \in live' /\ Labels!CurrentId(m)' = Labels!CurrentId(m)
  BY <1>2 DEF Labels!TypeOK, Labels!Define, Labels!CurrentId, Labels!IdOf, Labels!ById
<1> QED
  BY <1>2, <1>3, <1>4

(* An edit of the label l that the ticket shows.  Whoever holds a list     *)
(* meanwhile excuses l, so that every held list is still right.            *)
LEMMA EditStands ==
  ASSUME LabelsInv, NEW l \in Label, NEW on \in BOOLEAN, NEW others \in SUBSET Client,
         Labels!Edited(l, on, others), UNCHANGED kind,
         \A m \in Label \ excused : m # l => (Named(labels', m) <=> Named(labels, m)),
         Named(labels', l) <=> on
  PROVE  /\ last' \subseteq Label /\ excused' \subseteq Label
         /\ Labels!LastEditStands'
         /\ \A d \in others : Sound(call[d], labels', excused')
<1>1. last' \subseteq Label /\ excused' \subseteq Label
  BY DEF LabelsInv, Labels!TypeOK, Labels!Edited
<1>2. \A m \in Label \ excused' : m \in last' <=> Named(labels', m)
  <2> SUFFICES ASSUME NEW m \in Label, m \notin excused'
               PROVE  m \in last' <=> Named(labels', m)
    OBVIOUS
  <2>1. CASE m = l
    BY <2>1 DEF Labels!Edited
  <2>2. CASE m # l
    BY <2>2
    DEF Labels!Edited, LabelsInv, Labels!LastEditStands, Labels!OnTicket, Named
  <2> QED
    BY <2>1, <2>2
<1>3. kind = "github" => excused' = {}
  BY DEF Labels!Edited, Labels!Holding, LabelsInv, Labels!LastEditStands, Calls, Sound
<1>4. Labels!LastEditStands'
  BY <1>2, <1>3 DEF Labels!LastEditStands, Labels!OnTicket, Named
<1>5. ASSUME NEW d \in others PROVE Sound(call[d], labels', excused')
  <2>1. Sound(call[d], labels, excused)
    BY DEF LabelsInv, Calls
  <2>2. call[d].pc = "write" => l \in excused' /\ excused \subseteq excused'
    BY DEF Labels!Edited, Labels!Holding
  <2> QED
    BY <2>1, <2>2 DEF Sound
<1> QED
  BY <1>1, <1>4, <1>5

LEMMA CallsFollow ==
  ASSUME UNCHANGED kind, \A d \in Client : Sound(call'[d], labels', excused')
  PROVE  Calls'
BY DEF Calls, Sound, Labels!ById

(* A step of one client that shows neither on the ticket nor to people.    *)
LEMMA QuietChange ==
  ASSUME LabelsInv, NEW c \in Client,
         call' \in [Client -> CallType], \A d \in Client : d # c => call'[d] = call[d],
         Sound(call'[c], labels, excused),
         UNCHANGED <<kind, labels, last, excused>>,
         \/ UNCHANGED <<gen, live>>
         \/ \E l \in Label : l \notin live /\ Labels!Define(l),
         CachesFit'
  PROVE  LabelsInv'
<1>2. /\ gen' \in [Label -> 0..MaxGen] /\ live' \subseteq Label /\ Definitions'
      /\ labels' \subseteq {Labels!CurrentId(m) : m \in live}'
  <2>1. CASE UNCHANGED <<gen, live>>
    BY <2>1
    DEF LabelsInv, Labels!TypeOK, Definitions, Labels!Defined, Labels!CurrentId,
        Labels!IdOf, Labels!ById
  <2>2. CASE \E l \in Label : l \notin live /\ Labels!Define(l)
    BY <2>2, OneDefined DEF LabelsInv, Labels!TypeOK
  <2> QED
    BY <2>1, <2>2
<1>3. Labels!TypeOK'
  BY <1>2 DEF LabelsInv, Labels!TypeOK, CallType, CachesFit
<1>4. Calls'
  BY CallsFollow DEF LabelsInv, Calls
<1>5. Labels!LastEditStands'
  BY DEF LabelsInv, Labels!LastEditStands, Labels!OnTicket
<1> QED
  BY <1>2, <1>3, <1>4, <1>5 DEF LabelsInv

LEMMA QuietStep ==
  ASSUME LabelsInv, NEW c \in Client, NEW r \in CallType,
         call' = [call EXCEPT ![c] = r], Sound(r, labels, excused),
         UNCHANGED <<kind, labels, last, excused>>,
         \/ UNCHANGED <<gen, live>>
         \/ \E l \in Label : l \notin live /\ Labels!Define(l),
         CachesFit'
  PROVE  LabelsInv'
<1>1. /\ call' \in [Client -> CallType] /\ call'[c] = r
      /\ \A d \in Client : d # c => call'[d] = call[d]
  BY CallGoesOn DEF LabelsInv
<1> QED
  BY <1>1, QuietChange

(* An operation that finds nothing to do says what is on the ticket,       *)
(* unless it went by an id that is no longer the label's.                  *)
LEMMA EndStep ==
  ASSUME LabelsInv, NEW c \in Client, NEW g, Labels!EndUnchanged(c, g),
         call[c].pc # "idle", kind # "github",
         LET l == call[c].label IN
           ~(l \in live /\ g # gen[l]) => (Named(labels, l) <=> call[c].add),
         UNCHANGED <<kind, gen, live, labels>>,
         CachesFit'
  PROVE  LabelsInv'
<1> DEFINE l == call[c].label
<1>1. l \in Label /\ call[c].add \in BOOLEAN
  BY DEF LabelsInv, Labels!TypeOK, Labels!NoCall
<1>2. /\ call' \in [Client -> CallType] /\ call'[c] = Labels!NoCall
      /\ \A d \in Client : d # c => call'[d] = call[d]
  BY CallGoesOn DEF LabelsInv, CallType, Labels!EndUnchanged, Labels!Return
<1>3. /\ last' \subseteq Label /\ excused' \subseteq Label
      /\ Labels!LastEditStands'
      /\ \A d \in Client \ {c} : Sound(call[d], labels', excused')
  <2>1. CASE l \in live /\ g # gen[l]
    <3>1. last' = last /\ excused' = excused \union {l}
      BY <2>1 DEF Labels!EndUnchanged
    <3> QED
      BY <1>1, <3>1
      DEF LabelsInv, Labels!TypeOK, Labels!LastEditStands, Labels!OnTicket, Calls, Sound
  <2>2. CASE ~(l \in live /\ g # gen[l])
    <3>1. Labels!Edited(l, call[c].add, Client \ {c})
      BY <2>2 DEF Labels!EndUnchanged
    <3> QED
      BY <1>1, <2>2, <3>1, EditStands
  <2> QED
    BY <2>1, <2>2
<1>4. Labels!TypeOK' /\ Definitions'
  BY <1>2, <1>3
  DEF LabelsInv, Labels!TypeOK, CallType, CachesFit, Definitions, Labels!Defined,
      Labels!CurrentId, Labels!IdOf, Labels!ById
<1>5. Calls'
  BY <1>2, <1>3, CallsFollow DEF Sound, Labels!NoCall
<1> QED
  BY <1>3, <1>4, <1>5 DEF LabelsInv

(* A list that is written back changes the one label it was read for.      *)
LEMMA PutStep ==
  ASSUME LabelsInv, NEW c \in Client, Labels!Put(c),
         Labels!Updated(c) \subseteq {Labels!CurrentId(m) : m \in live},
         Labels!Return(c) \/ UNCHANGED call
  PROVE  LabelsInv'
<1> DEFINE l == call[c].label
<1>1. l \in Label /\ call[c].add \in BOOLEAN
  BY DEF LabelsInv, Labels!TypeOK, Labels!NoCall, Labels!Put
<1>2. Sound(call[c], labels, excused) /\ call[c].pc = "write"
  BY DEF LabelsInv, Calls, Labels!Put
<1>3. /\ call' \in [Client -> CallType] /\ call'[c] \in {call[c], Labels!NoCall}
      /\ \A d \in Client : d # c => call'[d] = call[d]
  <2>1. CASE Labels!Return(c)
    BY <2>1, CallGoesOn DEF LabelsInv, CallType, Labels!Return
  <2>2. CASE UNCHANGED call
    BY <2>2 DEF LabelsInv, Labels!TypeOK, CallType
  <2> QED
    BY <2>1, <2>2
<1>4. labels' = Labels!Updated(c)
  BY DEF Labels!Put
<1>5. \A m \in Label : m # l => (Named(labels', m) <=> Named(call[c].seen, m))
  BY <1>2, <1>4 DEF Labels!Updated, Named, Sound
<1>6. Named(labels', l) <=> call[c].add
  BY <1>1, <1>2, <1>4 DEF Labels!Updated, Named, Sound
<1>7. /\ last' \subseteq Label /\ excused' \subseteq Label
      /\ Labels!LastEditStands'
      /\ \A d \in Client \ {c} : Sound(call[d], labels', excused')
  <2>1. \A m \in Label \ excused : m # l => (Named(labels', m) <=> Named(labels, m))
    BY <1>2, <1>5 DEF Sound
  <2>2. Labels!Edited(l, call[c].add, Client \ {c}) /\ UNCHANGED kind
    BY DEF Labels!Put
  <2> QED
    BY <1>1, <1>6, <2>1, <2>2, EditStands
<1>8. Sound(call'[c], labels', excused')
  BY <1>2, <1>3, <1>5 DEF Sound, Labels!NoCall
<1>9. Labels!TypeOK' /\ Definitions'
  BY <1>3, <1>4, <1>7
  DEF LabelsInv, Labels!TypeOK, CallType, Definitions, Labels!Defined, Labels!CurrentId,
      Labels!IdOf, Labels!ById, Labels!Put, Labels!caches
<1>10. Calls'
  BY <1>3, <1>7, <1>8, CallsFollow DEF Labels!Put
<1> QED
  BY <1>7, <1>9, <1>10 DEF LabelsInv

(* What there is to know of labels on a ticket: each is there once, under  *)
(* the id that it has now.                                                 *)
LEMMA OnTheTicket ==
  ASSUME Labels!TypeOK
  PROVE  /\ \A l \in Label : Named(labels, l) <=> l \in live /\ Labels!CurrentId(l) \in labels
         /\ \A i, j \in labels : i[1] = j[1] => i = j
         /\ \A i \in labels : i[1] \in Label /\ i = Labels!CurrentId(i[1]) /\ i \in Labels!Id
         /\ ~Labels!ById => \A i \in labels : i[2] = 0
<1>1. \A i \in labels : \E m \in live : i = Labels!CurrentId(m)
  BY DEF Labels!TypeOK
<1>2. \A m \in Label : Labels!CurrentId(m) = <<m, IF Labels!ById THEN gen[m] ELSE 0>>
  BY DEF Labels!CurrentId, Labels!IdOf
<1>3. \A i \in labels : i[1] \in live /\ i = Labels!CurrentId(i[1]) /\ i[1] \in Label
  BY <1>1, <1>2 DEF Labels!TypeOK
<1>4. \A m \in Label : Labels!CurrentId(m) \in Labels!Id
  BY <1>2, ServiceBounds DEF Labels!TypeOK, Labels!Id, Labels!LabelBounds
<1> QED
  BY <1>2, <1>3, <1>4 DEF Named

(* An operation that is under way, and what becomes of it by a Goto.       *)
LEMMA UnderWay ==
  ASSUME Labels!TypeOK, NEW c \in Client, call[c].pc # "idle", NEW p \in Labels!PC \ {"idle"}
  PROVE  /\ call[c].label \in Label /\ call[c].add \in BOOLEAN
         /\ call[c].id \in Labels!Id /\ call[c].seen \in SUBSET Labels!Id
         /\ [call[c] EXCEPT !.pc = p] \in CallType
         /\ [call[c] EXCEPT !.pc = p] = [pc |-> p, add |-> call[c].add,
              label |-> call[c].label, id |-> call[c].id, seen |-> call[c].seen]
         /\ Labels!Goto(c, p) => call' = [call EXCEPT ![c] = [call[c] EXCEPT !.pc = p]]
<1>1. call[c] \in [pc : Labels!PC \ {"idle"}, add : BOOLEAN, label : Label,
                   id : Labels!Id, seen : SUBSET Labels!Id]
  BY DEF Labels!TypeOK, Labels!NoCall
<1> QED
  BY <1>1 DEF CallType, Labels!Goto, Labels!TypeOK

LEMMA CachesKept ==
  ASSUME Labels!TypeOK, Definitions, UNCHANGED <<kind, cache, listed>>,
         \/ UNCHANGED <<gen, live>>
         \/ \E l \in Label : l \notin live /\ Labels!Define(l)
  PROVE  CachesFit'
<1>1. gen' \in [Label -> 0..MaxGen] /\ \A l \in Label : gen[l] <= gen'[l]
  <2>1. CASE UNCHANGED <<gen, live>>
    BY <2>1, ServiceBounds DEF Labels!TypeOK, Labels!LabelBounds
  <2>2. CASE \E l \in Label : l \notin live /\ Labels!Define(l)
    BY <2>2, OneDefined, ServiceBounds DEF Labels!TypeOK, Labels!LabelBounds
  <2> QED
    BY <2>1, <2>2
<1>2. \A c \in Client, l \in Label :
        cache'[c][l] \in Nat /\ gen[l] \in Nat /\ gen'[l] \in Nat /\ cache'[c][l] <= gen[l]
  BY <1>1, ServiceBounds DEF Labels!TypeOK, Labels!LabelBounds
<1> QED
  BY <1>1, <1>2 DEF CachesFit, Labels!TypeOK

LEMMA GotoStep ==
  ASSUME LabelsInv, NEW c \in Client, call[c].pc # "idle",
         NEW p \in Labels!PC \ {"idle", "write"}, Labels!Goto(c, p),
         UNCHANGED <<kind, labels, last, excused>>,
         \/ UNCHANGED <<gen, live>>
         \/ \E l \in Label : l \notin live /\ Labels!Define(l),
         CachesFit'
  PROVE  LabelsInv'
<1> DEFINE r == [call[c] EXCEPT !.pc = p]
<1>1. /\ r \in CallType /\ call' = [call EXCEPT ![c] = r]
      /\ r = [pc |-> p, add |-> call[c].add, label |-> call[c].label,
              id |-> call[c].id, seen |-> call[c].seen]
  BY UnderWay DEF LabelsInv
<1>2. Sound(r, labels, excused)
  BY <1>1 DEF LabelsInv, Calls, Sound
<1> HIDE DEF r
<1> QED
  BY <1>1, <1>2, QuietStep

(* The list is read, to be written with one change.                        *)
LEMMA ReadStep ==
  ASSUME LabelsInv, NEW c \in Client, call[c].pc = "read", kind # "github",
         NEW id \in Labels!Id, id[1] = call[c].label, ~Labels!ById => id[2] = 0,
         ~((id \in labels) = call[c].add), Labels!Reading(c, id),
         UNCHANGED <<kind, gen, live, labels, cache, listed>>
  PROVE  LabelsInv'
<1> DEFINE r == [pc |-> "write", add |-> call[c].add, label |-> call[c].label,
                 id |-> id, seen |-> labels]
<1>1. call[c] \in [pc : Labels!PC \ {"idle"}, add : BOOLEAN, label : Label,
                   id : Labels!Id, seen : SUBSET Labels!Id]
  BY DEF LabelsInv, Labels!TypeOK, Labels!NoCall
<1>2. labels \in SUBSET Labels!Id
  BY OnTheTicket DEF LabelsInv
<1>3. r \in CallType
  BY <1>1, <1>2 DEF CallType, Labels!PC
<1>4. call' = [call EXCEPT ![c] = r]
  BY <1>1 DEF Labels!Reading, LabelsInv, Labels!TypeOK
<1>5. Sound(r, labels, excused)
  BY <1>1, OnTheTicket DEF LabelsInv, Sound
<1>6. CachesFit'
  BY CachesKept DEF LabelsInv
<1> HIDE DEF r
<1> QED
  BY <1>3, <1>4, <1>5, <1>6, QuietStep DEF Labels!Reading

(* The list is read and left, by the id the label has or by one that the   *)
(* client kept: g says which.                                              *)
LEMMA LeaveStep ==
  ASSUME LabelsInv, NEW c \in Client, call[c].pc = "read", kind # "github",
         NEW id \in Labels!Id, id[1] = call[c].label, NEW g,
         g = gen[call[c].label] => id = Labels!CurrentId(call[c].label),
         (id \in labels) = call[c].add, Labels!EndUnchanged(c, g),
         UNCHANGED <<kind, gen, live, labels, cache, listed>>
  PROVE  LabelsInv'
<1> DEFINE l == call[c].label
<1>1. l \in Label /\ call[c].add \in BOOLEAN
  BY DEF LabelsInv, Labels!TypeOK, Labels!NoCall
<1>2. ~(l \in live /\ g # gen[l]) => (Named(labels, l) <=> call[c].add)
  <2>1. CASE l \notin live
    BY <1>1, <2>1, OnTheTicket DEF LabelsInv, Named
  <2>2. CASE l \in live /\ g = gen[l]
    BY <1>1, <2>2, OnTheTicket DEF LabelsInv
  <2> QED
    BY <2>1, <2>2
<1>3. CachesFit'
  BY CachesKept DEF LabelsInv
<1> QED
  BY <1>2, <1>3, EndStep

(* fetchLabels keeps the ids of its answer.                                *)
LEMMA ListFetched ==
  ASSUME LabelsInv, NEW c \in Client, NEW refresh, Labels!fetchLabels(c, refresh),
         UNCHANGED <<kind, gen, live>>
  PROVE  CachesFit'
<1>1. CASE UNCHANGED <<cache, listed>>
  BY <1>1, CachesKept DEF LabelsInv
<1>2. CASE listed' = listed \union {c} /\ cache' = [cache EXCEPT ![c] = Labels!Fetched]
  <2>1. Labels!Fetched \in [Label -> 0..MaxGen] /\ \A l \in Label : Labels!Fetched[l] <= gen[l]
    BY ServiceBounds DEF LabelsInv, Labels!TypeOK, Labels!Fetched, Labels!LabelBounds
  <2> QED
    BY <1>2, <2>1 DEF LabelsInv, Labels!TypeOK, CachesFit
<1> QED
  BY <1>1, <1>2 DEF Labels!fetchLabels, Labels!caches

LEMMA OneCached ==
  ASSUME LabelsInv, NEW c \in Client, NEW l \in Label, UNCHANGED listed,
         cache' = [cache EXCEPT ![c][l] = gen'[l]],
         gen' \in [Label -> 0..MaxGen], \A m \in Label : gen[m] <= gen'[m]
  PROVE  CachesFit'
<1>1. cache' \in [Client -> [Label -> 0..MaxGen]]
  BY DEF LabelsInv, Labels!TypeOK
<1>2. ASSUME NEW d \in Client, NEW m \in Label PROVE cache'[d][m] <= gen'[m]
  <2>1. /\ gen[m] \in Nat /\ gen'[m] \in Nat /\ gen[m] <= gen'[m]
        /\ cache[d][m] \in Nat /\ cache[d][m] <= gen[m]
    BY ServiceBounds DEF LabelsInv, Labels!TypeOK, Labels!LabelBounds
  <2>2. CASE d = c /\ m = l
    BY <2>1, <2>2 DEF LabelsInv, Labels!TypeOK
  <2>3. CASE ~(d = c /\ m = l)
    <3>1. cache'[d][m] = cache[d][m]
      BY <2>3 DEF LabelsInv, Labels!TypeOK
    <3> QED
      BY <2>1, <3>1
  <2> QED
    BY <2>2, <2>3
<1> QED
  BY <1>1, <1>2 DEF CachesFit, LabelsInv, Labels!TypeOK

LEMMA LabelsNext == LabelsInv /\ [Labels!Next]_Labels!vars => LabelsInv'
<1> SUFFICES ASSUME LabelsInv, [Labels!Next]_Labels!vars PROVE LabelsInv'
  OBVIOUS
<1> USE DEF Labels!world, Labels!caches, Labels!ghosts
<1>pc. {"read", "write", "ensure", "create", "send", "resolve", "refresh"} \subseteq Labels!PC \ {"idle"}
  BY DEF Labels!PC
<1>kept. UNCHANGED <<kind, gen, live, cache, listed>> => CachesFit'
  BY CachesKept DEF LabelsInv
<1>1. ASSUME NEW c \in Client, NEW add \in BOOLEAN, NEW l \in Label, Labels!Call(c, add, l)
      PROVE  LabelsInv'
  <2> DEFINE r == [pc |-> Labels!FirstStep(add), add |-> add, label |-> l,
                   id |-> <<l, 0>>, seen |-> {}]
  <2>1. Labels!FirstStep(add) \in Labels!PC \ {"idle", "write"}
    BY DEF LabelsInv, Labels!TypeOK, Labels!Kind, Labels!PC, Labels!FirstStep
  <2>2. r \in CallType
    BY <2>1, ServiceBounds DEF CallType, Labels!Id, Labels!LabelBounds
  <2>3. Sound(r, labels, excused)
    BY <2>1 DEF Sound
  <2>4. call' = [call EXCEPT ![c] = r] /\ UNCHANGED <<kind, gen, live, labels, cache, listed, last, excused>>
    BY <1>1 DEF Labels!Call
  <2> HIDE DEF r
  <2> QED
    BY <1>kept, <2>2, <2>3, <2>4, QuietStep
<1>2. ASSUME NEW c \in Client, Labels!GitHubEnsure(c) PROVE LabelsInv'
  BY <1>2, <1>pc, <1>kept, GotoStep DEF Labels!GitHubEnsure
<1>3. ASSUME NEW c \in Client, Labels!GitHubCreate(c) PROVE LabelsInv'
  <2>1. call[c].label \in Label
    BY <1>3 DEF Labels!GitHubCreate, LabelsInv, Labels!TypeOK, Labels!NoCall
  <2>2. UNCHANGED <<gen, live>> \/ \E l \in Label : l \notin live /\ Labels!Define(l)
    BY <1>3, <2>1 DEF Labels!GitHubCreate
  <2>3. CachesFit'
    BY <1>3, <2>2, CachesKept DEF LabelsInv, Labels!GitHubCreate
  <2> QED
    BY <1>3, <1>pc, <2>2, <2>3, GotoStep DEF Labels!GitHubCreate
<1>4. ASSUME NEW c \in Client, Labels!safeLabel(c) PROVE LabelsInv'
  <2>1. Labels!NoCall \in CallType /\ Sound(Labels!NoCall, labels, excused)
    BY DEF CallType, Sound, Labels!NoCall
  <2> QED
    BY <1>4, <1>kept, <2>1, QuietStep DEF Labels!safeLabel, Labels!Return
<1>5. ASSUME NEW c \in Client, Labels!LinearEnsure(c) PROVE LabelsInv'
  <2>1. call[c].label \in Label
    BY <1>5 DEF Labels!LinearEnsure, LabelsInv, Labels!TypeOK, Labels!NoCall
  <2>2. CASE UNCHANGED cache
    BY <1>5, <1>pc, <1>kept, <2>2, GotoStep DEF Labels!LinearEnsure
  <2>3. CASE cache' = [cache EXCEPT ![c][call[c].label] = gen[call[c].label]]
    <3>1. gen' = gen /\ gen \in [Label -> 0..MaxGen] /\ \A m \in Label : gen[m] <= gen[m]
      BY <1>5, ServiceBounds
      DEF Labels!LinearEnsure, LabelsInv, Labels!TypeOK, Labels!LabelBounds
    <3>2. CachesFit'
      BY <1>5, <2>1, <2>3, <3>1, OneCached DEF Labels!LinearEnsure
    <3> QED
      BY <1>5, <1>pc, <3>2, GotoStep DEF Labels!LinearEnsure
  <2> QED
    BY <1>5, <2>2, <2>3 DEF Labels!LinearEnsure
<1>6. ASSUME NEW c \in Client, Labels!LinearCreate(c) PROVE LabelsInv'
  <2> DEFINE l == call[c].label
  <2>1. l \in Label
    BY <1>6 DEF Labels!LinearCreate, LabelsInv, Labels!TypeOK, Labels!NoCall
  <2>2. CASE Labels!safeLabel(c)
    BY <1>4, <2>2
  <2>3. CASE /\ l \notin live /\ Labels!Define(l) /\ Labels!Goto(c, "read")
             /\ cache' = [cache EXCEPT ![c][l] = gen'[l]]
             /\ UNCHANGED <<kind, labels, listed, last, excused>>
    <3>1. gen' \in [Label -> 0..MaxGen] /\ \A m \in Label : gen[m] <= gen'[m]
      BY <2>1, <2>3, OneDefined, ServiceBounds
      DEF LabelsInv, Labels!TypeOK, Labels!LabelBounds
    <3>2. CachesFit'
      BY <2>1, <2>3, <3>1, OneCached
    <3> QED
      BY <1>6, <1>pc, <2>1, <2>3, <3>2, GotoStep DEF Labels!LinearCreate
  <2> QED
    BY <1>6, <2>2, <2>3 DEF Labels!LinearCreate
<1>7. ASSUME NEW c \in Client, Labels!LinearRead(c) PROVE LabelsInv'
  <2> DEFINE l == call[c].label
             g == IF cache[c][l] # 0 THEN cache[c][l] ELSE gen[l]
             id == <<l, g>>
  <2>1. kind = "linear" /\ call[c].pc = "read" /\ Labels!ById
        /\ UNCHANGED <<kind, gen, live, labels, cache, listed>>
    BY <1>7 DEF Labels!LinearRead, Labels!ById
  <2>2. l \in Label
    BY <2>1 DEF LabelsInv, Labels!TypeOK, Labels!NoCall
  <2>3. id \in Labels!Id /\ id[1] = l /\ (g = gen[l] => id = Labels!CurrentId(l))
    BY <2>1, <2>2 DEF LabelsInv, Labels!TypeOK, Labels!Id, Labels!CurrentId, Labels!IdOf
  <2>4. IF (id \in labels) = call[c].add THEN Labels!EndUnchanged(c, g)
        ELSE Labels!Reading(c, id)
    BY <1>7 DEF Labels!LinearRead
  <2> HIDE DEF g, id
  <2>5. CASE (id \in labels) = call[c].add
    BY <2>1, <2>3, <2>4, <2>5, LeaveStep
  <2>6. CASE ~((id \in labels) = call[c].add)
    BY <2>1, <2>3, <2>4, <2>6, ReadStep
  <2> QED
    BY <2>5, <2>6
<1>8. ASSUME NEW c \in Client, Labels!ShortcutEnsure(c) PROVE LabelsInv'
  BY <1>8, <1>pc, ListFetched, GotoStep DEF Labels!ShortcutEnsure
<1>9. ASSUME NEW c \in Client, Labels!ShortcutCreate(c) PROVE LabelsInv'
  <2>1. call[c].label \in Label
    BY <1>9 DEF Labels!ShortcutCreate, LabelsInv, Labels!TypeOK, Labels!NoCall
  <2>2. UNCHANGED <<gen, live>> \/ \E l \in Label : l \notin live /\ Labels!Define(l)
    BY <1>9, <2>1 DEF Labels!ShortcutCreate
  <2>3. CachesFit'
    BY <1>9, <2>2, CachesKept DEF LabelsInv, Labels!ShortcutCreate
  <2> QED
    BY <1>9, <1>pc, <2>2, <2>3, GotoStep DEF Labels!ShortcutCreate
<1>10. ASSUME NEW c \in Client, Labels!ShortcutRefresh(c) PROVE LabelsInv'
  BY <1>10, <1>pc, ListFetched, GotoStep DEF Labels!ShortcutRefresh
<1>11. ASSUME NEW c \in Client, Labels!ShortcutResolve(c) PROVE LabelsInv'
  <2> DEFINE l == call[c].label
             id == <<l, Labels!FoundId(c)>>
  <2>1. /\ kind = "shortcut" /\ Labels!ById /\ Labels!Defined /\ call[c].pc = "resolve"
        /\ UNCHANGED <<kind, gen, live, labels>>
    BY <1>11 DEF Labels!ShortcutResolve, Labels!ById, Labels!Defined
  <2>2. call[c] \in [pc : Labels!PC \ {"idle"}, add : BOOLEAN, label : Label,
                     id : Labels!Id, seen : SUBSET Labels!Id]
    BY <2>1 DEF LabelsInv, Labels!TypeOK, Labels!NoCall
  <2>3. CachesFit'
    BY <1>11, <2>1, ListFetched DEF Labels!ShortcutResolve
  <2>4. CASE /\ Labels!FoundId(c) # 0 /\ UNCHANGED <<last, excused>>
             /\ call' = [call EXCEPT ![c].pc = "read", ![c].id = id]
    <3> HIDE DEF id
    <3>1. id \in Labels!Id /\ id[1] = l
      BY <2>2, <2>3, <2>4 DEF CachesFit, Labels!FoundId, Labels!Id, id
    <3>2. call' \in [Client -> CallType] /\ \A d \in Client : d # c => call'[d] = call[d]
      BY <2>2, <2>4, <3>1, <1>pc DEF CallType, LabelsInv, Labels!TypeOK
    <3>3. call'[c].pc = "read" /\ call'[c].id = id /\ call'[c].label = l
      BY <2>2, <2>4 DEF LabelsInv, Labels!TypeOK
    <3>4. Sound(call'[c], labels, excused)
      BY <2>1, <3>1, <3>3 DEF Sound
    <3> QED
      BY <2>1, <2>3, <2>4, <3>2, <3>4, QuietChange
  <2>5. CASE ~call[c].add /\ Labels!EndUnchanged(c, 0)
    <3>1. ~(l \in live /\ 0 # gen[l]) => (Named(labels, l) <=> call[c].add)
      BY <2>1, <2>2, <2>5, OnTheTicket DEF LabelsInv, Definitions
    <3> QED
      BY <2>1, <2>3, <2>5, <3>1, EndStep
  <2>6. CASE Labels!Return(c) /\ UNCHANGED <<last, excused>>
    <3>1. Labels!NoCall \in CallType /\ Sound(Labels!NoCall, labels, excused)
      BY DEF CallType, Sound, Labels!NoCall
    <3> QED
      BY <2>1, <2>3, <2>6, <3>1, QuietStep DEF Labels!Return
  <2> QED
    BY <1>11, <2>4, <2>5, <2>6 DEF Labels!ShortcutResolve
<1>12. ASSUME NEW c \in Client, NEW id, Labels!modifyLabelList(c, id),
              kind # "github", Labels!ById => id = call[c].id,
              ~Labels!ById => id = Labels!byName(c)
       PROVE  LabelsInv'
  <2> DEFINE l == call[c].label
             g == IF Labels!ById THEN id[2] ELSE gen[l]
  <2>1. call[c].pc = "read" /\ UNCHANGED <<kind, gen, live, labels, cache, listed>>
    BY <1>12 DEF Labels!modifyLabelList
  <2>2. l \in Label /\ call[c].id \in Labels!Id /\ call[c].id[1] = l
    BY <2>1 DEF LabelsInv, Labels!TypeOK, Labels!NoCall, Calls, Sound
  <2>3. id \in Labels!Id /\ id[1] = l /\ (~Labels!ById => id[2] = 0)
    BY <1>12, <2>2, ServiceBounds DEF Labels!byName, Labels!Id, Labels!LabelBounds
  <2>4. g = gen[l] => id = Labels!CurrentId(l)
    BY <2>3 DEF Labels!CurrentId, Labels!IdOf, Labels!Id
  <2>5. IF (id \in labels) = call[c].add THEN Labels!EndUnchanged(c, g)
        ELSE Labels!Reading(c, id)
    BY <1>12 DEF Labels!modifyLabelList
  <2> HIDE DEF g
  <2>6. CASE (id \in labels) = call[c].add
    BY <1>12, <2>1, <2>3, <2>4, <2>5, <2>6, LeaveStep
  <2>7. CASE ~((id \in labels) = call[c].add)
    BY <1>12, <2>1, <2>3, <2>5, <2>7, ReadStep
  <2> QED
    BY <2>6, <2>7
<1>13. ASSUME NEW c \in Client, Labels!Put(c), ~Labels!ById,
              Labels!Return(c) \/ UNCHANGED call
       PROVE  LabelsInv'
  <2>1. call[c] \in [pc : Labels!PC \ {"idle"}, add : BOOLEAN, label : Label,
                     id : Labels!Id, seen : SUBSET Labels!Id]
    BY <1>13 DEF Labels!Put, LabelsInv, Labels!TypeOK, Labels!NoCall
  <2>2. kind # "github" /\ call[c].id[2] = 0 /\ \A i \in call[c].seen : i[2] = 0
    BY <1>13, <2>1 DEF Labels!Put, LabelsInv, Calls, Sound
  <2>3. live = Label
    BY <1>13, <2>2 DEF LabelsInv, Definitions, Labels!Defined, Labels!ById
  <2>4. \A i \in Labels!Id : i[2] = 0 => i[1] \in live /\ i = Labels!CurrentId(i[1])
    BY <1>13, <2>3 DEF Labels!Id, Labels!CurrentId, Labels!IdOf
  <2>5. \A i \in Labels!Updated(c) : i \in Labels!Id /\ i[2] = 0
    BY <2>1, <2>2 DEF Labels!Updated
  <2> QED
    BY <1>13, <2>4, <2>5, PutStep
<1>14. ASSUME NEW c \in Client, Labels!PutIds(c), Labels!Return(c) PROVE LabelsInv'
  BY <1>14, PutStep DEF Labels!PutIds
<1>15. ASSUME NEW c \in Client, Labels!GitHubSend(c) PROVE LabelsInv'
  <2>0. PICK l \in Label : l = call[c].label
    BY <1>15 DEF Labels!GitHubSend, LabelsInv, Labels!TypeOK, Labels!NoCall
  <2>1. call[c].add \in BOOLEAN /\ ~Labels!ById /\ Labels!CurrentId(l) = <<l, 0>>
    BY <1>15
    DEF Labels!GitHubSend, LabelsInv, Labels!TypeOK, Labels!NoCall, Labels!ById,
        Labels!CurrentId, Labels!IdOf
  <2>2. UNCHANGED <<gen, live>> \/ (l \notin live /\ Labels!Define(l))
    BY <1>15, <2>0 DEF Labels!GitHubSend
  <2>3. CachesFit'
    BY <1>15, <2>1, <2>2, CachesKept DEF LabelsInv, Labels!GitHubSend
  <2>4. /\ gen' \in [Label -> 0..MaxGen] /\ live' \subseteq Label /\ Definitions'
        /\ {Labels!CurrentId(m) : m \in live} \subseteq {Labels!CurrentId(m) : m \in live}'
    <3>1. CASE UNCHANGED <<gen, live>>
      BY <1>15, <2>1, <3>1
      DEF Labels!GitHubSend, LabelsInv, Labels!TypeOK, Definitions, Labels!Defined,
          Labels!CurrentId, Labels!IdOf, Labels!ById
    <3>2. CASE l \notin live /\ Labels!Define(l)
      BY <1>15, <2>1, <3>2, OneDefined DEF Labels!GitHubSend, LabelsInv
    <3> QED
      BY <2>2, <3>1, <3>2
  <2>5. /\ labels' \subseteq {Labels!CurrentId(m) : m \in live}'
        /\ \A m \in Label : m # l => (Named(labels', m) <=> Named(labels, m))
        /\ Named(labels', l) <=> call[c].add
    <3>1. CASE call[c].add
      <4>1. labels' = labels \union {<<l, 0>>} /\ l \in live'
        BY <1>15, <2>0, <3>1 DEF Labels!GitHubSend, Labels!Define
      <4>2. Labels!CurrentId(l)' = <<l, 0>>
        BY <1>15 DEF Labels!GitHubSend, Labels!CurrentId, Labels!IdOf, Labels!ById
      <4>3. <<l, 0>> \in {Labels!CurrentId(m) : m \in live}'
        BY <4>1, <4>2
      <4>4. labels' \subseteq {Labels!CurrentId(m) : m \in live}'
        BY <2>4, <4>1, <4>3 DEF LabelsInv, Labels!TypeOK
      <4>5. Named(labels', l) /\ \A m \in Label : m # l => (Named(labels', m) <=> Named(labels, m))
        <5>1. \A i : i \in labels' <=> i \in labels \/ i = <<l, 0>>
          BY <4>1
        <5>2. <<l, 0>>[1] = l
          OBVIOUS
        <5> QED
          BY <5>1, <5>2 DEF Named
      <4> QED
        BY <3>1, <4>4, <4>5
    <3>2. CASE ~call[c].add
      <4>1. labels' = labels \ {<<l, 0>>}
        BY <1>15, <2>0, <3>2 DEF Labels!GitHubSend
      <4>2. ~Named(labels', l)
        BY <2>1, <4>1, OnTheTicket DEF LabelsInv, Named
      <4>3. labels' \subseteq {Labels!CurrentId(m) : m \in live}'
        BY <2>4, <4>1 DEF LabelsInv, Labels!TypeOK
      <4>4. \A m \in Label : m # l => (Named(labels', m) <=> Named(labels, m))
        BY <4>1 DEF Named
      <4> QED
        BY <3>2, <4>2, <4>3, <4>4
    <3> QED
      BY <2>1, <3>1, <3>2
  <2>6. /\ last' \subseteq Label /\ excused' \subseteq Label
        /\ Labels!LastEditStands'
        /\ \A d \in Client \ {c} : Sound(call[d], labels', excused')
    BY <1>15, <2>0, <2>1, <2>5, EditStands DEF Labels!GitHubSend
  <2>7. /\ call' \in [Client -> CallType] /\ call'[c] = Labels!NoCall
        /\ \A d \in Client : d # c => call'[d] = call[d]
    BY <1>15, CallGoesOn DEF LabelsInv, CallType, Labels!GitHubSend, Labels!Return
  <2>8. Labels!TypeOK'
    BY <1>15, <2>3, <2>4, <2>5, <2>6, <2>7
    DEF LabelsInv, Labels!TypeOK, CallType, CachesFit, Labels!GitHubSend
  <2>9. Calls'
    BY <1>15, <2>6, <2>7, CallsFollow DEF Sound, Labels!NoCall, Labels!GitHubSend
  <2> QED
    BY <2>4, <2>6, <2>8, <2>9 DEF LabelsInv
<1>16. ASSUME NEW l \in Label, NEW on \in BOOLEAN, Labels!Edited(l, on, Client),
              UNCHANGED <<kind, gen, cache, listed, call>>,
              live' \in {live, live \ {l}}, live' = live \/ Labels!Defined,
              labels' \subseteq {Labels!CurrentId(m) : m \in live'},
              \A m \in Label : m # l => (Named(labels', m) <=> Named(labels, m)),
              Named(labels', l) <=> on
       PROVE  LabelsInv'
  <2>1. /\ last' \subseteq Label /\ excused' \subseteq Label
        /\ Labels!LastEditStands'
        /\ \A d \in Client : Sound(call[d], labels', excused')
    BY <1>16, EditStands
  <2>2. {Labels!CurrentId(m) : m \in live'} = {Labels!CurrentId(m) : m \in live}'
    BY <1>16 DEF Labels!CurrentId, Labels!IdOf, Labels!ById
  <2>3. Labels!TypeOK'
    BY <1>16, <2>1, <2>2 DEF LabelsInv, Labels!TypeOK
  <2>4. Definitions'
    BY <1>16 DEF LabelsInv, Definitions, Labels!Defined
  <2>5. Calls'
    BY <1>16, <2>1, CallsFollow
  <2> QED
    BY <2>1, <2>3, <2>4, <2>5 DEF LabelsInv
<1>17. ASSUME NEW l \in Label, Labels!Toggle(l) PROVE LabelsInv'
  <2>1. l \in live /\ (Labels!OnTicket(l) <=> Named(labels, l))
    BY <1>17 DEF Labels!Toggle, Labels!OnTicket, Named
  <2>2. CASE Named(labels, l)
    <3>1. labels' = {i \in labels : i[1] # l} /\ Labels!Edited(l, FALSE, Client)
      BY <1>17, <2>1, <2>2 DEF Labels!Toggle
    <3> QED
      BY <1>16, <1>17, <3>1 DEF Labels!Toggle, LabelsInv, Labels!TypeOK, Named
  <2>3. CASE ~Named(labels, l)
    <3>1. labels' = labels \union {Labels!CurrentId(l)} /\ Labels!Edited(l, TRUE, Client)
      BY <1>17, <2>1, <2>3 DEF Labels!Toggle
    <3>2. Labels!CurrentId(l)[1] = l
      BY DEF Labels!CurrentId, Labels!IdOf
    <3> QED
      BY <1>16, <1>17, <2>1, <3>1, <3>2 DEF Labels!Toggle, LabelsInv, Labels!TypeOK, Named
  <2> QED
    BY <2>2, <2>3
<1>18. ASSUME NEW l \in Label, Labels!DefineLabel(l) PROVE LabelsInv'
  <2>1. /\ gen' \in [Label -> 0..MaxGen] /\ live' \subseteq Label /\ Definitions'
        /\ labels' \subseteq {Labels!CurrentId(m) : m \in live}'
    BY <1>18, OneDefined DEF Labels!DefineLabel, LabelsInv, Labels!TypeOK
  <2>2. CachesFit'
    BY <1>18, CachesKept DEF Labels!DefineLabel, LabelsInv
  <2>3. Labels!TypeOK'
    BY <1>18, <2>1, <2>2 DEF Labels!DefineLabel, LabelsInv, Labels!TypeOK, CachesFit
  <2>4. Calls' /\ Labels!LastEditStands'
    BY <1>18
    DEF Labels!DefineLabel, LabelsInv, Calls, Sound, Labels!ById, Labels!LastEditStands,
        Labels!OnTicket
  <2> QED
    BY <2>1, <2>3, <2>4 DEF LabelsInv
<1>19. ASSUME NEW l \in Label, Labels!DeleteLabel(l) PROVE LabelsInv'
  <2>1. labels' = {i \in labels : i[1] # l} /\ Labels!Edited(l, FALSE, Client)
    BY <1>19 DEF Labels!DeleteLabel
  <2>2. labels' \subseteq {Labels!CurrentId(m) : m \in live'}
    <3>1. \A m \in live : Labels!CurrentId(m)[1] = m
      BY DEF Labels!CurrentId, Labels!IdOf
    <3> QED
      BY <1>19, <2>1, <3>1 DEF Labels!DeleteLabel, LabelsInv, Labels!TypeOK
  <2> QED
    BY <1>16, <1>19, <2>1, <2>2 DEF Labels!DeleteLabel, Named
<1>20. CASE UNCHANGED Labels!vars
  BY <1>20
  DEF Labels!vars, LabelsInv, Labels!TypeOK, Definitions, Calls, Sound,
      Labels!LastEditStands, Labels!CurrentId, Labels!IdOf, Labels!ById, Labels!Defined,
      Labels!OnTicket
<1>21. ASSUME NEW c \in Client,
              Labels!JiraRead(c) \/ Labels!NotionRead(c) \/ Labels!AzdoRead(c)
                \/ Labels!ShortcutRead(c)
       PROVE  LabelsInv'
  <2>1. CASE Labels!JiraRead(c) \/ Labels!NotionRead(c) \/ Labels!AzdoRead(c)
    <3>1. Labels!modifyLabelList(c, Labels!byName(c)) /\ ~Labels!ById /\ kind # "github"
      BY <2>1 DEF Labels!JiraRead, Labels!NotionRead, Labels!AzdoRead, Labels!ById
    <3> QED
      BY <1>12, <3>1
  <2>2. CASE Labels!ShortcutRead(c)
    <3>1. Labels!modifyLabelList(c, call[c].id) /\ Labels!ById /\ kind # "github"
      BY <2>2 DEF Labels!ShortcutRead, Labels!ById
    <3> QED
      BY <1>12, <3>1
  <2> QED
    BY <1>21, <2>1, <2>2
<1>22. ASSUME NEW c \in Client,
              Labels!JiraWrite(c) \/ Labels!AzdoWrite(c) \/ Labels!NotionWrite(c)
                \/ Labels!LinearWrite(c) \/ Labels!ShortcutWrite(c)
       PROVE  LabelsInv'
  <2>1. CASE Labels!JiraWrite(c) \/ Labels!AzdoWrite(c) \/ Labels!NotionWrite(c)
    <3>1. Labels!Put(c) /\ ~Labels!ById /\ (Labels!Return(c) \/ UNCHANGED call)
      BY <2>1 DEF Labels!JiraWrite, Labels!AzdoWrite, Labels!NotionWrite, Labels!ById
    <3> QED
      BY <1>13, <3>1
  <2>2. CASE Labels!LinearWrite(c) \/ Labels!ShortcutWrite(c)
    BY <1>14, <2>2 DEF Labels!LinearWrite, Labels!ShortcutWrite
  <2> QED
    BY <1>22, <2>1, <2>2
<1>23. CASE Labels!Next
  <2>1. CASE \E c \in Client, add \in BOOLEAN, l \in Label : Labels!Call(c, add, l)
    BY <1>1, <2>1
  <2>2. ASSUME NEW c \in Client, Labels!Fail(c) PROVE LabelsInv'
    BY <1>4, <2>2 DEF Labels!Fail
  <2>3. CASE \E l \in Label : Labels!Toggle(l) \/ Labels!DefineLabel(l) \/ Labels!DeleteLabel(l)
    BY <1>17, <1>18, <1>19, <2>3
  <2>4. ASSUME NEW c \in Client,
               \/ Labels!GitHubEnsure(c) \/ Labels!GitHubCreate(c) \/ Labels!GitHubSend(c)
               \/ Labels!LinearEnsure(c) \/ Labels!LinearCreate(c) \/ Labels!LinearRead(c)
               \/ Labels!ShortcutEnsure(c) \/ Labels!ShortcutCreate(c)
               \/ Labels!ShortcutRefresh(c) \/ Labels!ShortcutResolve(c)
        PROVE  LabelsInv'
    BY <1>2, <1>3, <1>5, <1>6, <1>7, <1>8, <1>9, <1>10, <1>11, <1>15, <2>4
  <2> QED
    BY <1>21, <1>22, <1>23, <2>1, <2>2, <2>3, <2>4 DEF Labels!Next
<1> QED
  BY <1>20, <1>23

-----------------------------------------------------------------------------
(* A board's answers about one ticket *)

SomeChild(kids) == \E c \in Answers!Child : kids[c] # "none"

(* The rest of what CompleteAnswer allows, for an answer of t children of  *)
(* which i are not complete.                                               *)
Complete(t, i, fail) ==
  t > 0 /\ i = 0 =>
    \/ \A c \in Answers!Child : ~Answers!SeenOpen(c)
    \/ Answers!Count(inText) > 0 /\ Answers!Count(native) > 0
    \/ kind \in {"linear", "notion"}
         /\ Answers!Count(inText) + Answers!Count(native) > Page
    \/ kind \in {"azdo", "notion"} /\ fail
    \/ tooLong

(* Until a question is answered there is no answer; what was counted was   *)
(* there, and is still: children are never taken away.  On GitHub nothing  *)
(* but the description says what blocks a ticket.                          *)
Pending ==
  /\ pc # "done" => answer = Answers!None
  /\ pc = "textOpen" => SomeChild(inText)
  /\ pc = "nativeOpen" => SomeChild(native)
  /\ kind = "github" => \A b \in Blocker : blockers[b] = "none"

AnswersInv == Answers!TypeOK /\ Pending /\ Answers!AnswersHold

LEMMA CountingAnswers == \A S : Answers!Cardinality(S) = Cardinality(S)
BY DEF Answers!Cardinality, Cardinality

LEMMA NoAnswer ==
  /\ Answers!None \in Answers!Answer
  /\ Answers!None.asked = "nothing" /\ Answers!None.total = 0 /\ Answers!None.incomplete = 0
BY DEF Answers!None, Answers!Answer

LEMMA ChildrenFinite ==
  /\ IsFiniteSet(Answers!Child) /\ Cardinality(Answers!Child) = MaxChildren
  /\ MaxChildren \in Nat \ {0} /\ Page \in Nat \ {0}
BY FS_Interval, ServiceBounds DEF Answers!Child, Answers!ChildBounds

(* Counting children: none counted means none there, and so for open ones. *)
LEMMA Counts ==
  ASSUME NEW kids \in [Answers!Child -> Answers!State \union {"none"}]
  PROVE  /\ Answers!Count(kids) \in 0..Cardinality(Answers!Child)
         /\ Answers!Incomplete(kids) \in 0..Answers!Count(kids)
         /\ Answers!Count(kids) > 0 <=> SomeChild(kids)
         /\ Answers!Incomplete(kids) = 0 <=> ~Answers!HasOpen(kids)
         /\ Answers!HasOpen(kids) => SomeChild(kids)
<1> DEFINE some == {c \in Answers!Child : kids[c] # "none"}
           open == {c \in Answers!Child : kids[c] = "open"}
<1>1. /\ IsFiniteSet(some) /\ IsFiniteSet(open)
      /\ Cardinality(some) \in Nat /\ Cardinality(open) \in Nat
      /\ Cardinality(some) <= Cardinality(Answers!Child)
      /\ Cardinality(open) <= Cardinality(some)
  <2>1. some \subseteq Answers!Child /\ open \subseteq some
    OBVIOUS
  <2>2. IsFiniteSet(some) /\ Cardinality(some) <= Cardinality(Answers!Child)
    BY <2>1, FS_Subset, ChildrenFinite
  <2>3. IsFiniteSet(open) /\ Cardinality(open) <= Cardinality(some)
    BY <2>1, <2>2, FS_Subset
  <2> QED
    BY <2>2, <2>3, FS_CardinalityType
<1>2. Answers!Count(kids) = Cardinality(some) /\ Answers!Incomplete(kids) = Cardinality(open)
  BY CountingAnswers DEF Answers!Count, Answers!Incomplete
<1>3. (Cardinality(some) = 0 <=> some = {}) /\ (Cardinality(open) = 0 <=> open = {})
  BY <1>1, FS_EmptySet
<1>4. (some = {} <=> ~SomeChild(kids)) /\ (open = {} <=> ~Answers!HasOpen(kids))
  BY DEF SomeChild, Answers!HasOpen
<1>5. Answers!HasOpen(kids) => SomeChild(kids)
  BY DEF SomeChild, Answers!HasOpen
<1> HIDE DEF some, open
<1> QED
  BY <1>1, <1>2, <1>3, <1>4, <1>5, ChildrenFinite

(* An open child that is not on the first page is behind a page of others. *)
LEMMA BehindThePage ==
  ASSUME NEW kids \in [Answers!Child -> Answers!State \union {"none"}]
  PROVE  /\ Answers!FirstPage(kids) \in [Answers!Child -> Answers!State \union {"none"}]
         /\ SomeChild(Answers!FirstPage(kids)) => SomeChild(kids)
         /\ Answers!HasOpen(kids) /\ ~Answers!HasOpen(Answers!FirstPage(kids)) =>
              Answers!Count(kids) > Page
<1>1. Answers!FirstPage(kids) \in [Answers!Child -> Answers!State \union {"none"}]
  BY DEF Answers!FirstPage
<1>2. SomeChild(Answers!FirstPage(kids)) => SomeChild(kids)
  BY DEF SomeChild, Answers!FirstPage
<1>3. ASSUME Answers!HasOpen(kids), ~Answers!HasOpen(Answers!FirstPage(kids))
      PROVE  Answers!Count(kids) > Page
  <2>1. PICK c \in Answers!Child : kids[c] = "open"
    BY <1>3 DEF Answers!HasOpen
  <2> DEFINE before == {d \in 1..(c - 1) : kids[d] # "none"}
             some == {d \in Answers!Child : kids[d] # "none"}
  <2>2. ~(Cardinality(before) < Page)
    BY <1>3, <2>1, CountingAnswers DEF Answers!HasOpen, Answers!FirstPage
  <2>3. c \in Nat /\ c <= MaxChildren
    BY ChildrenFinite DEF Answers!Child
  <2>4. before \subseteq some /\ c \notin before /\ before \union {c} \subseteq some
    BY <2>1, <2>3, ChildrenFinite DEF Answers!Child
  <2>5. IsFiniteSet(some) /\ IsFiniteSet(before)
    BY <2>4, FS_Subset, ChildrenFinite
  <2>6. Cardinality(before \union {c}) = Cardinality(before) + 1
    BY <2>4, <2>5, FS_AddElement
  <2>7. Cardinality(before) + 1 <= Cardinality(some)
    BY <2>4, <2>5, <2>6, FS_Subset
  <2>8. Answers!Count(kids) = Cardinality(some)
    BY CountingAnswers DEF Answers!Count
  <2> HIDE DEF before, some
  <2>9. Cardinality(before) \in Nat /\ Cardinality(some) \in Nat
    BY <2>5, FS_CardinalityType
  <2> QED
    BY <2>2, <2>7, <2>8, <2>9, ChildrenFinite
<1> QED
  BY <1>1, <1>2, <1>3

LEMMA AnswersInit == Answers!Init => AnswersInv
<1> SUFFICES ASSUME Answers!Init PROVE AnswersInv
  OBVIOUS
<1>1. 0 \in 0..Cardinality(Answers!Child)
  BY ChildrenFinite
<1>2. Answers!TypeOK
  <2>1. kind \in Answers!Kind /\ status \in {"todo", "asked"} /\ pc \in Answers!PC
    BY DEF Answers!Init, Answers!PC
  <2>2. answer.total = 0 /\ answer.incomplete = 0 /\ answer \in Answers!Answer
    BY NoAnswer DEF Answers!Init
  <2>3. total = 0 /\ workflows \in BOOLEAN /\ failed \in BOOLEAN /\ flag \in BOOLEAN
    BY DEF Answers!Init
  <2> QED
    BY <1>1, <2>1, <2>2, <2>3, CountingAnswers, ChildrenFinite
    DEF Answers!Init, Answers!TypeOK
<1>3. Pending
  BY DEF Answers!Init, Pending
<1>4. Answers!AnswersHold
  BY NoAnswer DEF Answers!Init, Answers!AnswersHold
<1> QED
  BY <1>2, <1>3, <1>4 DEF AnswersInv

(* The three answers, field by field. *)
LEMMA ChildAnswer ==
  ASSUME NEW t \in Nat, NEW i \in Nat, NEW fail, Answers!ReturnChildren(t, i, fail)
  PROVE  /\ answer' \in Answers!Answer /\ answer'.asked = "children"
         /\ answer'.total = t /\ answer'.incomplete = i
BY DEF Answers!None, Answers!Answer, Answers!ReturnChildren, Answers!Return

LEMMA BlockAnswer ==
  ASSUME NEW b \in BOOLEAN,
         NEW a, a = [Answers!None EXCEPT !.asked = "blockers", !.blocked = b]
  PROVE  /\ a \in Answers!Answer /\ a.asked = "blockers" /\ a.blocked = b
         /\ a.total = 0 /\ a.incomplete = 0
BY DEF Answers!None, Answers!Answer

LEMMA MoveAnswer ==
  ASSUME NEW m \in BOOLEAN,
         NEW a, a = [Answers!None EXCEPT !.asked = "transition", !.moved = m]
  PROVE  /\ a \in Answers!Answer /\ a.asked = "transition" /\ a.moved = m
         /\ a.total = 0 /\ a.incomplete = 0
BY DEF Answers!None, Answers!Answer

(* What an answer leaves alone keeps its type.                             *)
LEMMA StillTyped ==
  ASSUME AnswersInv, UNCHANGED <<Answers!world, Answers!children>>,
         status' \in {"todo", "asked"}, pc' \in Answers!PC,
         total' \in 0..MaxChildren, workflows' \in BOOLEAN, failed' \in BOOLEAN,
         answer' \in Answers!Answer, answer'.total <= MaxChildren,
         kind \notin {"github", "jira"} => answer'.incomplete <= answer'.total
  PROVE  Answers!TypeOK'
BY CountingAnswers, ChildrenFinite
DEF AnswersInv, Answers!TypeOK, Answers!world, Answers!children

LEMMA ChildrenAnswered ==
  ASSUME AnswersInv, UNCHANGED <<Answers!world, Answers!children, status>>,
         total' \in 0..MaxChildren, workflows' \in BOOLEAN,
         NEW t \in 0..MaxChildren, NEW i \in Nat, NEW fail \in BOOLEAN,
         kind \notin {"github", "jira"} => i <= t,
         Complete(t, i, failed \/ fail),
         Answers!ReturnChildren(t, i, fail)
  PROVE  AnswersInv'
<1>1. /\ answer' \in Answers!Answer /\ answer'.asked = "children"
      /\ answer'.total = t /\ answer'.incomplete = i
  <2>1. t \in Nat
    BY ChildrenFinite
  <2> QED
    BY <2>1, ChildAnswer
<1>2. pc' = "done" /\ failed' = (failed \/ fail) /\ failed' \in BOOLEAN /\ pc' \in Answers!PC
  BY DEF Answers!ReturnChildren, Answers!Return, Answers!PC
<1>3. Answers!TypeOK'
  <2>1. status' \in {"todo", "asked"} /\ UNCHANGED <<Answers!world, Answers!children>>
    BY DEF AnswersInv, Answers!TypeOK
  <2> QED
    BY <1>1, <1>2, <2>1, StillTyped, ChildrenFinite
<1>4. Pending'
  BY <1>2 DEF Pending, AnswersInv, Answers!world
<1>5. Answers!CompleteAnswer'
  BY <1>1, <1>2 DEF Complete, Answers!CompleteAnswer, Answers!SeenOpen, Answers!Count,
     Answers!world, Answers!children
<1>6. Answers!AnswersHold'
  BY <1>1, <1>5 DEF Answers!AnswersHold
<1> QED
  BY <1>3, <1>4, <1>6 DEF AnswersInv

(* What BlockedAnswer asks of an answer b. *)
Right(b, fail, known) ==
  /\ b => \/ Answers!HasOpen(blockers) \/ Answers!HasOpen(references)
          \/ kind = "shortcut" /\ ~known
  /\ ~b /\ ~fail =>
       \/ ~Answers!HasOpen(IF kind = "github" \/ (kind = "notion" /\ ~flag)
                           THEN references ELSE blockers)
       \/ kind = "shortcut" /\ ~flag
       \/ tooLong /\ ~flag

LEMMA BlockersAnswered ==
  ASSUME AnswersInv, workflows' \in BOOLEAN,
         NEW b \in BOOLEAN, NEW fail \in BOOLEAN,
         Right(b, failed \/ fail, workflows'),
         Answers!Blocked(b, fail)
  PROVE  AnswersInv'
<1>1. /\ answer' \in Answers!Answer /\ answer'.asked = "blockers" /\ answer'.blocked = b
      /\ answer'.total = 0 /\ answer'.incomplete = 0
  BY BlockAnswer DEF Answers!Blocked, Answers!Return
<1>2. /\ pc' = "done" /\ failed' = (failed \/ fail) /\ failed' \in BOOLEAN /\ pc' \in Answers!PC
      /\ UNCHANGED <<Answers!world, Answers!children, status, total>>
  BY DEF Answers!Blocked, Answers!Return, Answers!PC
<1>3. Answers!TypeOK'
  <2>1. status' \in {"todo", "asked"} /\ total' \in 0..MaxChildren
    BY <1>2, CountingAnswers, ChildrenFinite DEF AnswersInv, Answers!TypeOK
  <2> QED
    BY <1>1, <1>2, <2>1, StillTyped, ChildrenFinite
<1>4. Pending'
  BY <1>2 DEF Pending, AnswersInv, Answers!world
<1>5. Answers!BlockedAnswer'
  BY <1>1, <1>2 DEF Right, Answers!BlockedAnswer, Answers!HasOpen, Answers!world
<1>6. Answers!AnswersHold'
  BY <1>1, <1>5 DEF Answers!AnswersHold
<1> QED
  BY <1>3, <1>4, <1>6 DEF AnswersInv

LEMMA MovedAnswered ==
  ASSUME AnswersInv, UNCHANGED <<Answers!world, Answers!children, total>>,
         workflows' \in BOOLEAN, status' \in {"todo", "asked"},
         NEW m \in BOOLEAN, NEW fail \in BOOLEAN, m => status' = "asked",
         Answers!Moved(m, fail)
  PROVE  AnswersInv'
<1>1. /\ answer' \in Answers!Answer /\ answer'.asked = "transition" /\ answer'.moved = m
      /\ answer'.total = 0 /\ answer'.incomplete = 0
  BY MoveAnswer DEF Answers!Moved, Answers!Return
<1>2. pc' = "done" /\ failed' \in BOOLEAN /\ pc' \in Answers!PC
  BY DEF Answers!Moved, Answers!Return, Answers!PC
<1>3. Answers!TypeOK'
  <2>1. total' \in 0..MaxChildren
    BY CountingAnswers, ChildrenFinite DEF AnswersInv, Answers!TypeOK
  <2> QED
    BY <1>1, <1>2, <2>1, StillTyped, ChildrenFinite
<1>4. Pending'
  BY <1>2 DEF Pending, AnswersInv, Answers!world
<1>5. Answers!AnswersHold'
  BY <1>1 DEF Answers!AnswersHold
<1> QED
  BY <1>3, <1>4, <1>5 DEF AnswersInv

(* A step on the way to the answer. *)
LEMMA GoesOn ==
  ASSUME AnswersInv, UNCHANGED Answers!world, UNCHANGED answer, pc # "done",
         inText' \in [Answers!Child -> Answers!State \union {"none"}],
         native' \in [Answers!Child -> Answers!State \union {"none"}],
         index' \in [Answers!Child -> Answers!State \union {"none"}],
         status' \in {"todo", "asked"}, pc' \in Answers!PC \ {"done"},
         total' \in 0..MaxChildren, workflows' \in BOOLEAN, failed' \in BOOLEAN,
         pc' = "textOpen" => SomeChild(inText)',
         pc' = "nativeOpen" => SomeChild(native)'
  PROVE  AnswersInv'
<1>1. answer = Answers!None
  BY DEF AnswersInv, Pending
<1>2. Answers!TypeOK'
  BY CountingAnswers, ChildrenFinite DEF AnswersInv, Answers!TypeOK, Answers!world
<1>3. Pending'
  BY <1>1 DEF Pending, AnswersInv, Answers!world
<1>4. Answers!AnswersHold'
  BY <1>1, NoAnswer DEF Answers!AnswersHold
<1> QED
  BY <1>2, <1>3, <1>4 DEF AnswersInv

(* What a question that is under way leaves alone.                         *)
OnlyAnswers == UNCHANGED <<Answers!world, Answers!children, status>>

LEMMA Typed ==
  ASSUME AnswersInv
  PROVE  /\ inText \in [Answers!Child -> Answers!State \union {"none"}]
         /\ native \in [Answers!Child -> Answers!State \union {"none"}]
         /\ index \in [Answers!Child -> Answers!State \union {"none"}]
         /\ status \in {"todo", "asked"} /\ pc \in Answers!PC
         /\ total \in 0..MaxChildren /\ workflows \in BOOLEAN /\ failed \in BOOLEAN
         /\ MaxChildren \in Nat \ {0}
         /\ Answers!Count(inText) \in 0..MaxChildren /\ Answers!Incomplete(inText) \in Nat
         /\ Answers!Count(native) \in 0..MaxChildren /\ Answers!Incomplete(native) \in Nat
<1>1. /\ inText \in [Answers!Child -> Answers!State \union {"none"}]
      /\ native \in [Answers!Child -> Answers!State \union {"none"}]
      /\ index \in [Answers!Child -> Answers!State \union {"none"}]
      /\ status \in {"todo", "asked"} /\ pc \in Answers!PC
      /\ total \in 0..MaxChildren /\ workflows \in BOOLEAN /\ failed \in BOOLEAN
  BY CountingAnswers, ChildrenFinite DEF AnswersInv, Answers!TypeOK
<1>2. /\ Answers!Count(inText) \in 0..MaxChildren /\ Answers!Incomplete(inText) \in Nat
      /\ Answers!Count(native) \in 0..MaxChildren /\ Answers!Incomplete(native) \in Nat
  BY <1>1, Counts, ChildrenFinite
<1> QED
  BY <1>1, <1>2, ChildrenFinite

(* What GitHub's index shows is there. *)
LEMMA InTheIndex ==
  ASSUME AnswersInv, NEW kids \in {inText, native}
  PROVE  /\ Answers!Searched(kids) \in [Answers!Child -> Answers!State \union {"none"}]
         /\ SomeChild(Answers!Searched(kids)) => SomeChild(kids)
BY Typed DEF Answers!Searched, SomeChild

(* To the other convention, or on to the second count. *)
LEMMA AsksOn ==
  ASSUME AnswersInv, OnlyAnswers, NEW to \in {"native"}, NEW fail \in BOOLEAN,
         pc # "done", Answers!Goto(to, fail)
  PROVE  AnswersInv'
<1>1. /\ UNCHANGED <<inText, native, index, status, total, workflows, answer, Answers!world>>
      /\ pc' = "native" /\ failed' \in BOOLEAN
  BY Typed DEF OnlyAnswers, Answers!Goto, Answers!children
<1>2. pc' \in Answers!PC \ {"done"}
  BY <1>1 DEF Answers!PC
<1> QED
  BY <1>1, <1>2, Typed, GoesOn

(* One count that went wrong, or found nothing: no child is complete. *)
LEMMA NoneCounted ==
  ASSUME AnswersInv, OnlyAnswers, UNCHANGED <<total, workflows>>,
         NEW fail \in BOOLEAN, NEW n \in 0..MaxChildren,
         Answers!ReturnChildren(n, n, fail)
  PROVE  AnswersInv'
<1>1. Complete(n, n, failed \/ fail)
  BY Typed DEF Complete
<1>2. n \in Nat /\ n <= n
  BY Typed
<1> QED
  BY <1>1, <1>2, Typed, ChildrenAnswered DEF OnlyAnswers

(* GitHub and Jira: all children by one convention, then the open ones.    *)
LEMMA TwoCounts ==
  ASSUME AnswersInv, OnlyAnswers, kind \in {"github", "jira"},
         \/ Answers!CountByText \/ Answers!CountOpenByText
         \/ Answers!CountByLink \/ Answers!CountOpenByLink
  PROVE  AnswersInv'
<1> DEFINE ST == Answers!Searched(inText)
           SN == Answers!Searched(native)
<1>1. /\ ST \in [Answers!Child -> Answers!State \union {"none"}]
      /\ SN \in [Answers!Child -> Answers!State \union {"none"}]
      /\ SomeChild(ST) => SomeChild(inText)
      /\ SomeChild(SN) => SomeChild(native)
      /\ ~Answers!HasOpen(ST) /\ ~SomeChild(native) =>
           \A c \in Answers!Child : ~Answers!SeenOpen(c)
      /\ ~Answers!HasOpen(SN) /\ ~SomeChild(inText) =>
           \A c \in Answers!Child : ~Answers!SeenOpen(c)
  <2>1. /\ ST \in [Answers!Child -> Answers!State \union {"none"}]
        /\ SN \in [Answers!Child -> Answers!State \union {"none"}]
        /\ SomeChild(ST) => SomeChild(inText)
        /\ SomeChild(SN) => SomeChild(native)
    BY InTheIndex
  <2>2. ~Answers!HasOpen(ST) /\ ~SomeChild(native) =>
          \A c \in Answers!Child : ~Answers!SeenOpen(c)
    BY Typed DEF Answers!Searched, SomeChild, Answers!HasOpen, Answers!SeenOpen
  <2>3. ~Answers!HasOpen(SN) /\ ~SomeChild(inText) =>
          \A c \in Answers!Child : ~Answers!SeenOpen(c)
    BY Typed DEF Answers!Searched, SomeChild, Answers!HasOpen, Answers!SeenOpen
  <2> QED
    BY <2>1, <2>2, <2>3
<1> HIDE DEF ST, SN
<1>11. /\ Answers!Count(ST) \in 0..MaxChildren /\ Answers!Incomplete(ST) \in Nat
       /\ Answers!Count(ST) > 0 <=> SomeChild(ST)
       /\ Answers!Incomplete(ST) = 0 <=> ~Answers!HasOpen(ST)
  BY <1>1, Counts, ChildrenFinite
<1>12. /\ Answers!Count(SN) \in 0..MaxChildren /\ Answers!Incomplete(SN) \in Nat
       /\ Answers!Count(SN) > 0 <=> SomeChild(SN)
       /\ Answers!Incomplete(SN) = 0 <=> ~Answers!HasOpen(SN)
  BY <1>1, Counts, ChildrenFinite
<1>13. /\ Answers!Count(inText) > 0 <=> SomeChild(inText)
       /\ Answers!Count(native) > 0 <=> SomeChild(native)
  BY Typed, Counts
<1>2. UNCHANGED <<inText, native, index, Answers!world, status>>
  BY DEF OnlyAnswers, Answers!children
<1>3. ASSUME NEW to \in {"textOpen", "nativeOpen"}, NEW kids, Answers!CountAll(kids, to),
             pc # "done", Answers!Count(kids) \in 0..MaxChildren,
             to = "textOpen" => SomeChild(inText),
             to = "nativeOpen" => SomeChild(native)
      PROVE  AnswersInv'
  <2>1. /\ total' \in 0..MaxChildren /\ pc' = to
        /\ UNCHANGED <<workflows, answer, failed>>
    BY <1>3 DEF Answers!CountAll
  <2>2. pc' \in Answers!PC \ {"done"}
    BY <2>1 DEF Answers!PC
  <2>3. (to = "textOpen" => SomeChild(inText)') /\ (to = "nativeOpen" => SomeChild(native)')
    BY <1>2, <1>3 DEF SomeChild
  <2> QED
    BY <1>2, <1>3, <2>1, <2>2, <2>3, Typed, GoesOn
<1>0. 0 \in 0..MaxChildren
  BY ChildrenFinite
<1>4. CASE Answers!CountByText
  <2>1. pc = "children" /\ pc # "done"
    BY <1>4 DEF Answers!CountByText
  <2>2. CASE Answers!Count(ST) # 0 /\ Answers!CountAll(ST, "textOpen")
    BY <1>1, <1>11, <1>3, <2>1, <2>2, Typed
  <2>3. CASE Answers!Goto("native", FALSE)
    BY <2>1, <2>3, AsksOn
  <2>4. CASE Answers!Goto("native", TRUE)
    BY <2>1, <2>4, AsksOn
  <2> QED
    BY <1>4, <2>2, <2>3, <2>4 DEF Answers!CountByText, ST
<1>5. CASE Answers!CountOpenByText
  <2>1. pc = "textOpen" /\ pc # "done" /\ SomeChild(inText)
    BY <1>5 DEF Answers!CountOpenByText, AnswersInv, Pending
  <2>2. CASE /\ Answers!ReturnChildren(total, Answers!Incomplete(ST), FALSE)
             /\ UNCHANGED <<total, workflows>>
    <3>1. Complete(total, Answers!Incomplete(ST), failed \/ FALSE)
      BY <1>1, <1>11, <1>13, <2>1, Typed DEF Complete
    <3> QED
      BY <1>11, <2>2, <3>1, Typed, ChildrenAnswered DEF OnlyAnswers
  <2>3. CASE Answers!Goto("native", TRUE)
    BY <2>1, <2>3, AsksOn
  <2> QED
    BY <1>5, <2>2, <2>3 DEF Answers!CountOpenByText, ST
<1>6. CASE Answers!CountByLink
  <2>1. pc = "native" /\ pc # "done"
    BY <1>6 DEF Answers!CountByLink
  <2>2. CASE Answers!Count(SN) # 0 /\ Answers!CountAll(SN, "nativeOpen")
    BY <1>1, <1>12, <1>3, <2>1, <2>2, Typed
  <2>3. CASE /\ Answers!ReturnChildren(0, 0, FALSE) \/ Answers!ReturnChildren(0, 0, TRUE)
             /\ UNCHANGED <<total, workflows>>
    BY <2>3, <1>0, NoneCounted
  <2> QED
    BY <1>6, <2>2, <2>3 DEF Answers!CountByLink, SN
<1>7. CASE Answers!CountOpenByLink
  <2>1. SomeChild(native) /\ UNCHANGED <<total, workflows>>
    BY <1>7 DEF Answers!CountOpenByLink, AnswersInv, Pending
  <2>2. CASE Answers!ReturnChildren(total, Answers!Incomplete(SN), FALSE)
    <3>1. Complete(total, Answers!Incomplete(SN), failed \/ FALSE)
      BY <1>1, <1>12, <1>13, <2>1, Typed DEF Complete
    <3> QED
      BY <1>12, <2>1, <2>2, <3>1, Typed, ChildrenAnswered DEF OnlyAnswers
  <2>3. CASE Answers!ReturnChildren(0, 0, TRUE)
    BY <2>1, <2>3, <1>0, NoneCounted
  <2> QED
    BY <1>7, <2>1, <2>2, <2>3 DEF Answers!CountOpenByLink, SN
<1> QED
  BY <1>4, <1>5, <1>6, <1>7

(* The others count once, by one convention: what hides an open child is   *)
(* the other convention, the page, or a failed request.                    *)
LEMMA OneCount ==
  ASSUME AnswersInv, NEW kids \in {inText, native}, NEW t \in Nat, NEW i \in Nat,
         NEW fail \in BOOLEAN, t > 0 => SomeChild(kids),
         t > 0 /\ i = 0 /\ Answers!HasOpen(kids) =>
           \/ kind \in {"linear", "notion"} /\ Answers!Count(kids) > Page
           \/ kind \in {"azdo", "notion"} /\ fail
           \/ tooLong
  PROVE  Complete(t, i, fail)
<1>1. /\ Answers!Count(inText) \in Nat /\ Answers!Count(native) \in Nat
      /\ Answers!Count(inText) > 0 <=> SomeChild(inText)
      /\ Answers!Count(native) > 0 <=> SomeChild(native)
      /\ Answers!HasOpen(inText) => SomeChild(inText)
      /\ Answers!HasOpen(native) => SomeChild(native)
  BY Typed, Counts
<1>2. ~Answers!HasOpen(inText) /\ ~Answers!HasOpen(native) =>
        \A c \in Answers!Child : ~Answers!SeenOpen(c)
  BY Typed DEF Answers!HasOpen, Answers!SeenOpen
<1>3. CASE kids = inText
  BY <1>1, <1>2, <1>3, ChildrenFinite DEF Complete
<1>4. CASE kids = native
  BY <1>1, <1>2, <1>4, ChildrenFinite DEF Complete
<1> QED
  BY <1>3, <1>4

LEMMA NodesCounted ==
  ASSUME AnswersInv, OnlyAnswers, kind \in {"linear", "notion"},
         NEW kids \in {inText, native}, Answers!CountNodes(kids)
  PROVE  AnswersInv'
<1> DEFINE page == Answers!FirstPage(kids)
<1>1. kids \in [Answers!Child -> Answers!State \union {"none"}]
  BY Typed
<1>2. /\ page \in [Answers!Child -> Answers!State \union {"none"}]
      /\ SomeChild(page) => SomeChild(kids)
      /\ Answers!HasOpen(kids) /\ ~Answers!HasOpen(page) => Answers!Count(kids) > Page
  BY <1>1, BehindThePage
<1> HIDE DEF page
<1>3. /\ Answers!Count(page) \in 0..MaxChildren /\ Answers!Incomplete(page) \in Nat
      /\ Answers!Incomplete(page) <= Answers!Count(page)
      /\ Answers!Count(page) > 0 <=> SomeChild(page)
      /\ Answers!Incomplete(page) = 0 <=> ~Answers!HasOpen(page)
  BY <1>2, Counts, ChildrenFinite
<1>4. /\ Answers!ReturnChildren(Answers!Count(page), Answers!Incomplete(page), FALSE)
      /\ UNCHANGED <<total, workflows>>
  BY DEF Answers!CountNodes, Answers!CountChildren, page
<1>5. Complete(Answers!Count(page), Answers!Incomplete(page), failed \/ FALSE)
  <2>1. Answers!Count(page) \in Nat /\ (failed \/ FALSE) \in BOOLEAN
    BY <1>3, Typed
  <2> QED
    BY <1>2, <1>3, <2>1, OneCount
<1> QED
  BY <1>3, <1>4, <1>5, Typed, ChildrenAnswered DEF OnlyAnswers

LEMMA BatchesCounted ==
  ASSUME AnswersInv, OnlyAnswers, kind \in {"azdo", "notion"},
         NEW kids \in {inText, native}, Answers!CountRead(kids)
  PROVE  AnswersInv'
<1>1. kids \in [Answers!Child -> Answers!State \union {"none"}]
  BY Typed
<1>2. PICK got \in SUBSET {c \in Answers!Child : kids[c] # "none"} :
        LET seen == [c \in Answers!Child |-> IF c \in got THEN kids[c] ELSE "none"]
        IN Answers!ReturnChildren(Answers!Count(seen), Answers!Incomplete(seen), seen # kids /\ ~tooLong)
  BY DEF Answers!CountRead
<1> DEFINE seen == [c \in Answers!Child |-> IF c \in got THEN kids[c] ELSE "none"]
<1>3. /\ seen \in [Answers!Child -> Answers!State \union {"none"}]
      /\ SomeChild(seen) => SomeChild(kids)
      /\ Answers!ReturnChildren(Answers!Count(seen), Answers!Incomplete(seen), seen # kids /\ ~tooLong)
  BY <1>1, <1>2 DEF SomeChild
<1> HIDE DEF seen
<1>4. /\ Answers!Count(seen) \in 0..MaxChildren /\ Answers!Incomplete(seen) \in Nat
      /\ Answers!Incomplete(seen) <= Answers!Count(seen)
      /\ Answers!Count(seen) > 0 <=> SomeChild(seen)
      /\ Answers!Incomplete(seen) = 0 <=> ~Answers!HasOpen(seen)
  BY <1>3, Counts, ChildrenFinite
<1>5. Complete(Answers!Count(seen), Answers!Incomplete(seen), failed \/ (seen # kids /\ ~tooLong))
  <2>1. Answers!Count(seen) \in Nat /\ (failed \/ (seen # kids /\ ~tooLong)) \in BOOLEAN
    BY <1>4, Typed
  <2> QED
    BY <1>3, <1>4, <2>1, OneCount
<1>6. UNCHANGED <<total, workflows>> /\ (seen # kids /\ ~tooLong) \in BOOLEAN
  BY DEF Answers!CountRead
<1> QED
  BY <1>3, <1>4, <1>5, <1>6, Typed, ChildrenAnswered DEF OnlyAnswers

(* Shortcut: the stories found, or those of the epic. *)
LEMMA StoriesCounted ==
  ASSUME AnswersInv, OnlyAnswers, kind = "shortcut",
         NEW got \in {inText, native}, Answers!CountStories(got)
  PROVE  AnswersInv'
<1>2. got \in [Answers!Child -> Answers!State \union {"none"}]
  BY Typed
<1>3. /\ Answers!Count(got) \in 0..MaxChildren /\ Answers!Incomplete(got) \in Nat
      /\ Answers!Incomplete(got) <= Answers!Count(got)
      /\ Answers!Count(got) > 0 <=> SomeChild(got)
      /\ Answers!Incomplete(got) = 0 <=> ~Answers!HasOpen(got)
  BY <1>2, Counts, ChildrenFinite
<1> DEFINE open == IF workflows' THEN Answers!Incomplete(got) ELSE Answers!Count(got)
<1>4. /\ Answers!ReturnChildren(Answers!Count(got), open, FALSE)
      /\ UNCHANGED total /\ workflows' \in BOOLEAN
  BY Typed DEF Answers!CountStories, Answers!DoneStates
<1>5. /\ open \in Nat /\ open <= Answers!Count(got)
      /\ open = 0 /\ Answers!Count(got) > 0 => Answers!Incomplete(got) = 0
  BY <1>3, <1>4, ChildrenFinite
<1> HIDE DEF open
<1>6. Complete(Answers!Count(got), open, failed \/ FALSE)
  <2>1. Answers!Count(got) \in Nat /\ (failed \/ FALSE) \in BOOLEAN
    BY <1>3, Typed
  <2> QED
    BY <1>2, <1>3, <1>5, <2>1, OneCount
<1> QED
  BY <1>3, <1>4, <1>5, <1>6, Typed, ChildrenAnswered DEF OnlyAnswers

LEMMA NotCounted ==
  ASSUME AnswersInv, OnlyAnswers, Answers!NotByText \/ Answers!NotByLink
  PROVE  AnswersInv'
<1>1. CASE Answers!NotByText
  <2>1. pc # "done" /\ \E fail \in BOOLEAN : Answers!Goto("native", fail)
    BY <1>1 DEF Answers!NotByText
  <2> QED
    BY <2>1, AsksOn
<1>2. CASE Answers!NotByLink
  <2>1. 0 \in 0..MaxChildren /\ (~tooLong) \in BOOLEAN
    BY ChildrenFinite
  <2>2. Answers!ReturnChildren(0, 0, ~tooLong) /\ UNCHANGED <<total, workflows>>
    BY <1>2 DEF Answers!NotByLink
  <2> QED
    BY <2>1, <2>2, NoneCounted
<1> QED
  BY <1>1, <1>2

(* Links of which some may be unreadable: one is open only when the board  *)
(* says so, and all are known when nothing failed.                         *)
LEMMA ReadLinks ==
  ASSUME NEW links \in [Blocker -> Answers!State \union {"none"}],
         NEW readable \in SUBSET Answers!Linked(links)
  PROVE  /\ Answers!Open(links, readable) \in BOOLEAN
         /\ Answers!Open(links, readable) => Answers!HasOpen(links)
         /\ readable = Answers!Linked(links) /\ Answers!HasOpen(links) =>
              Answers!Open(links, readable)
BY DEF Answers!Open, Answers!HasOpen, Answers!Linked

LEMMA Links ==
  ASSUME AnswersInv
  PROVE  /\ blockers \in [Blocker -> Answers!State \union {"none"}]
         /\ references \in [Blocker -> Answers!State \union {"none"}]
         /\ flag \in BOOLEAN
         /\ Answers!Open(blockers, Blocker) \in BOOLEAN
         /\ Answers!Open(blockers, Blocker) <=> Answers!HasOpen(blockers)
BY DEF AnswersInv, Answers!TypeOK, Answers!Open, Answers!HasOpen

LEMMA BlockersNext ==
  ASSUME AnswersInv,
         \/ Answers!JiraBlockers \/ Answers!LinearBlockers \/ Answers!GitHubBlockers
         \/ Answers!AzdoBlockers \/ Answers!NotionBlockers \/ Answers!ShortcutBlockers
  PROVE  AnswersInv'
<1>1. ASSUME Answers!Blocked(FALSE, TRUE), workflows' \in BOOLEAN
      PROVE  AnswersInv'
  <2>1. Right(FALSE, failed \/ TRUE, workflows')
    BY DEF Right
  <2> QED
    BY <1>1, <2>1, BlockersAnswered
<1>2. ASSUME kind \in {"jira", "linear", "azdo"}, UNCHANGED workflows,
             Answers!Blocked(Answers!Open(blockers, Blocker), FALSE)
      PROVE  AnswersInv'
  <2>1. Right(Answers!Open(blockers, Blocker), failed \/ FALSE, workflows')
    BY <1>2, Links DEF Right
  <2> QED
    BY <1>2, <2>1, Links, Typed, BlockersAnswered
<1>3. ASSUME NEW links \in {blockers, references}, UNCHANGED workflows,
             kind \in {"github", "notion"},
             links = IF kind = "notion" /\ flag THEN blockers ELSE references,
             NEW readable \in SUBSET Answers!Linked(links),
             Answers!Blocked(Answers!Open(links, readable), readable # Answers!Linked(links))
      PROVE  AnswersInv'
  <2>1. links \in [Blocker -> Answers!State \union {"none"}]
    BY <1>3, Links
  <2>2. /\ Answers!Open(links, readable) \in BOOLEAN
        /\ Answers!Open(links, readable) => Answers!HasOpen(links)
        /\ readable = Answers!Linked(links) /\ Answers!HasOpen(links) =>
             Answers!Open(links, readable)
    BY <2>1, ReadLinks
  <2>3. Right(Answers!Open(links, readable), failed \/ readable # Answers!Linked(links),
              workflows')
    BY <1>3, <2>2, Links DEF Right
  <2> QED
    BY <1>3, <2>2, <2>3, Typed, BlockersAnswered
<1>4. CASE Answers!JiraBlockers \/ Answers!LinearBlockers \/ Answers!AzdoBlockers
  BY <1>1, <1>2, <1>4, Typed
  DEF Answers!JiraBlockers, Answers!LinearBlockers, Answers!AzdoBlockers, Answers!AskBlockers
<1>5. CASE Answers!GitHubBlockers
  BY <1>3, <1>5 DEF Answers!GitHubBlockers, Answers!AskBlockers
<1>6. CASE Answers!NotionBlockers
  <2> DEFINE links == IF flag THEN blockers ELSE references
  <2>1. kind = "notion" /\ UNCHANGED workflows
    BY <1>6 DEF Answers!NotionBlockers, Answers!AskBlockers
  <2>2. CASE Answers!Blocked(FALSE, TRUE)
    BY <1>1, <2>1, <2>2, Typed
  <2>3. ASSUME NEW readable \in SUBSET Answers!Linked(links),
               Answers!Blocked(Answers!Open(links, readable),
                               readable # Answers!Linked(links) /\ ~(tooLong /\ ~flag))
        PROVE  AnswersInv'
    <3>1. CASE tooLong /\ ~flag
      <4>1. links = references /\ links \in [Blocker -> Answers!State \union {"none"}]
        BY <3>1, Links
      <4>2. /\ Answers!Open(links, readable) \in BOOLEAN
            /\ Answers!Open(links, readable) => Answers!HasOpen(links)
        BY <4>1, ReadLinks
      <4>3. Answers!Blocked(Answers!Open(links, readable), FALSE)
        BY <2>3, <3>1 DEF Answers!Blocked, Answers!Return
      <4>4. Right(Answers!Open(links, readable), failed \/ FALSE, workflows')
        BY <3>1, <4>1, <4>2 DEF Right
      <4> QED
        BY <2>1, <4>2, <4>3, <4>4, Typed, BlockersAnswered
    <3>2. CASE ~(tooLong /\ ~flag)
      <4>1. Answers!Blocked(Answers!Open(links, readable), readable # Answers!Linked(links))
        BY <2>3, <3>2 DEF Answers!Blocked, Answers!Return
      <4>2. links \in {blockers, references}
        OBVIOUS
      <4> QED
        BY <1>3, <2>1, <2>3, <4>1, <4>2
    <3> QED
      BY <3>1, <3>2
  <2> QED
    BY <1>6, <2>2, <2>3 DEF Answers!NotionBlockers
<1>7. CASE Answers!ShortcutBlockers
  <2>1. kind = "shortcut"
    BY <1>7 DEF Answers!ShortcutBlockers, Answers!AskBlockers
  <2>2. CASE Answers!Blocked(FALSE, TRUE) /\ UNCHANGED workflows
    BY <1>1, <2>2, Typed
  <2>3. CASE /\ ~flag \/ Answers!Linked(blockers) = {}
             /\ Answers!Blocked(FALSE, FALSE) /\ UNCHANGED workflows
    <3>1. Right(FALSE, failed \/ FALSE, workflows')
      BY <2>1, <2>3, Links DEF Right, Answers!Linked, Answers!HasOpen
    <3> QED
      BY <2>3, <3>1, Typed, BlockersAnswered
  <2>4. ASSUME Answers!DoneStates, NEW readable \in SUBSET Answers!Linked(blockers),
               Answers!Blocked(IF workflows' THEN Answers!Open(blockers, readable)
                                             ELSE readable # {},
                               ~workflows' \/ readable # Answers!Linked(blockers))
        PROVE  AnswersInv'
    <3>1. workflows' \in BOOLEAN
      BY <2>4, Typed DEF Answers!DoneStates
    <3>2. /\ Answers!Open(blockers, readable) \in BOOLEAN
          /\ Answers!Open(blockers, readable) => Answers!HasOpen(blockers)
          /\ readable = Answers!Linked(blockers) /\ Answers!HasOpen(blockers) =>
               Answers!Open(blockers, readable)
      BY <2>4, Links, ReadLinks
    <3>3. CASE workflows'
      <4>1. Answers!Blocked(Answers!Open(blockers, readable),
                            readable # Answers!Linked(blockers))
        BY <2>4, <3>3 DEF Answers!Blocked, Answers!Return
      <4>2. Right(Answers!Open(blockers, readable),
                  failed \/ readable # Answers!Linked(blockers), workflows')
        BY <2>1, <3>2, Links DEF Right
      <4> QED
        BY <3>1, <3>2, <4>1, <4>2, BlockersAnswered
    <3>4. CASE ~workflows'
      <4>1. Answers!Blocked(readable # {}, TRUE)
        BY <2>4, <3>4 DEF Answers!Blocked, Answers!Return
      <4>2. Right(readable # {}, failed \/ TRUE, workflows')
        BY <2>1, <3>4 DEF Right
      <4> QED
        BY <3>1, <4>1, <4>2, BlockersAnswered
    <3> QED
      BY <3>3, <3>4
  <2> QED
    BY <1>7, <2>2, <2>3, <2>4 DEF Answers!ShortcutBlockers
<1> QED
  BY <1>4, <1>5, <1>6, <1>7

LEMMA MovesNext ==
  ASSUME AnswersInv,
         \/ Answers!NoStatuses \/ Answers!lookupTransitionId
         \/ Answers!lookupWorkflowStateId \/ Answers!resolveWorkflowStateId
         \/ Answers!AsItIs \/ Answers!jiraTransition \/ Answers!linearTransition
         \/ Answers!transitionStory \/ Answers!updateWorkItem
         \/ Answers!notionTransition
  PROVE  AnswersInv'
<1>1. ASSUME NEW to \in {"move", "select"}, pc # "done", pc' = to,
             UNCHANGED <<Answers!world, Answers!children, total, answer, failed>>,
             workflows' \in BOOLEAN, status' \in {"todo", "asked"}
      PROVE  AnswersInv'
  <2>1. UNCHANGED <<inText, native, index>> /\ pc' \in Answers!PC \ {"done"}
    BY <1>1 DEF Answers!children, Answers!PC
  <2> QED
    BY <1>1, <2>1, Typed, GoesOn
<1>2. CASE Answers!NoStatuses
  BY <1>2, Typed, MovedAnswered DEF Answers!NoStatuses
<1>3. ASSUME NEW k, NEW known, Answers!LookedUp(k, known), workflows' \in BOOLEAN
      PROVE  AnswersInv'
  <2>1. pc # "done" /\ UNCHANGED <<Answers!world, Answers!children, status, total>>
    BY <1>3 DEF Answers!LookedUp
  <2>2. CASE Answers!Moved(FALSE, TRUE)
    BY <1>3, <2>1, <2>2, Typed, MovedAnswered
  <2>3. CASE pc' = "move" /\ UNCHANGED <<answer, failed>>
    BY <1>1, <1>3, <2>1, <2>3, Typed
  <2> QED
    BY <1>3, <2>2, <2>3 DEF Answers!LookedUp
<1>4. CASE Answers!lookupTransitionId
  BY <1>3, <1>4, Typed DEF Answers!lookupTransitionId
<1>5. CASE Answers!lookupWorkflowStateId
  BY <1>3, <1>5, Typed DEF Answers!lookupWorkflowStateId
<1>6. CASE Answers!resolveWorkflowStateId
  <2>1. workflows' \in BOOLEAN /\ \E known : Answers!LookedUp("shortcut", known)
    BY <1>6, Typed DEF Answers!resolveWorkflowStateId, Answers!DoneStates, Answers!LookedUp
  <2> QED
    BY <1>3, <2>1
<1>7. CASE Answers!AsItIs
  BY <1>1, <1>7, Typed DEF Answers!AsItIs
<1>8. ASSUME NEW k, Answers!Sent(k)
      PROVE  AnswersInv'
  <2>1. /\ UNCHANGED <<Answers!world, Answers!children, total>>
        /\ workflows' \in BOOLEAN /\ status' \in {"todo", "asked"}
    BY <1>8, Typed DEF Answers!Sent
  <2> QED
    BY <1>8, <2>1, MovedAnswered DEF Answers!Sent
<1>9. CASE Answers!notionTransition
  <2>1. CASE Answers!Sent("notion")
    BY <1>8, <2>1
  <2>2. ASSUME pc = "move", UNCHANGED <<Answers!world, Answers!children, total, workflows>>,
               \/ status' = "asked" /\ Answers!Moved(TRUE, FALSE)
               \/ /\ status' \in {status, "asked"}
                  /\ pc' = "select" /\ UNCHANGED <<answer, failed>>
        PROVE  AnswersInv'
    <3>1. pc # "done" /\ workflows' \in BOOLEAN /\ status' \in {"todo", "asked"}
      BY <2>2, Typed
    <3>2. CASE status' = "asked" /\ Answers!Moved(TRUE, FALSE)
      BY <2>2, <3>1, <3>2, MovedAnswered
    <3>3. CASE pc' = "select" /\ UNCHANGED <<answer, failed>>
      BY <1>1, <2>2, <3>1, <3>3
    <3> QED
      BY <2>2, <3>2, <3>3
  <2> QED
    BY <1>9, <2>1, <2>2 DEF Answers!notionTransition
<1> QED
  BY <1>2, <1>4, <1>5, <1>6, <1>7, <1>8, <1>9
  DEF Answers!jiraTransition, Answers!linearTransition, Answers!transitionStory,
      Answers!updateWorkItem

LEMMA AnswersNext == AnswersInv /\ [Answers!Next]_Answers!vars => AnswersInv'
<1> SUFFICES ASSUME AnswersInv, [Answers!Next]_Answers!vars PROVE AnswersInv'
  OBVIOUS
<1>1. ASSUME Answers!AskChildren PROVE AnswersInv'
  <2>1. /\ pc # "done" /\ pc' = "children" /\ pc' \in Answers!PC \ {"done"}
        /\ UNCHANGED <<Answers!world, inText, native, index, status, total, workflows, answer,
                       failed>>
    BY <1>1 DEF Answers!AskChildren, Answers!children, Answers!PC
  <2> QED
    BY <2>1, Typed, GoesOn
<1>2. ASSUME Answers!JiraChildren PROVE AnswersInv'
  BY <1>2, TwoCounts DEF Answers!JiraChildren, OnlyAnswers
<1>3. ASSUME Answers!GitHubChildren PROVE AnswersInv'
  <2>1. OnlyAnswers /\ kind \in {"github", "jira"}
    BY <1>3 DEF Answers!GitHubChildren, OnlyAnswers
  <2>2. CASE \/ Answers!CountByText \/ Answers!CountOpenByText
             \/ Answers!CountByLink \/ Answers!CountOpenByLink
    BY <2>1, <2>2, TwoCounts
  <2>3. ASSUME UNCHANGED <<total, workflows>>,
               NEW n \in {total, 1}, NEW fail \in BOOLEAN, Answers!ReturnChildren(n, n, fail)
        PROVE  AnswersInv'
    <3>1. n \in 0..MaxChildren
      BY Typed
    <3> QED
      BY <2>1, <2>3, <3>1, NoneCounted
  <2> QED
    BY <1>3, <2>2, <2>3 DEF Answers!GitHubChildren
<1>4. ASSUME Answers!LinearChildren PROVE AnswersInv'
  BY <1>4, NodesCounted, NotCounted DEF Answers!LinearChildren, OnlyAnswers
<1>5. ASSUME Answers!NotionChildren PROVE AnswersInv'
  BY <1>5, NodesCounted, BatchesCounted, NotCounted DEF Answers!NotionChildren, OnlyAnswers
<1>6. ASSUME Answers!AzdoChildren PROVE AnswersInv'
  BY <1>6, BatchesCounted, NotCounted DEF Answers!AzdoChildren, OnlyAnswers
<1>7. ASSUME Answers!ShortcutChildren PROVE AnswersInv'
  BY <1>7, StoriesCounted, NotCounted
  DEF Answers!ShortcutChildren, OnlyAnswers
<1>8. ASSUME NEW c \in Answers!Child, Answers!ChildChanges(c) PROVE AnswersInv'
  <2>1. PICK s \in Answers!State :
          \/ inText' = [inText EXCEPT ![c] = s] /\ UNCHANGED native
          \/ native' = [native EXCEPT ![c] = s] /\ UNCHANGED inText
    BY <1>8 DEF Answers!ChildChanges
  <2>2. s # "none"
    BY DEF Answers!State
  <2>3. /\ inText' \in [Answers!Child -> Answers!State \union {"none"}]
        /\ native' \in [Answers!Child -> Answers!State \union {"none"}]
    BY <2>1, Typed
  <2>4. (SomeChild(inText) => SomeChild(inText)') /\ (SomeChild(native) => SomeChild(native)')
    BY <2>1, <2>2, Typed DEF SomeChild
  <2>5. /\ UNCHANGED <<Answers!world, index, status, pc, total, workflows, answer, failed>>
        /\ pc # "done"
    BY <1>8 DEF Answers!ChildChanges
  <2>6. /\ pc' = "textOpen" => SomeChild(inText)'
        /\ pc' = "nativeOpen" => SomeChild(native)'
    BY <2>4, <2>5 DEF AnswersInv, Pending
  <2> QED
    BY <2>3, <2>5, <2>6, Typed, GoesOn
<1>11. ASSUME NEW c \in Answers!Child, Answers!IndexCatchesUp(c) PROVE AnswersInv'
  <2>1. /\ UNCHANGED <<Answers!world, inText, native, status, pc, total, workflows, answer,
                       failed>>
        /\ pc # "done"
    BY <1>11 DEF Answers!IndexCatchesUp
  <2>2. index' \in [Answers!Child -> Answers!State \union {"none"}]
    BY <1>11, Typed DEF Answers!IndexCatchesUp
  <2>3. /\ pc' = "textOpen" => SomeChild(inText)'
        /\ pc' = "nativeOpen" => SomeChild(native)'
    BY <2>1 DEF AnswersInv, Pending, SomeChild
  <2> QED
    BY <2>1, <2>2, <2>3, Typed, GoesOn
<1>9. ASSUME Answers!Again PROVE AnswersInv'
  <2>1. answer' = Answers!None /\ pc' = "idle" /\ failed' = FALSE /\ total' = 0
    BY <1>9 DEF Answers!Again
  <2>2. UNCHANGED <<Answers!world, Answers!children, status, workflows>>
    BY <1>9 DEF Answers!Again
  <2>3. Answers!TypeOK'
    <3>1. pc' \in Answers!PC /\ failed' \in BOOLEAN
      BY <2>1 DEF Answers!PC
    <3>2. /\ answer' \in Answers!Answer /\ answer'.total <= MaxChildren
          /\ answer'.incomplete <= answer'.total
      BY <2>1, NoAnswer, Typed
    <3>3. /\ total' \in 0..MaxChildren
          /\ status' \in {"todo", "asked"} /\ workflows' \in BOOLEAN
      BY <2>1, <2>2, Typed
    <3> QED
      BY <2>2, <3>1, <3>2, <3>3, StillTyped
  <2>4. Pending'
    BY <2>1, <2>2 DEF Pending, AnswersInv, Answers!world
  <2>5. Answers!AnswersHold'
    BY <2>1, NoAnswer DEF Answers!AnswersHold
  <2> QED
    BY <2>3, <2>4, <2>5 DEF AnswersInv
<1>10. CASE UNCHANGED Answers!vars
  BY <1>10 DEF AnswersInv, Answers!vars, Answers!world, Answers!children, Answers!TypeOK,
     Pending, SomeChild, Answers!AnswersHold, Answers!BlockedAnswer, Answers!CompleteAnswer,
     Answers!HasOpen, Answers!SeenOpen, Answers!Count
<1> QED
  BY <1>1, <1>2, <1>3, <1>4, <1>5, <1>6, <1>7, <1>8, <1>9, <1>10, <1>11, BlockersNext, MovesNext
  DEF Answers!Next

-----------------------------------------------------------------------------
(* The queue of a board *)

(* A ticket is its place in the queue: a set of tickets has a first one.   *)
LEMMA Least ==
  ASSUME NEW T, T \subseteq Nat, T # {}
  PROVE  \E m \in T : \A k \in T : m <= k
<1>1. PICK m \in T : \A k \in T : ~(<<k, m>> \in OpToRel(<, Nat))
  BY NatLessThanWellFounded, WFMin, Zenon
<1>2. \A k \in T : ~(k < m)
  <2> TAKE k \in T
  <2>1. k \in Nat /\ m \in Nat
    OBVIOUS
  <2>2. k < m => <<k, m>> \in OpToRel(<, Nat)
    BY <2>1 DEF OpToRel
  <2> QED
    BY <1>1, <2>2
<1>3. \A k \in T : m <= k
  BY <1>2
<1> QED
  BY <1>3

LEMMA CountingQueue == \A S : Queue!Cardinality(S) = Cardinality(S)
BY DEF Queue!Cardinality, Cardinality

LEMMA QueueFinite ==
  /\ IsFiniteSet(Queue!Ticket) /\ Queue!Ticket \subseteq Nat
  /\ \A ts \in SUBSET Queue!Ticket :
       IsFiniteSet(ts) /\ Cardinality(ts) \in Nat /\ \A t \in ts : t \in Nat
<1>1. Tickets \in Nat
  BY ServiceBounds DEF Queue!QueueBounds
<1>2. IsFiniteSet(Queue!Ticket) /\ Queue!Ticket \subseteq Nat
  BY <1>1, FS_Interval DEF Queue!Ticket
<1> QED
  BY <1>2, FS_Subset, FS_CardinalityType

LEMMA Ahead ==
  ASSUME NEW ts \in SUBSET Queue!Ticket, NEW t
  PROVE  /\ Queue!Before(t, ts) \in Nat
         /\ Queue!Before(t, ts) = Cardinality({u \in ts : u < t})
         /\ IsFiniteSet({u \in ts : u < t})
<1>1. {u \in ts : u < t} \in SUBSET Queue!Ticket
  OBVIOUS
<1> QED
  BY <1>1, QueueFinite, CountingQueue DEF Queue!Before

(* More tickets, more of them before this one. *)
LEMMA MoreAhead ==
  ASSUME NEW ts \in SUBSET Queue!Ticket, NEW more \in SUBSET Queue!Ticket, NEW t,
         ts \subseteq more
  PROVE  Queue!Before(t, ts) <= Queue!Before(t, more)
<1> DEFINE few == {u \in ts : u < t}
           many == {u \in more : u < t}
<1>1. few \subseteq many
  OBVIOUS
<1>2. /\ IsFiniteSet(many)
      /\ Queue!Before(t, ts) = Cardinality(few) /\ Queue!Before(t, more) = Cardinality(many)
  BY Ahead
<1> HIDE DEF few, many
<1> QED
  BY <1>1, <1>2, FS_Subset

(* The first n tickets of a list: at most n, one at least if there are     *)
(* any, and n before every ticket that is not among them.                  *)
LEMMA FirstAtMost ==
  ASSUME NEW ts \in SUBSET Queue!Ticket, NEW n \in Nat
  PROVE  Cardinality(Queue!First(ts, n)) <= n
<1> DEFINE F == Queue!First(ts, n)
<1>1. F \subseteq ts /\ F \in SUBSET Queue!Ticket /\ IsFiniteSet(F)
  BY QueueFinite DEF Queue!First
<1>2. CASE F = {}
  BY <1>2, FS_EmptySet
<1>3. CASE F # {}
  <2> DEFINE bounds == {b \in Nat : \A t \in F : t <= b}
  <2>1. Tickets \in bounds
    BY <1>1, ServiceBounds DEF Queue!QueueBounds, Queue!Ticket
  <2>2. PICK m \in bounds : \A b \in bounds : m <= b
    BY <2>1, Least
  <2>3. m \in F
    <3>1. SUFFICES ASSUME m \notin F PROVE FALSE
      OBVIOUS
    <3>2. \A t \in F : t \in Nat /\ t <= m /\ t # m /\ t > 0
      BY <1>1, <3>1, QueueFinite DEF Queue!Ticket
    <3>3. m \in Nat /\ m > 0
      BY <1>3, <3>2
    <3>4. m - 1 \in Nat /\ \A t \in F : t <= m - 1
      BY <3>2, <3>3
    <3>5. m - 1 \in bounds
      BY <3>4
    <3> QED
      BY <2>2, <3>3, <3>5
  <2> DEFINE before == {u \in ts : u < m}
  <2>4. Cardinality(before) < n /\ IsFiniteSet(before)
    <3>1. Queue!Before(m, ts) < n
      BY <2>3 DEF Queue!First
    <3> QED
      BY <3>1, Ahead
  <2>5. F \subseteq before \union {m}
    <3>1. \A t \in F : t \in Nat /\ m \in Nat /\ t <= m
      BY <1>1, <2>2, QueueFinite
    <3>2. \A t \in F : t \in ts /\ (t < m \/ t = m)
      BY <1>1, <3>1
    <3> QED
      BY <3>2
  <2>6. Cardinality(before \union {m}) = Cardinality(before) + 1
    <3>1. m \notin before
      OBVIOUS
    <3> QED
      BY <2>4, <3>1, FS_AddElement
  <2>7. IsFiniteSet(before \union {m})
    BY <2>4, FS_AddElement
  <2>8. Cardinality(F) <= Cardinality(before \union {m})
    BY <2>5, <2>7, FS_Subset
  <2> HIDE DEF F, before
  <2>9. Cardinality(F) \in Nat /\ Cardinality(before) \in Nat
    BY <1>1, <2>4, FS_CardinalityType
  <2> QED
    BY <2>4, <2>6, <2>8, <2>9 DEF F
<1> QED
  BY <1>2, <1>3

LEMMA FirstOfAny ==
  ASSUME NEW ts \in SUBSET Queue!Ticket, NEW n \in Nat \ {0}, ts # {}
  PROVE  Queue!First(ts, n) # {}
<1>1. PICK m \in ts : \A k \in ts : m <= k
  BY Least, QueueFinite
<1>2. {u \in ts : u < m} = {}
  <2>1. \A u \in ts : u \in Nat /\ m \in Nat /\ m <= u
    BY <1>1, QueueFinite
  <2>2. \A u \in ts : ~(u < m)
    BY <2>1
  <2> QED
    BY <2>2
<1>3. Queue!Before(m, ts) = 0
  BY <1>2, Ahead, FS_EmptySet
<1> QED
  BY <1>3 DEF Queue!First

LEMMA BehindTheFirst ==
  ASSUME NEW ts \in SUBSET Queue!Ticket, NEW n \in Nat,
         NEW t \in ts, t \notin Queue!First(ts, n)
  PROVE  Queue!Before(t, Queue!First(ts, n)) >= n
<1> DEFINE F == Queue!First(ts, n)
           rest == {u \in ts : u \notin F}
<1>1. rest # {} /\ rest \subseteq Nat
  BY QueueFinite
<1>2. PICK m \in rest : \A k \in rest : m <= k
  BY <1>1, Least
<1>3. Queue!Before(m, ts) >= n
  <2>1. m \in ts /\ ~(Queue!Before(m, ts) < n)
    BY <1>2 DEF Queue!First
  <2>2. Queue!Before(m, ts) \in Nat
    BY Ahead
  <2> QED
    BY <2>1, <2>2
<1>4. {u \in ts : u < m} \subseteq {u \in F : u < t}
  <2>1. m <= t /\ m \in Nat /\ t \in Nat /\ \A u \in ts : u \in Nat
    BY <1>2, QueueFinite
  <2>2. \A u \in ts : u < m => u \notin rest /\ u < t
    BY <1>2, <2>1
  <2> QED
    BY <2>2
<1>5. F \in SUBSET Queue!Ticket
  BY DEF Queue!First
<1> HIDE DEF F, rest
<1>6. /\ Queue!Before(m, ts) = Cardinality({u \in ts : u < m})
      /\ Queue!Before(t, F) = Cardinality({u \in F : u < t})
      /\ IsFiniteSet({u \in F : u < t})
      /\ Queue!Before(m, ts) \in Nat /\ Queue!Before(t, F) \in Nat
  BY <1>5, Ahead
<1>7. Cardinality({u \in ts : u < m}) <= Cardinality({u \in F : u < t})
  BY <1>4, <1>6, FS_Subset
<1> QED
  BY <1>3, <1>6, <1>7 DEF F

LEMMA FirstOf ==
  ASSUME NEW ts \in SUBSET Queue!Ticket, NEW n \in Nat \ {0}
  PROVE  /\ Queue!First(ts, n) \subseteq ts /\ Queue!First(ts, n) \in SUBSET Queue!Ticket
         /\ Cardinality(Queue!First(ts, n)) <= n
         /\ Queue!First(ts, n) = {} => ts = {}
         /\ \A t \in ts : t \notin Queue!First(ts, n) =>
              Queue!Before(t, Queue!First(ts, n)) >= n
<1>1. n \in Nat
  OBVIOUS
<1> QED
  BY <1>1, FirstAtMost, FirstOfAny, BehindTheFirst DEF Queue!First

(* Pull requests are GitHub's.  On Azure DevOps the ids are those of the   *)
(* first waiting tickets, unless somebody has moved one since.             *)
QueueHeld ==
  /\ pc # "done" => offered = {}
  /\ kind # "github" => Queue!PullRequest = {}
  /\ pc = "items" /\ ~moved => ids = Queue!First(Queue!Waiting, limit * 2)

QueueInv ==
  /\ Queue!TypeOK /\ QueueHeld
  /\ Queue!OfferedMayBeTaken /\ Queue!EmptyMeansNothingInReach

(* The numbers a request is made with. *)
LEMMA Numbers ==
  ASSUME Queue!TypeOK
  PROVE  /\ limit \in Nat \ {0} /\ limit * 2 \in Nat \ {0} /\ 2 * limit = limit * 2
         /\ MaxPage \in Nat \ {0}
         /\ Queue!perPage \in Nat \ {0} /\ Queue!fetchLimit \in Nat \ {0}
<1>1. /\ limit \in Nat \ {0} /\ MinPage \in Nat \ {0} /\ MaxPage \in Nat \ {0}
      /\ MaxFirst \in Nat \ {0}
  BY ServiceBounds DEF Queue!TypeOK, Queue!QueueBounds
<1>2. limit * 2 \in Nat \ {0} /\ 2 * limit = limit * 2
  BY <1>1
<1>3. Queue!perPage \in Nat \ {0}
  BY <1>1, <1>2 DEF Queue!perPage, Queue!Smaller, Queue!Larger
<1>4. Queue!fetchLimit \in Nat \ {0}
  BY <1>1 DEF Queue!fetchLimit, Queue!Smaller, Queue!Larger
<1> QED
  BY <1>1, <1>2, <1>3, <1>4

(* The sets of tickets a query and a filter choose from. *)
LEMMA Sorts ==
  ASSUME Queue!TypeOK
  PROVE  /\ Queue!Labelled \in SUBSET Queue!Ticket /\ Queue!Waiting \in SUBSET Queue!Ticket
         /\ Queue!Hitl \in SUBSET Queue!Ticket /\ Queue!PullRequest \in SUBSET Queue!Ticket
         /\ Queue!Excluded \subseteq Queue!Hitl /\ (~excludeHitl => Queue!Excluded = {})
         /\ Queue!Eligible \subseteq Queue!Labelled \intersect Queue!Waiting
         /\ Queue!Eligible \intersect (Queue!PullRequest \union Queue!Hitl) = {}
BY DEF Queue!TypeOK, Queue!Labelled, Queue!Waiting, Queue!Hitl, Queue!PullRequest,
   Queue!Excluded, Queue!Eligible

LEMMA QueueInit == Queue!Init => QueueInv
<1> SUFFICES ASSUME Queue!Init PROVE QueueInv
  OBVIOUS
<1>1. Queue!TypeOK
  <2>1. limit \in Nat \ {0} /\ limit \in Limits
    BY ServiceBounds DEF Queue!Init, Queue!QueueBounds
  <2>2. Queue!Cardinality(offered) <= limit
    <3>1. offered = {} /\ Queue!Cardinality(offered) = 0
      BY FS_EmptySet, CountingQueue DEF Queue!Init
    <3> QED
      BY <2>1, <3>1
  <2>3. board \in [Queue!Ticket -> Queue!Sort]
    <3>1. CASE kind = "github"
      BY <3>1 DEF Queue!Init
    <3>2. CASE kind # "github"
      <4>1. board \in [Queue!Ticket -> Queue!Sort \ {"pullRequest"}]
        BY <3>2 DEF Queue!Init
      <4> QED
        BY <4>1
    <3> QED
      BY <3>1, <3>2
  <2> QED
    BY <2>1, <2>2, <2>3 DEF Queue!Init, Queue!TypeOK, Queue!Ticket
<1>2. QueueHeld
  BY <1>1, Sorts DEF Queue!Init, QueueHeld, Queue!PullRequest
<1>3. Queue!OfferedMayBeTaken /\ Queue!EmptyMeansNothingInReach
  BY DEF Queue!Init, Queue!OfferedMayBeTaken, Queue!EmptyMeansNothingInReach
<1> QED
  BY <1>1, <1>2, <1>3 DEF QueueInv

(* What an answer has to be.                                               *)
GoodAnswer(tickets) ==
  /\ tickets \in SUBSET Queue!Ticket /\ Cardinality(tickets) <= limit
  /\ tickets \subseteq Queue!Labelled \ (Queue!PullRequest \union Queue!Excluded)
  /\ kind # "azdo" => tickets \subseteq Queue!Waiting

OutOfReach(t) ==
  CASE kind = "github" ->
         Queue!Before(t, (Queue!Labelled \intersect Queue!Waiting) \ Queue!Eligible)
           >= Queue!perPage
    [] kind = "linear" ->
         excludeHitl /\ Queue!Before(t, Queue!Hitl) >= Queue!fetchLimit
    [] kind = "notion" -> Queue!Before(t, Queue!Waiting \ Queue!Eligible) >= MaxPage
    [] kind = "azdo" ->
         moved \/ Queue!Before(t, Queue!Waiting \ Queue!Eligible) >= 2 * limit
    [] OTHER -> FALSE

LEMMA Answered ==
  ASSUME QueueInv, NEW tickets, NEW fail \in BOOLEAN, Queue!Answer(tickets, fail),
         UNCHANGED <<Queue!opts, board, moved>>,
         username' \in {"none", "login", "@me"}, ids' \in SUBSET Queue!Ticket,
         GoodAnswer(tickets),
         tickets = {} /\ ~fail => \A t \in Queue!Eligible : OutOfReach(t)
  PROVE  QueueInv'
<1>1. /\ offered' = tickets /\ failed' = fail /\ pc' = "done"
      /\ UNCHANGED <<kind, excludeHitl, limit, board, moved>>
  BY DEF Queue!Answer, Queue!opts
<1>2. Queue!TypeOK'
  BY <1>1, CountingQueue DEF QueueInv, Queue!TypeOK, GoodAnswer
<1>3. QueueHeld'
  BY <1>1 DEF QueueInv, QueueHeld, Queue!PullRequest
<1>4. Queue!OfferedMayBeTaken'
  BY <1>1 DEF GoodAnswer, Queue!OfferedMayBeTaken, Queue!Labelled, Queue!PullRequest,
     Queue!Excluded, Queue!Hitl, Queue!Waiting
<1>5. Queue!EmptyMeansNothingInReach'
  <2>1. UNCHANGED <<Queue!Eligible, Queue!Labelled, Queue!Waiting, Queue!Hitl,
                    Queue!perPage, Queue!fetchLimit>>
    BY <1>1 DEF Queue!Eligible, Queue!Labelled, Queue!Waiting, Queue!Hitl,
       Queue!perPage, Queue!fetchLimit
  <2> QED
    BY <1>1, <2>1 DEF OutOfReach, Queue!EmptyMeansNothingInReach, Queue!Before
<1> QED
  BY <1>2, <1>3, <1>4, <1>5 DEF QueueInv

LEMMA Failed ==
  ASSUME QueueInv
  PROVE  GoodAnswer({})
<1>1. Cardinality({}) = 0 /\ limit \in Nat
  BY FS_EmptySet, Numbers DEF QueueInv
<1> QED
  BY <1>1 DEF GoodAnswer

(* A page is cut before what is on it is looked at: an eligible ticket     *)
(* that is not offered, though nothing is, has the whole page before it.   *)
LEMMA BehindThePageCut ==
  ASSUME NEW ts \in SUBSET Queue!Ticket, NEW n \in Nat \ {0}, NEW t \in ts,
         NEW more \in SUBSET Queue!Ticket,
         t \notin Queue!First(ts, n), Queue!First(ts, n) \subseteq more
  PROVE  Queue!Before(t, more) >= n
<1>1. /\ Queue!First(ts, n) \in SUBSET Queue!Ticket
      /\ Queue!Before(t, Queue!First(ts, n)) >= n
  BY FirstOf
<1>2. Queue!Before(t, Queue!First(ts, n)) <= Queue!Before(t, more)
  BY <1>1, MoreAhead
<1>3. Queue!Before(t, Queue!First(ts, n)) \in Nat /\ Queue!Before(t, more) \in Nat
  BY <1>1, Ahead
<1> QED
  BY <1>1, <1>2, <1>3

LEMMA JiraAndShortcut ==
  ASSUME QueueInv, kind \in {"jira", "shortcut"},
         NEW tickets \in {Queue!JiraTickets, Queue!ShortcutTickets}
  PROVE  /\ GoodAnswer(tickets)
         /\ tickets = {} => \A t \in Queue!Eligible : OutOfReach(t)
<1> DEFINE some == (Queue!Labelled \intersect Queue!Waiting) \ Queue!Excluded
<1>1. some \in SUBSET Queue!Ticket /\ limit \in Nat \ {0} /\ Queue!PullRequest = {}
  BY Sorts, Numbers DEF QueueInv, QueueHeld
<1>2. tickets = Queue!First(some, limit)
  <2>1. some = Queue!Labelled \intersect (Queue!Waiting \ Queue!Excluded)
    OBVIOUS
  <2> QED
    BY <2>1 DEF Queue!JiraTickets, Queue!ShortcutTickets
<1>3. GoodAnswer(tickets)
  BY <1>1, <1>2, FirstOf DEF GoodAnswer
<1>4. tickets = {} => Queue!Eligible = {}
  <2>1. tickets = {} => some = {}
    BY <1>1, <1>2, FirstOf
  <2>2. Queue!Eligible \subseteq some
    BY Sorts DEF QueueInv
  <2> QED
    BY <2>1, <2>2
<1> QED
  BY <1>3, <1>4

LEMMA GitHub ==
  ASSUME QueueInv, kind = "github"
  PROVE  /\ GoodAnswer(Queue!GitHubTickets)
         /\ Queue!GitHubTickets = {} => \A t \in Queue!Eligible : OutOfReach(t)
<1> DEFINE some == Queue!Labelled \intersect Queue!Waiting
           page == Queue!First(some, Queue!perPage)
           kept == page \ (Queue!PullRequest \union Queue!Excluded)
<1>1. some \in SUBSET Queue!Ticket /\ limit \in Nat \ {0} /\ Queue!perPage \in Nat \ {0}
  BY Sorts, Numbers DEF QueueInv
<1>2. page \in SUBSET some
  BY <1>1, FirstOf
<1>3. Queue!GitHubTickets = Queue!First(kept, limit)
  BY DEF Queue!GitHubTickets
<1>4. kept \in SUBSET Queue!Ticket
  BY <1>1, <1>2
<1>5. GoodAnswer(Queue!GitHubTickets)
  <2>1. /\ Queue!First(kept, limit) \subseteq kept
        /\ Queue!First(kept, limit) \in SUBSET Queue!Ticket
        /\ Cardinality(Queue!First(kept, limit)) <= limit
    BY <1>1, <1>4, FirstOf
  <2> QED
    BY <1>2, <1>3, <2>1 DEF GoodAnswer
<1>6. ASSUME Queue!GitHubTickets = {}, NEW t \in Queue!Eligible
      PROVE  OutOfReach(t)
  <2>1. kept = {}
    BY <1>1, <1>3, <1>4, <1>6, FirstOf
  <2>2. t \in some /\ t \notin page /\ page \subseteq some \ Queue!Eligible
    BY <1>2, <2>1, Sorts DEF QueueInv
  <2>3. some \ Queue!Eligible \in SUBSET Queue!Ticket
    BY <1>1
  <2> HIDE DEF some, kept
  <2>4. Queue!Before(t, some \ Queue!Eligible) >= Queue!perPage
    BY <1>1, <2>2, <2>3, BehindThePageCut
  <2> QED
    BY <2>4 DEF OutOfReach, some
<1> QED
  BY <1>5, <1>6

LEMMA Linear ==
  ASSUME QueueInv, kind = "linear"
  PROVE  /\ GoodAnswer(Queue!LinearTickets)
         /\ Queue!LinearTickets = {} => \A t \in Queue!Eligible : OutOfReach(t)
<1> DEFINE some == Queue!Labelled \intersect Queue!Waiting
           page == Queue!First(some, Queue!fetchLimit)
           kept == page \ Queue!Excluded
<1>1. /\ some \in SUBSET Queue!Ticket /\ limit \in Nat \ {0} /\ Queue!fetchLimit \in Nat \ {0}
      /\ Queue!PullRequest = {}
  BY Sorts, Numbers DEF QueueInv, QueueHeld
<1>2. page \in SUBSET some
  BY <1>1, FirstOf
<1>3. Queue!LinearTickets = Queue!First(kept, limit)
  BY DEF Queue!LinearTickets
<1>4. kept \in SUBSET Queue!Ticket
  BY <1>1, <1>2
<1>5. GoodAnswer(Queue!LinearTickets)
  <2>1. /\ Queue!First(kept, limit) \subseteq kept
        /\ Queue!First(kept, limit) \in SUBSET Queue!Ticket
        /\ Cardinality(Queue!First(kept, limit)) <= limit
    BY <1>1, <1>4, FirstOf
  <2> QED
    BY <1>1, <1>2, <1>3, <2>1 DEF GoodAnswer
<1>6. ASSUME Queue!LinearTickets = {}, NEW t \in Queue!Eligible
      PROVE  OutOfReach(t)
  <2>1. page \subseteq Queue!Excluded
    BY <1>1, <1>3, <1>4, <1>6, FirstOf
  <2>2. t \in some /\ t \notin page /\ page \subseteq Queue!Hitl
    BY <2>1, Sorts DEF QueueInv
  <2>3. page # {}
    BY <1>1, <2>2, FirstOf
  <2>4. excludeHitl
    BY <2>1, <2>3, Sorts DEF QueueInv
  <2>5. Queue!Hitl \in SUBSET Queue!Ticket
    BY Sorts DEF QueueInv
  <2> HIDE DEF some, kept
  <2>6. Queue!Before(t, Queue!Hitl) >= Queue!fetchLimit
    BY <1>1, <2>2, <2>5, BehindThePageCut
  <2> QED
    BY <2>4, <2>6 DEF OutOfReach
<1> QED
  BY <1>5, <1>6

LEMMA Notion ==
  ASSUME QueueInv, kind = "notion"
  PROVE  /\ GoodAnswer(Queue!NotionTickets)
         /\ Queue!NotionTickets = {} => \A t \in Queue!Eligible : OutOfReach(t)
<1> DEFINE page == Queue!First(Queue!Waiting, MaxPage)
           kept == (page \ Queue!Excluded) \intersect Queue!Labelled
<1>1. /\ Queue!Waiting \in SUBSET Queue!Ticket /\ limit \in Nat \ {0} /\ MaxPage \in Nat \ {0}
      /\ Queue!PullRequest = {}
  BY Sorts, Numbers DEF QueueInv, QueueHeld
<1>2. page \in SUBSET Queue!Waiting
  BY <1>1, FirstOf
<1>3. Queue!NotionTickets = Queue!First(kept, limit)
  BY DEF Queue!NotionTickets
<1>4. kept \in SUBSET Queue!Ticket
  BY <1>1, <1>2
<1>5. GoodAnswer(Queue!NotionTickets)
  <2>1. /\ Queue!First(kept, limit) \subseteq kept
        /\ Queue!First(kept, limit) \in SUBSET Queue!Ticket
        /\ Cardinality(Queue!First(kept, limit)) <= limit
    BY <1>1, <1>4, FirstOf
  <2> QED
    BY <1>1, <1>2, <1>3, <2>1 DEF GoodAnswer
<1>6. ASSUME Queue!NotionTickets = {}, NEW t \in Queue!Eligible
      PROVE  OutOfReach(t)
  <2>1. kept = {}
    BY <1>1, <1>3, <1>4, <1>6, FirstOf
  <2>2. t \in Queue!Waiting /\ t \notin page /\ page \subseteq Queue!Waiting \ Queue!Eligible
    BY <1>2, <2>1, Sorts DEF QueueInv
  <2>3. Queue!Waiting \ Queue!Eligible \in SUBSET Queue!Ticket
    BY <1>1
  <2> HIDE DEF kept
  <2>4. Queue!Before(t, Queue!Waiting \ Queue!Eligible) >= MaxPage
    BY <1>1, <2>2, <2>3, BehindThePageCut
  <2> QED
    BY <2>4 DEF OutOfReach
<1> QED
  BY <1>5, <1>6

(* Azure DevOps, second request: the ids may be stale. *)
LEMMA Items ==
  ASSUME QueueInv, kind = "azdo", pc = "items"
  PROVE  LET kept == (ids \ Queue!Excluded) \intersect Queue!Labelled
             tickets == Queue!First(kept, limit)
         IN  /\ GoodAnswer(tickets)
             /\ tickets = {} => \A t \in Queue!Eligible : OutOfReach(t)
<1> DEFINE kept == (ids \ Queue!Excluded) \intersect Queue!Labelled
           tickets == Queue!First(kept, limit)
<1>1. /\ Queue!Waiting \in SUBSET Queue!Ticket /\ limit \in Nat \ {0}
      /\ limit * 2 \in Nat \ {0} /\ 2 * limit = limit * 2
      /\ Queue!PullRequest = {} /\ ids \in SUBSET Queue!Ticket
  BY Sorts, Numbers DEF QueueInv, QueueHeld, Queue!TypeOK
<1>2. /\ tickets \subseteq kept /\ tickets \in SUBSET Queue!Ticket
      /\ Cardinality(tickets) <= limit /\ (tickets = {} => kept = {})
  BY <1>1, FirstOf
<1>3. GoodAnswer(tickets)
  BY <1>1, <1>2 DEF GoodAnswer
<1>4. ASSUME tickets = {}, NEW t \in Queue!Eligible
      PROVE  OutOfReach(t)
  <2>1. CASE moved
    BY <2>1 DEF OutOfReach
  <2>2. CASE ~moved
    <3>1. ids = Queue!First(Queue!Waiting, limit * 2)
      BY <2>2 DEF QueueInv, QueueHeld
    <3>2. ids \subseteq Queue!Waiting
      BY <1>1, <3>1, FirstOf
    <3>3. t \in Queue!Waiting /\ t \notin ids /\ ids \subseteq Queue!Waiting \ Queue!Eligible
      BY <1>2, <1>4, <3>2, Sorts DEF QueueInv
    <3>4. Queue!Waiting \ Queue!Eligible \in SUBSET Queue!Ticket
      BY <1>1
    <3>5. Queue!Before(t, Queue!Waiting \ Queue!Eligible) >= limit * 2
      BY <1>1, <3>1, <3>3, <3>4, BehindThePageCut
    <3> QED
      BY <1>1, <3>5 DEF OutOfReach
  <2> QED
    BY <2>1, <2>2
<1> QED
  BY <1>3, <1>4

LEMMA QueueNext == QueueInv /\ [Queue!Next]_Queue!vars => QueueInv'
<1> SUFFICES ASSUME QueueInv, [Queue!Next]_Queue!vars PROVE QueueInv'
  OBVIOUS
<1>1. username \in {"none", "login", "@me"} /\ ids \in SUBSET Queue!Ticket
  BY DEF QueueInv, Queue!TypeOK
<1>2. ASSUME Queue!FetchGitHub PROVE QueueInv'
  <2>1. /\ kind = "github" /\ UNCHANGED <<Queue!opts, board, ids, moved>>
        /\ username' \in {"none", "login", "@me"}
    BY <1>1, <1>2 DEF Queue!FetchGitHub, Queue!resolveUsername
  <2>2. CASE Queue!Answer(Queue!GitHubTickets, FALSE)
    BY <1>1, <2>1, <2>2, GitHub, Answered
  <2>3. CASE Queue!Answer({}, TRUE)
    BY <1>1, <2>1, <2>3, Failed, Answered
  <2> QED
    BY <1>2, <2>2, <2>3 DEF Queue!FetchGitHub
<1>3. ASSUME NEW k, NEW tickets, Queue!FetchOne(k, tickets), GoodAnswer(tickets),
             tickets = {} => \A t \in Queue!Eligible : OutOfReach(t)
      PROVE  QueueInv'
  BY <1>1, <1>3, Answered DEF Queue!FetchOne
<1>4. ASSUME Queue!Fetch PROVE QueueInv'
  <2>1. CASE Queue!FetchOne("jira", Queue!JiraTickets)
    BY <1>3, <2>1, JiraAndShortcut DEF Queue!FetchOne
  <2>2. CASE Queue!FetchOne("linear", Queue!LinearTickets)
    BY <1>3, <2>2, Linear DEF Queue!FetchOne
  <2>3. CASE Queue!FetchOne("shortcut", Queue!ShortcutTickets)
    BY <1>3, <2>3, JiraAndShortcut DEF Queue!FetchOne
  <2>4. CASE Queue!FetchOne("notion", Queue!NotionTickets)
    BY <1>3, <2>4, Notion DEF Queue!FetchOne
  <2> QED
    BY <1>4, <2>1, <2>2, <2>3, <2>4 DEF Queue!Fetch
<1>5. ASSUME Queue!FetchFails PROVE QueueInv'
  BY <1>1, <1>5, Failed, Answered DEF Queue!FetchFails
<1>6. ASSUME Queue!RunWiql PROVE QueueInv'
  <2>1. CASE Queue!Waiting = {} /\ Queue!Answer({}, FALSE) /\ UNCHANGED ids
    <3>1. Queue!Eligible = {}
      BY <2>1, Sorts DEF QueueInv
    <3> QED
      BY <1>1, <1>6, <2>1, <3>1, Failed, Answered DEF Queue!RunWiql
  <2>2. CASE /\ ids' = Queue!First(Queue!Waiting, limit * 2)
             /\ pc' = "items" /\ UNCHANGED <<offered, failed>>
    <3>1. UNCHANGED <<kind, excludeHitl, limit, board, username, moved>> /\ pc = "idle"
      BY <1>6 DEF Queue!RunWiql, Queue!opts
    <3>2. ids' \in SUBSET Queue!Ticket
      BY <2>2, FirstOf, Sorts, Numbers DEF QueueInv
    <3>3. Queue!TypeOK'
      BY <2>2, <3>1, <3>2, CountingQueue DEF QueueInv, Queue!TypeOK
    <3>4. UNCHANGED <<Queue!Waiting, Queue!PullRequest>>
      BY <3>1 DEF Queue!Waiting, Queue!PullRequest
    <3>5. QueueHeld'
      <4>1. offered' = {}
        BY <2>2, <3>1 DEF QueueInv, QueueHeld
      <4>2. Queue!First(Queue!Waiting, limit * 2)' = Queue!First(Queue!Waiting, limit * 2)
        BY <3>1, <3>4 DEF Queue!First, Queue!Before
      <4> QED
        BY <2>2, <3>1, <3>4, <4>1, <4>2 DEF QueueInv, QueueHeld
    <3>6. Queue!OfferedMayBeTaken' /\ Queue!EmptyMeansNothingInReach'
      BY <2>2, <3>1 DEF QueueInv, QueueHeld, Queue!OfferedMayBeTaken,
         Queue!EmptyMeansNothingInReach
    <3> QED
      BY <3>3, <3>5, <3>6 DEF QueueInv
  <2> QED
    BY <1>6, <2>1, <2>2 DEF Queue!RunWiql
<1>7. ASSUME Queue!FetchWorkItems PROVE QueueInv'
  <2>1. /\ kind = "azdo" /\ pc = "items"
        /\ Queue!Answer(Queue!First((ids \ Queue!Excluded) \intersect Queue!Labelled, limit),
                        FALSE)
        /\ ids' = {} /\ UNCHANGED <<Queue!opts, board, username, moved>>
    BY <1>7 DEF Queue!FetchWorkItems
  <2>2. username' \in {"none", "login", "@me"} /\ ids' \in SUBSET Queue!Ticket
    BY <1>1, <2>1
  <2> QED
    BY <2>1, <2>2, Items, Answered
<1>8. ASSUME NEW t \in Queue!Ticket, NEW sort \in Queue!Sort, Queue!Change(t, sort)
      PROVE  QueueInv'
  <2>1. /\ UNCHANGED <<kind, excludeHitl, limit, username, ids, pc, offered, failed>>
        /\ board' = [board EXCEPT ![t] = sort] /\ sort # "pullRequest"
        /\ pc # "done" /\ moved' = (moved \/ pc = "items")
    BY <1>8 DEF Queue!Change, Queue!opts
  <2>2. board \in [Queue!Ticket -> Queue!Sort] /\ moved \in BOOLEAN
    BY DEF QueueInv, Queue!TypeOK
  <2>3. board' \in [Queue!Ticket -> Queue!Sort] /\ moved' \in BOOLEAN
    BY <2>1, <2>2
  <2>4. Queue!TypeOK'
    BY <2>1, <2>3, CountingQueue DEF QueueInv, Queue!TypeOK
  <2>5. Queue!PullRequest' \subseteq Queue!PullRequest
    BY <2>1, <2>2 DEF Queue!PullRequest
  <2>6. offered' = {}
    BY <2>1 DEF QueueInv, QueueHeld
  <2>7. QueueHeld'
    BY <2>1, <2>5, <2>6 DEF QueueInv, QueueHeld
  <2>8. Queue!OfferedMayBeTaken' /\ Queue!EmptyMeansNothingInReach'
    BY <2>1, <2>6 DEF Queue!OfferedMayBeTaken, Queue!EmptyMeansNothingInReach
  <2> QED
    BY <2>4, <2>7, <2>8 DEF QueueInv
<1>9. ASSUME Queue!Again PROVE QueueInv'
  <2>1. /\ UNCHANGED <<kind, excludeHitl, limit, board, username, ids>>
        /\ pc' = "idle" /\ offered' = {} /\ failed' = FALSE /\ moved' = FALSE
    BY <1>9 DEF Queue!Again, Queue!opts
  <2>2. Cardinality(offered') <= limit
    BY <2>1, Failed DEF GoodAnswer
  <2>3. Queue!TypeOK'
    BY <2>1, <2>2, CountingQueue DEF QueueInv, Queue!TypeOK
  <2>4. QueueHeld'
    BY <2>1 DEF QueueInv, QueueHeld, Queue!PullRequest
  <2>5. Queue!OfferedMayBeTaken' /\ Queue!EmptyMeansNothingInReach'
    BY <2>1 DEF Queue!OfferedMayBeTaken, Queue!EmptyMeansNothingInReach
  <2> QED
    BY <2>3, <2>4, <2>5 DEF QueueInv
<1>10. CASE UNCHANGED Queue!vars
  <2>1. /\ UNCHANGED <<kind, board, excludeHitl, limit, username, ids, pc, offered, failed, moved>>
        /\ UNCHANGED <<Queue!Eligible, Queue!Labelled, Queue!Waiting, Queue!Hitl,
                       Queue!PullRequest, Queue!Excluded, Queue!perPage, Queue!fetchLimit>>
    BY <1>10 DEF Queue!vars, Queue!Eligible, Queue!Labelled, Queue!Waiting, Queue!Hitl,
       Queue!PullRequest, Queue!Excluded, Queue!perPage, Queue!fetchLimit
  <2> QED
    BY <2>1 DEF QueueInv, QueueHeld, Queue!TypeOK, Queue!OfferedMayBeTaken,
       Queue!EmptyMeansNothingInReach, Queue!First, Queue!Before
<1> QED
  BY <1>2, <1>4, <1>5, <1>6, <1>7, <1>8, <1>9, <1>10 DEF Queue!Next

-----------------------------------------------------------------------------
(* All four *)

ServicesInv ==
  /\ service \in {"labels", "queue", "answers", "reviews"}
  /\ service = "labels" => LabelsInv
  /\ service = "queue" => QueueInv
  /\ service = "answers" => AnswersInv
  /\ service = "reviews" => ReviewsInv

LEMMA ServicesAlways == Spec => []ServicesInv
<1>1. Init => ServicesInv
  BY LabelsInit, QueueInit, AnswersInit, ReviewsInit DEF Init, ServicesInv
<1>2. ServicesInv /\ [Next]_vars => ServicesInv'
  <2> SUFFICES ASSUME ServicesInv, [Next]_vars PROVE ServicesInv'
    OBVIOUS
  <2>1. UNCHANGED service
    BY DEF Next, vars
  <2>2. service = "labels" => LabelsInv'
    <3>1. service = "labels" => [Labels!Next]_Labels!vars
      BY DEF Next, vars, shared, ofLabels, Labels!vars
    <3> QED
      BY <3>1, LabelsNext DEF ServicesInv
  <2>3. service = "queue" => QueueInv'
    <3>1. service = "queue" => [Queue!Next]_Queue!vars
      BY DEF Next, vars, shared, ofQueue, Queue!vars
    <3> QED
      BY <3>1, QueueNext DEF ServicesInv
  <2>4. service = "answers" => AnswersInv'
    <3>1. service = "answers" => [Answers!Next]_Answers!vars
      BY DEF Next, vars, shared, ofAnswers, Answers!vars, Answers!world, Answers!children
    <3> QED
      BY <3>1, AnswersNext DEF ServicesInv
  <2>5. service = "reviews" => ReviewsInv'
    <3>1. service = "reviews" => [Reviews!Next]_Reviews!vars
      BY DEF Next, vars, shared, ofReviews, Reviews!vars
    <3> QED
      BY <3>1, ReviewsNext DEF ServicesInv
  <2> QED
    BY <2>1, <2>2, <2>3, <2>4, <2>5 DEF ServicesInv
<1> QED
  BY <1>1, <1>2, PTL DEF Spec

(* Whatever the service, its state has the type its module declares: caches, *)
(* lists of labels, pages and answers never leave their ranges, and no more  *)
(* tickets are offered than were asked for.                                  *)
THEOREM Typing == Spec => []TypeOK
<1>1. ServicesInv => TypeOK
  BY DEF ServicesInv, TypeOK, LabelsInv, QueueInv, AnswersInv, ReviewsInv
<1> QED
  BY <1>1, ServicesAlways, PTL

(* A label operation that met no error leaves the ticket as it was asked to, *)
(* however many clients, with caches of their own, edit the labels of one    *)
(* ticket at a time; a board that only takes whole lists is excused.         *)
THEOREM EditsStand == Spec => []LastEditStands
<1>1. ServicesInv => LastEditStands
  BY DEF ServicesInv, LastEditStands, LabelsInv
<1> QED
  BY <1>1, ServicesAlways, PTL

(* fetchTickets offers no ticket that may not be taken; and when it offers   *)
(* none, without an error, every eligible ticket is behind a whole page of   *)
(* tickets that are not eligible.                                            *)
THEOREM QueueIsRead == Spec => []QueueRead
<1>1. ServicesInv => QueueRead
  BY DEF ServicesInv, QueueRead, QueueInv
<1> QED
  BY <1>1, ServicesAlways, PTL

(* An answer about blockers or children is wrong only in the named cases,    *)
(* and a ticket that is said to have been moved has been.                    *)
THEOREM AnswersAreTrue == Spec => []AnswersHold
<1>1. ServicesInv => AnswersHold
  BY DEF ServicesInv, AnswersHold, AnswersInv
<1> QED
  BY <1>1, ServicesAlways, PTL

(* A review comment that no run has worked on, and none will, is one of the  *)
(* known losses.                                                             *)
THEOREM NothingElseLost == Spec => []OnlyKnownLosses
<1>1. ServicesInv => OnlyKnownLosses
  BY ReviewsProperties DEF ServicesInv, OnlyKnownLosses
<1> QED
  BY <1>1, ServicesAlways, PTL

(* The time of the delivery in the progress log keeps a comment from being   *)
(* worked on again.                                                          *)
THEOREM WorkedOnOnce == Spec => []NotWorkedOnTwice
<1>1. ServicesInv => NotWorkedOnTwice
  BY ReviewsProperties DEF ServicesInv, NotWorkedOnTwice
<1> QED
  BY <1>1, ServicesAlways, PTL

=============================================================================
