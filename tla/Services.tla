------------------------------ MODULE Services ------------------------------
(***************************************************************************)
(* What a run asks of other machines: the labels, the queue and the        *)
(* answers of a board, and the reviews of a pull request.                  *)
(* They share no state: a behaviour is one of any of the four.             *)
(***************************************************************************)
EXTENDS Naturals

CONSTANTS
  Client, Label, MaxGen,                          \* BoardLabels
  Tickets, Limits, MinPage, MaxPage, MaxFirst,    \* BoardQueue
  Blocker, MaxChildren,                           \* BoardAnswers
  MaxComments, MaxMinute,                         \* PullRequests
  Page

VARIABLES
  service,
  kind, pc, failed,
  gen, live, labels, cache, listed, call, last, excused,
  board, excludeHitl, limit, username, ids, offered, moved,
  blockers, references, flag, tooLong, inText, native, index, status, total,
  workflows, answer,
  platform, now, pr, entry, comments, resolved, review, feedback, discussions,
  addressed, late

shared == <<kind, pc, failed>>
ofLabels == <<gen, live, labels, cache, listed, call, last, excused>>
ofQueue == <<board, excludeHitl, limit, username, ids, offered, moved>>
ofAnswers == <<blockers, references, flag, tooLong, inText, native, index, status,
               total, workflows, answer>>
ofReviews == <<platform, now, pr, entry, comments, resolved, review, feedback,
               discussions, addressed, late>>
vars == <<service, shared, ofLabels, ofQueue, ofAnswers, ofReviews>>

Labels == INSTANCE BoardLabels
Queue == INSTANCE BoardQueue
Answers == INSTANCE BoardAnswers
Reviews == INSTANCE PullRequests

ASSUME ServiceBounds ==
  /\ Labels!LabelBounds /\ Queue!QueueBounds
  /\ Answers!ChildBounds /\ Reviews!CommentBounds

NoLabels ==
  /\ gen = 0 /\ live = 0 /\ labels = 0 /\ cache = 0 /\ listed = 0
  /\ call = 0 /\ last = 0 /\ excused = 0
NoQueue ==
  /\ board = 0 /\ excludeHitl = 0 /\ limit = 0 /\ username = 0 /\ ids = 0
  /\ offered = 0 /\ moved = 0
NoAnswers ==
  /\ blockers = 0 /\ references = 0 /\ flag = 0 /\ tooLong = 0
  /\ inText = 0 /\ native = 0 /\ index = 0
  /\ status = 0 /\ total = 0 /\ workflows = 0 /\ answer = 0
NoReviews ==
  /\ platform = 0 /\ now = 0 /\ pr = 0 /\ entry = 0 /\ comments = 0
  /\ resolved = 0 /\ review = 0 /\ feedback = 0 /\ discussions = 0
  /\ addressed = 0 /\ late = 0

Init ==
  \/ /\ service = "labels" /\ Labels!Init /\ pc = 0 /\ failed = 0
     /\ NoQueue /\ NoAnswers /\ NoReviews
  \/ /\ service = "queue" /\ Queue!Init
     /\ NoLabels /\ NoAnswers /\ NoReviews
  \/ /\ service = "answers" /\ Answers!Init
     /\ NoLabels /\ NoQueue /\ NoReviews
  \/ /\ service = "reviews" /\ Reviews!Init /\ kind = 0 /\ failed = 0
     /\ NoLabels /\ NoQueue /\ NoAnswers

Next ==
  /\ UNCHANGED service
  /\ \/ /\ service = "labels" /\ Labels!Next
        /\ UNCHANGED <<pc, failed, ofQueue, ofAnswers, ofReviews>>
     \/ /\ service = "queue" /\ Queue!Next
        /\ UNCHANGED <<ofLabels, ofAnswers, ofReviews>>
     \/ /\ service = "answers" /\ Answers!Next
        /\ UNCHANGED <<ofLabels, ofQueue, ofReviews>>
     \/ /\ service = "reviews" /\ Reviews!Next
        /\ UNCHANGED <<kind, failed, ofLabels, ofQueue, ofAnswers>>

Spec == Init /\ [][Next]_vars

-----------------------------------------------------------------------------
(* The state of the service at hand has its type.                          *)
TypeOK ==
  CASE service = "labels" -> Labels!TypeOK
    [] service = "queue" -> Queue!TypeOK
    [] service = "answers" -> Answers!TypeOK
    [] service = "reviews" -> Reviews!TypeOK

(* A label edit that met no error stands until the next one, whichever     *)
(* board's label operations (labels.ts) made it, except where the board    *)
(* has only a whole list to write.                                         *)
LastEditStands == service = "labels" => Labels!LastEditStands

(* A ticket that Board.fetchTickets offers may be taken, and it answers an *)
(* empty queue only when no eligible ticket is within reach of the page    *)
(* that is cut before the filters.                                         *)
QueueRead ==
  service = "queue" => Queue!OfferedMayBeTaken /\ Queue!EmptyMeansNothingInReach

(* What a board says of blockers, children and transitions is true, except *)
(* in the named cases.                                                     *)
AnswersHold == service = "answers" => Answers!AnswersHold

(* A review comment leads to a rework run, except in the named cases.      *)
OnlyKnownLosses == service = "reviews" => Reviews!OnlyKnownLosses

(* A review comment that was delivered on is not worked on again.          *)
NotWorkedOnTwice == service = "reviews" => Reviews!NotWorkedOnTwice

=============================================================================
