----------------------------- MODULE BoardQueue -----------------------------
(***************************************************************************)
(* What Board.fetchTickets offers: the tickets assigned to the user, in    *)
(* the board's order, with the build label, ready to be taken and, when    *)
(* asked, without those marked clancy:hitl.  Each board does part of this  *)
(* in its query and the rest on the page it gets back, and most of them    *)
(* cut the page before the rest is done.  A ticket is its place in the     *)
(* board's order, which an answer keeps: a list of tickets is a set.       *)
(***************************************************************************)
EXTENDS Naturals, FiniteSets

CONSTANTS
  Tickets,   \* bound: tickets assigned to the user
  Limits,    \* limits that are asked for (code: 5 unless the loop says more)
  MinPage,   \* GitHub's smallest page (code: 10)
  MaxPage,   \* GitHub's and Notion's largest page (code: 100)
  MaxFirst   \* Linear's largest limit (code: 50)

QueueBounds ==
  /\ Tickets \in Nat /\ Limits \subseteq Nat \ {0}
  /\ MinPage \in Nat \ {0} /\ MaxPage \in Nat \ {0} /\ MaxFirst \in Nat \ {0}

Kind == {"github", "jira", "linear", "shortcut", "notion", "azdo"}

(* ready: it has the build label and waits in the first state. *)
Sort == {"ready", "hitl", "unlabelled", "started", "pullRequest"}

VARIABLES
  kind,         \* the board
  board,        \* the sort of each of the user's tickets
  excludeHitl, limit,   \* FetchTicketOpts
  username,     \* GitHub: usernameCache
  ids,          \* Azure DevOps: the ids of the query, before the items are read
  pc,           \* "idle", "items" between two requests, "done"
  offered,      \* the answer
  failed,       \* failed: a request of this answer has failed
  moved         \* moved: tickets were changed between two requests of it

vars == <<kind, board, excludeHitl, limit, username, ids, pc, offered, failed,
          moved>>
opts == <<kind, excludeHitl, limit>>

Ticket == 1..Tickets

TypeOK ==
  /\ kind \in Kind /\ pc \in {"idle", "items", "done"}
  /\ board \in [Ticket -> Sort]
  /\ excludeHitl \in BOOLEAN /\ limit \in Limits
  /\ username \in {"none", "login", "@me"}
  /\ ids \in SUBSET Ticket /\ failed \in BOOLEAN /\ moved \in BOOLEAN
  /\ offered \in SUBSET Ticket
  /\ Cardinality(offered) <= limit

Init ==
  /\ kind \in Kind
  /\ board \in [Ticket -> IF kind = "github" THEN Sort ELSE Sort \ {"pullRequest"}]
  /\ excludeHitl \in BOOLEAN /\ limit \in Limits
  /\ username = "none" /\ ids = {} /\ pc = "idle"
  /\ offered = {} /\ failed = FALSE /\ moved = FALSE

-----------------------------------------------------------------------------
Smaller(a, b) == IF a < b THEN a ELSE b
Larger(a, b) == IF a > b THEN a ELSE b
Before(t, ts) == Cardinality({u \in ts : u < t})
First(ts, n) == {t \in ts : Before(t, ts) < n}

Labelled == {t \in Ticket : board[t] # "unlabelled"}
Hitl == {t \in Ticket : board[t] = "hitl"}
Waiting == {t \in Ticket : board[t] # "started"}
PullRequest == {t \in Ticket : board[t] = "pullRequest"}
Excluded == IF excludeHitl THEN Hitl ELSE {}

(* Everything is in the query, the limit included. *)
JiraTickets_hitlKept == First(Labelled \intersect Waiting, limit)

JiraTickets == First((Labelled \intersect Waiting) \ Excluded, limit)

(* The page has the label and the state; pull requests, which the issues   *)
(* API lists too, and hitl tickets are taken out of it.                    *)
GitHubTickets_noSlack ==
  First(Labelled \intersect Waiting, limit) \ (PullRequest \union Excluded)

perPage == Smaller(Larger(limit * 2, MinPage), MaxPage)

GitHubTickets ==
  LET page == First(Labelled \intersect Waiting, perPage)
  IN First(page \ (PullRequest \union Excluded), limit)

fetchLimit ==
  LET clamped == Smaller(Larger(limit, 1), MaxFirst)
  IN IF excludeHitl THEN clamped * 3 ELSE clamped

LinearTickets_notCut == First(Labelled \intersect Waiting, fetchLimit) \ Excluded

LinearTickets ==
  LET page == First(Labelled \intersect Waiting, fetchLimit)
  IN First(page \ Excluded, limit)

(* The search knows the label; state and hitl are looked at afterwards.    *)
ShortcutTickets == First(Labelled \intersect (Waiting \ Excluded), limit)

(* One page of the database, filtered by status alone. *)
NotionTickets ==
  LET page == First(Waiting, MaxPage)
  IN First((page \ Excluded) \intersect Labelled, limit)

Answer(tickets, fail) == offered' = tickets /\ failed' = fail /\ pc' = "done"

-----------------------------------------------------------------------------
(* resolveUsername keeps what it found, the fallback included, for the     *)
(* life of the process.                                                    *)
resolveUsername ==
  username' \in IF username = "none" THEN {"login", "@me"} ELSE {username}

(* GitHub may know no user by the name of the fallback. *)
FetchGitHub ==
  /\ kind = "github" /\ pc = "idle"
  /\ resolveUsername
  /\ \/ Answer(GitHubTickets, FALSE)
     \/ username' = "@me" /\ Answer({}, TRUE)
  /\ UNCHANGED <<opts, board, ids, moved>>

FetchOne(k, tickets) ==
  /\ kind = k /\ pc = "idle"
  /\ Answer(tickets, FALSE)
  /\ UNCHANGED <<opts, board, username, ids, moved>>

Fetch ==
  \/ FetchOne("jira", JiraTickets)
  \/ FetchOne("linear", LinearTickets)
  \/ FetchOne("shortcut", ShortcutTickets)
  \/ FetchOne("notion", NotionTickets)

(* A failed request, and for Shortcut workflows that cannot be read, is an *)
(* empty answer.                                                           *)
FetchFails ==
  /\ pc \in {"idle", "items"}
  /\ Answer({}, TRUE) /\ ids' = {}
  /\ UNCHANGED <<opts, board, username, moved>>

(* Azure DevOps asks for the ids of the waiting tickets, keeps the first   *)
(* 2 * limit of them, and reads labels only with the items.                *)
RunWiql ==
  /\ kind = "azdo" /\ pc = "idle"
  /\ IF Waiting = {}
     THEN Answer({}, FALSE) /\ UNCHANGED ids
     ELSE /\ ids' = First(Waiting, limit * 2)
          /\ pc' = "items" /\ UNCHANGED <<offered, failed>>
  /\ UNCHANGED <<opts, board, username, moved>>

FetchWorkItems ==
  /\ kind = "azdo" /\ pc = "items"
  /\ Answer(First((ids \ Excluded) \intersect Labelled, limit), FALSE)
  /\ ids' = {}
  /\ UNCHANGED <<opts, board, username, moved>>

-----------------------------------------------------------------------------
(* Somebody moves, labels or marks a ticket, before the fetch, between its *)
(* requests or after the answer.                                           *)
Change(t, sort) ==
  /\ board[t] # "pullRequest" /\ sort # "pullRequest"
  /\ board' = [board EXCEPT ![t] = sort]
  /\ pc # "done"
  /\ moved' = (moved \/ pc = "items")
  /\ UNCHANGED <<opts, username, ids, pc, offered, failed>>

(* The next fetch of the same process. *)
Again ==
  /\ pc = "done" /\ pc' = "idle"
  /\ offered' = {} /\ failed' = FALSE /\ moved' = FALSE
  /\ UNCHANGED <<opts, board, username, ids>>

Next ==
  \/ FetchGitHub \/ Fetch \/ FetchFails \/ RunWiql \/ FetchWorkItems
  \/ \E t \in Ticket, s \in Sort : Change(t, s)
  \/ Again

Spec == Init /\ [][Next]_vars

-----------------------------------------------------------------------------
(* No ticket is offered that lacks the build label, is a pull request, or, *)
(* when hitl tickets are excluded, is marked for a human.  Its state is    *)
(* the one of the query: on Azure DevOps, a request earlier.               *)
OfferedMayBeTaken ==
  /\ offered \subseteq Labelled \ (PullRequest \union Excluded)
  /\ kind # "azdo" => offered \subseteq Waiting

Eligible == {t \in Ticket : board[t] = "ready"}

(* An empty queue ends the work: fetchTickets only answers it, without an  *)
(* error, when no ticket is eligible, or when as many tickets as the cut   *)
(* page holds, none of them eligible, stand before every eligible one.     *)
(* These stay out of reach until somebody moves the others: on Azure       *)
(* DevOps 2 * limit unlabelled tickets are enough.                         *)
EmptyMeansNothingInReach ==
  pc = "done" /\ offered = {} /\ ~failed =>
    \A t \in Eligible :
      CASE kind = "github" ->
             Before(t, (Labelled \intersect Waiting) \ Eligible) >= perPage
        [] kind = "linear" -> excludeHitl /\ Before(t, Hitl) >= fetchLimit
        [] kind = "notion" -> Before(t, Waiting \ Eligible) >= MaxPage
        [] kind = "azdo" -> moved \/ Before(t, Waiting \ Eligible) >= 2 * limit
        [] OTHER -> FALSE

=============================================================================
