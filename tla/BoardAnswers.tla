---------------------------- MODULE BoardAnswers ----------------------------
(***************************************************************************)
(* The three questions a Board answers about one ticket: is it blocked,    *)
(* how do the children of an epic stand, and has it been moved to another  *)
(* status.  A request that fails never raises an error: it is an answer.   *)
(***************************************************************************)
EXTENDS Naturals, FiniteSets

CONSTANTS
  Blocker,      \* bound: tickets that may block this one
  MaxChildren,  \* bound: children of the epic
  Page          \* children in one answer of Linear or Notion

ChildBounds == MaxChildren \in Nat \ {0} /\ Page \in Nat \ {0}

Child == 1..MaxChildren

Kind == {"github", "jira", "linear", "shortcut", "notion", "azdo"}
State == {"open", "done"}

VARIABLES
  kind,
  blockers,    \* native links of the ticket: state of each blocker, or "none"
  references,  \* "Blocked by ..." in its description: the same
  flag,        \* Shortcut's `blocked` flag, Notion's "Blocked by" property
  tooLong,     \* Notion: the database has more than the ten pages that are read
  inText,      \* children by "Epic: KEY" in their description: state or "none"
  native,      \* children by the board's own link ("Parent: #n" on GitHub)
  index,       \* GitHub: what its search index says of each child
  status,      \* the ticket's status on the board
  pc,          \* "idle", the question, or the request it has come to
  total,       \* the total of the first of two counting requests
  workflows,   \* Shortcut: workflowCache holds the workflows
  answer,      \* the answer: what was asked, and what came back
  failed       \* failed: a request of this answer has failed

world == <<kind, blockers, references, flag, tooLong>>
children == <<inText, native, index>>
vars == <<world, children, status, pc, total, workflows, answer, failed>>

None == [asked |-> "nothing", blocked |-> FALSE, total |-> 0, incomplete |-> 0,
         moved |-> FALSE]
Answer == [asked : {"nothing", "blockers", "children", "transition"},
           blocked : BOOLEAN, total : Nat, incomplete : Nat, moved : BOOLEAN]
PC == {"idle", "children", "textOpen", "native", "nativeOpen", "move", "select",
       "done"}

TypeOK ==
  /\ kind \in Kind
  /\ blockers \in [Blocker -> State \union {"none"}]
  /\ references \in [Blocker -> State \union {"none"}]
  /\ flag \in BOOLEAN /\ tooLong \in BOOLEAN
  /\ inText \in [Child -> State \union {"none"}]
  /\ native \in [Child -> State \union {"none"}]
  /\ index \in [Child -> State \union {"none"}]
  /\ status \in {"todo", "asked"}
  /\ pc \in PC /\ total \in 0..Cardinality(Child)
  /\ workflows \in BOOLEAN /\ failed \in BOOLEAN
  /\ answer \in Answer
  /\ answer.total <= Cardinality(Child)
  /\ kind \notin {"github", "jira"} => answer.incomplete <= answer.total

Init ==
  /\ kind \in Kind
  /\ blockers \in [Blocker -> State \union {"none"}]
  /\ references \in [Blocker -> State \union {"none"}]
  /\ kind = "github" => \A b \in Blocker : blockers[b] = "none"
  /\ kind \notin {"github", "notion"} => \A b \in Blocker : references[b] = "none"
  /\ flag \in BOOLEAN
  /\ kind \notin {"shortcut", "notion"} => flag
  /\ tooLong \in BOOLEAN /\ (kind # "notion" => ~tooLong)
  /\ inText \in [Child -> State \union {"none"}]
  /\ native \in [Child -> State \union {"none"}]
  /\ \A c \in Child : inText[c] = "none" \/ native[c] = "none"
  /\ index \in [Child -> State \union {"none"}]
  /\ \A c \in Child :
       kind # "github" \/ (inText[c] = "none" /\ native[c] = "none") => index[c] = "none"
  /\ status = "todo" /\ pc = "idle" /\ total = 0 /\ workflows = FALSE
  /\ answer = None /\ failed = FALSE

Return(a, fail) == answer' = a /\ failed' = (failed \/ fail) /\ pc' = "done"

-----------------------------------------------------------------------------
(* fetchBlockerStatus *)

Linked(links) == {b \in Blocker : links[b] # "none"}
Open(links, readable) == \E b \in readable : links[b] = "open"

Blocked(b, fail) ==
  /\ Return([None EXCEPT !.asked = "blockers", !.blocked = b], fail)
  /\ UNCHANGED <<world, children, status, total>>

AskBlockers(k) == kind = k /\ pc = "idle"

(* The links come with the state of what they point to: one request. *)
JiraBlockers ==
  /\ AskBlockers("jira") /\ UNCHANGED workflows
  /\ Blocked(Open(blockers, Blocker), FALSE) \/ Blocked(FALSE, TRUE)

LinearBlockers ==
  /\ AskBlockers("linear") /\ UNCHANGED workflows
  /\ Blocked(Open(blockers, Blocker), FALSE) \/ Blocked(FALSE, TRUE)

(* One request per number; one that fails counts as closed. *)
GitHubBlockers ==
  /\ AskBlockers("github") /\ UNCHANGED workflows
  /\ \E readable \in SUBSET Linked(references) :
       Blocked(Open(references, readable), readable # Linked(references))

AzdoBlockers ==
  /\ AskBlockers("azdo") /\ UNCHANGED workflows
  /\ Blocked(Open(blockers, Blocker), FALSE) \/ Blocked(FALSE, TRUE)

(* A property that is empty hides the references in the description.  A    *)
(* related page is fetched by itself; a reference is looked for in the     *)
(* database, of which ten pages are read: what comes after them is simply  *)
(* not there, and no request has failed.                                   *)
NotionBlockers ==
  LET links == IF flag THEN blockers ELSE references
      cut == tooLong /\ ~flag IN
  /\ AskBlockers("notion") /\ UNCHANGED workflows
  /\ \/ Blocked(FALSE, TRUE)
     \/ \E readable \in SUBSET Linked(links) :
          Blocked(Open(links, readable), readable # Linked(links) /\ ~cut)

(* resolveDoneStateIds: without the workflows no state is a done one. *)
DoneStates == workflows' \in {workflows, TRUE}

ShortcutBlockers ==
  /\ AskBlockers("shortcut")
  /\ \/ Blocked(FALSE, TRUE) /\ UNCHANGED workflows
     \/ /\ ~flag \/ Linked(blockers) = {}
        /\ Blocked(FALSE, FALSE) /\ UNCHANGED workflows
     \/ /\ flag /\ Linked(blockers) # {} /\ DoneStates
        /\ \E readable \in SUBSET Linked(blockers) :
             Blocked(IF workflows' THEN Open(blockers, readable) ELSE readable # {},
                     ~workflows' \/ readable # Linked(blockers))

-----------------------------------------------------------------------------
(* fetchChildrenStatus: children by the text convention first; only when   *)
(* there are none, or the request fails, by the other one.                 *)

Count(kids) == Cardinality({c \in Child : kids[c] # "none"})
Incomplete(kids) == Cardinality({c \in Child : kids[c] = "open"})

(* GitHub searches its index, which may be behind. *)
Searched(kids) ==
  IF kind = "github"
  THEN [c \in Child |-> IF kids[c] = "none" THEN "none" ELSE index[c]]
  ELSE kids

AskChildren ==
  /\ pc = "idle" /\ pc' = "children"
  /\ UNCHANGED <<world, children, status, total, workflows, answer, failed>>

Goto(to, fail) ==
  /\ pc' = to /\ failed' = (failed \/ fail)
  /\ UNCHANGED <<total, workflows, answer>>

ReturnChildren(t, i, fail) ==
  Return([None EXCEPT !.asked = "children", !.total = t, !.incomplete = i], fail)

(* GitHub and Jira count twice: all of them, then the open ones. *)
CountAll(kids, next) ==
  /\ total' = Count(kids) /\ pc' = next
  /\ UNCHANGED <<workflows, answer, failed>>

CountByText ==
  /\ pc = "children"
  /\ \/ Count(Searched(inText)) # 0 /\ CountAll(Searched(inText), "textOpen")
     \/ Count(Searched(inText)) = 0 /\ Goto("native", FALSE)
     \/ Goto("native", TRUE)

CountOpenByText ==
  /\ pc = "textOpen"
  /\ \/ /\ ReturnChildren(total, Incomplete(Searched(inText)), FALSE)
        /\ UNCHANGED <<total, workflows>>
     \/ Goto("native", TRUE)

CountByLink ==
  /\ pc = "native"
  /\ \/ Count(Searched(native)) # 0 /\ CountAll(Searched(native), "nativeOpen")
     \/ /\ \/ Count(Searched(native)) = 0 /\ ReturnChildren(0, 0, FALSE)
           \/ ReturnChildren(0, 0, TRUE)
        /\ UNCHANGED <<total, workflows>>

CountOpenByLink ==
  /\ pc = "nativeOpen"
  /\ \/ ReturnChildren(total, Incomplete(Searched(native)), FALSE)
     \/ ReturnChildren(0, 0, TRUE)
  /\ UNCHANGED <<total, workflows>>

JiraChildren ==
  /\ kind = "jira"
  /\ (CountByText \/ CountOpenByText \/ CountByLink \/ CountOpenByLink)
  /\ UNCHANGED <<world, children, status>>

(* A second count without a number takes all for open; and no children at all are    *)
(* one, still open, when GitHub is asked on behalf of a child.             *)
GitHubChildren ==
  /\ kind = "github"
  /\ \/ CountByText \/ CountOpenByText \/ CountByLink \/ CountOpenByLink
     \/ /\ pc \in {"textOpen", "nativeOpen"} /\ ReturnChildren(total, total, TRUE)
        /\ UNCHANGED <<total, workflows>>
     \/ /\ pc = "native" /\ UNCHANGED <<total, workflows>>
        /\ \/ Count(Searched(native)) = 0 /\ ReturnChildren(1, 1, FALSE)
           \/ ReturnChildren(1, 1, TRUE)
  /\ UNCHANGED <<world, children, status>>

(* The others get the children in one answer and count what is open. *)
HasText == pc = "children" /\ Count(inText) # 0

NotByText ==
  /\ pc = "children"
  /\ \/ (Count(inText) = 0 \/ tooLong) /\ Goto("native", FALSE)
     \/ Goto("native", TRUE)

AsksLinks == pc = "native"

NotByLink ==   \* on Notion the epic itself may be behind the pages read
  /\ AsksLinks
  /\ ReturnChildren(0, 0, ~tooLong) /\ UNCHANGED <<total, workflows>>

CountChildren(kids) ==
  /\ ReturnChildren(Count(kids), Incomplete(kids), FALSE)
  /\ UNCHANGED <<total, workflows>>

(* One page, and nobody asks whether there are more. *)
FirstPage(kids) ==
  [c \in Child |-> IF Cardinality({d \in 1..(c - 1) : kids[d] # "none"}) < Page
                   THEN kids[c] ELSE "none"]

CountNodes(kids) == CountChildren(FirstPage(kids))

LinearChildren ==
  /\ kind = "linear"
  /\ \/ HasText /\ CountNodes(inText)
     \/ AsksLinks /\ CountNodes(native)
     \/ NotByText \/ NotByLink
  /\ UNCHANGED <<world, children, status>>

(* A batch of work items, or a page of the database, that cannot be read   *)
(* is left out of the count, and so is what comes after ten of these pages.*)
CountRead(kids) ==
  /\ \E got \in SUBSET {c \in Child : kids[c] # "none"} :
       LET seen == [c \in Child |-> IF c \in got THEN kids[c] ELSE "none"]
       IN ReturnChildren(Count(seen), Incomplete(seen), seen # kids /\ ~tooLong)
  /\ UNCHANGED <<total, workflows>>

NotionChildren ==
  /\ kind = "notion"
  /\ \/ HasText /\ CountRead(inText)
     \/ AsksLinks /\ CountNodes(native)
     \/ NotByText \/ NotByLink
  /\ UNCHANGED <<world, children, status>>

AzdoChildren ==
  /\ kind = "azdo"
  /\ \/ HasText /\ CountRead(inText)
     \/ AsksLinks /\ CountRead(native)
     \/ NotByText \/ NotByLink
  /\ UNCHANGED <<world, children, status>>

(* Shortcut takes every child for open while it has no workflows. *)
CountStories_unknownIsDone(kids) ==
  /\ DoneStates
  /\ ReturnChildren(Count(kids), IF workflows' THEN Incomplete(kids) ELSE 0, FALSE)
  /\ UNCHANGED total

CountStories(kids) ==
  /\ DoneStates
  /\ ReturnChildren(Count(kids), IF workflows' THEN Incomplete(kids) ELSE Count(kids),
                    FALSE)
  /\ UNCHANGED total

ShortcutChildren ==
  /\ kind = "shortcut"
  /\ \/ HasText /\ CountStories(inText)
     \/ AsksLinks /\ CountStories(native)
     \/ NotByText \/ NotByLink
  /\ UNCHANGED <<world, children, status>>

-----------------------------------------------------------------------------
(* transitionTicket *)

Moved(m, fail) == Return([None EXCEPT !.asked = "transition", !.moved = m], fail)

NoStatuses ==   \* GitHub has none
  /\ kind = "github" /\ pc = "idle" /\ Moved(FALSE, FALSE)
  /\ UNCHANGED <<world, children, status, total, workflows>>

(* Jira, Linear and Shortcut look the status up, and stop when there is    *)
(* none of that name; Azure DevOps and Notion write it as it is.           *)
LookedUp(k, known) ==
  /\ kind = k /\ pc = "idle"
  /\ \/ Moved(FALSE, TRUE)
     \/ known /\ pc' = "move" /\ UNCHANGED <<answer, failed>>
  /\ UNCHANGED <<world, children, status, total>>

lookupTransitionId == LookedUp("jira", TRUE) /\ UNCHANGED workflows
lookupWorkflowStateId == LookedUp("linear", TRUE) /\ UNCHANGED workflows
resolveWorkflowStateId == DoneStates /\ LookedUp("shortcut", workflows')

AsItIs ==
  /\ kind \in {"notion", "azdo"} /\ pc = "idle" /\ pc' = "move"
  /\ UNCHANGED <<world, children, status, total, workflows, answer, failed>>

(* The board may move the ticket and the answer be lost. *)
Sent(k) ==
  /\ kind = k
  /\ \/ status' = "asked" /\ Moved(TRUE, FALSE)
     \/ status' \in {status, "asked"} /\ Moved(FALSE, TRUE)
  /\ UNCHANGED <<world, children, total, workflows>>

jiraTransition == pc = "move" /\ Sent("jira")
linearTransition == pc = "move" /\ Sent("linear")
transitionStory == pc = "move" /\ Sent("shortcut")

updateWorkItem == pc = "move" /\ Sent("azdo")

(* Notion: the status may be a property of type select instead. *)
notionTransition ==
  \/ pc = "select" /\ Sent("notion")
  \/ /\ pc = "move" /\ kind = "notion"
     /\ \/ status' = "asked" /\ Moved(TRUE, FALSE)
        \/ /\ status' \in {status, "asked"}
           /\ pc' = "select" /\ UNCHANGED <<answer, failed>>
     /\ UNCHANGED <<world, children, total, workflows>>

-----------------------------------------------------------------------------
(* Children are added, finished and reopened while they are counted. *)
ChildChanges(c) ==
  /\ pc \notin {"idle", "done"}
  /\ \E s \in State :
       \/ /\ native[c] = "none" /\ inText' = [inText EXCEPT ![c] = s]
          /\ UNCHANGED native
       \/ /\ inText[c] = "none" /\ native' = [native EXCEPT ![c] = s]
          /\ UNCHANGED inText
  /\ UNCHANGED <<world, index, status, pc, total, workflows, answer, failed>>

IndexCatchesUp(c) ==
  /\ kind = "github" /\ pc \notin {"idle", "done"}
  /\ index' = [index EXCEPT ![c] = IF inText[c] # "none" THEN inText[c] ELSE native[c]]
  /\ UNCHANGED <<world, inText, native, status, pc, total, workflows, answer, failed>>

(* The process goes on, with the workflows it knows, to the next question. *)
Again ==
  /\ pc = "done" /\ pc' = "idle"
  /\ answer' = None /\ failed' = FALSE /\ total' = 0
  /\ UNCHANGED <<world, children, status, workflows>>

Next ==
  \/ JiraBlockers \/ LinearBlockers \/ GitHubBlockers \/ AzdoBlockers
  \/ NotionBlockers \/ ShortcutBlockers
  \/ AskChildren \/ JiraChildren \/ GitHubChildren \/ LinearChildren
  \/ NotionChildren \/ AzdoChildren \/ ShortcutChildren
  \/ NoStatuses \/ lookupTransitionId \/ lookupWorkflowStateId
  \/ resolveWorkflowStateId \/ AsItIs
  \/ jiraTransition \/ linearTransition \/ transitionStory \/ updateWorkItem
  \/ notionTransition
  \/ \E c \in Child : ChildChanges(c) \/ IndexCatchesUp(c)
  \/ Again

Spec == Init /\ [][Next]_vars

-----------------------------------------------------------------------------
HasOpen(tickets) == \E t \in DOMAIN tickets : tickets[t] = "open"

BlockedAnswer ==
  /\ answer.blocked =>
       HasOpen(blockers) \/ HasOpen(references) \/ (kind = "shortcut" /\ ~workflows)
  /\ ~answer.blocked /\ ~failed =>
       \/ ~HasOpen(IF kind = "github" \/ (kind = "notion" /\ ~flag) THEN references
                   ELSE blockers)
       \/ kind = "shortcut" /\ ~flag
       \/ tooLong /\ ~flag

(* An open child that a board, asked now, would not hide. *)
SeenOpen(c) ==
  /\ inText[c] = "open" \/ native[c] = "open"
  /\ kind = "github" => index[c] = "open"

CompleteAnswer ==
  answer.total > 0 /\ answer.incomplete = 0 =>
    \/ \A c \in Child : ~SeenOpen(c)
    \/ Count(inText) > 0 /\ Count(native) > 0
    \/ kind \in {"linear", "notion"} /\ Count(inText) + Count(native) > Page
    \/ kind \in {"azdo", "notion"} /\ failed
    \/ tooLong

(* A board is believed: a ticket is taken when it is said not to be        *)
(* blocked, an epic delivered when it is said to have no open child.       *)
(* A ticket is said to be free while a blocker is open only after a failed *)
(* request, or when Shortcut's flag does not say so, or when Notion is     *)
(* asked for a reference and its database is longer than the ten pages     *)
(* that are read.  An epic is said to be complete while a child is open    *)
(* only when half of the links are by the other convention, which the      *)
(* first one hides; when a page of Linear or Notion is cut; when a part of *)
(* a list could not be read (Azure DevOps, Notion); when Notion's database *)
(* is too long; or when GitHub's index does not have the open child yet,   *)
(* or has it as it was.  The answer survives every other failed request,   *)
(* and children that change between two counts.  A ticket is said to have  *)
(* been moved only when it has been.                                       *)
AnswersHold ==
  /\ answer.asked = "blockers" => BlockedAnswer
  /\ answer.asked = "children" => CompleteAnswer
  /\ answer.asked = "transition" /\ answer.moved => status = "asked"

=============================================================================
