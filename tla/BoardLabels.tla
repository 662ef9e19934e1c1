---------------------------- MODULE BoardLabels ----------------------------
(***************************************************************************)
(* The label operations of the six boards on one ticket.  GitHub adds and  *)
(* removes a single label in one request.  The others read the ticket's    *)
(* whole list, change it and write it back; Linear and Shortcut know       *)
(* labels by an id they look up and keep for the life of the process.      *)
(* People edit the same ticket, and define and delete labels, meanwhile.   *)
(***************************************************************************)
EXTENDS Naturals, FiniteSets

CONSTANTS
  Client,  \* processes that hold a Board (sessions in two clones, say)
  Label,   \* label names
  MaxGen   \* bound: definitions of one label name in a behaviour

LabelBounds == MaxGen \in Nat \ {0}

Kind == {"github", "jira", "linear", "shortcut", "notion", "azdo"}
PC == {"idle", "ensure", "create", "refresh", "resolve", "read", "write", "send"}

(* Where labels are known by id, deleting a label and defining it again    *)
(* gives it another one.                                                   *)
Id == Label \X (0..MaxGen)

NoCall == [pc |-> "idle"]

VARIABLES
  kind,      \* CLANCY's board provider
  gen,       \* how often each label has been defined
  live,      \* labels that are defined
  labels,    \* ids of the labels on the ticket
  cache,     \* labelCache: the id each client knows a label by, 0 for none
  listed,    \* Shortcut: clients whose label list is cached
  call,      \* the operation each client is in
  last,      \* last: labels that the last edit to succeed put on
  excused    \* excused: labels whose last edit is not promised to stand

vars == <<kind, gen, live, labels, cache, listed, call, last, excused>>
world == <<kind, gen, live, labels>>
caches == <<cache, listed>>
ghosts == <<last, excused>>

ById == kind \in {"linear", "shortcut"}
Defined == kind \in {"github", "linear", "shortcut"}   \* others take any name
IdOf(l, g) == <<l, IF ById THEN g ELSE 0>>
CurrentId(l) == IdOf(l, gen[l])
OnTicket(l) == \E i \in labels : i[1] = l

TypeOK ==
  /\ kind \in Kind
  /\ gen \in [Label -> 0..MaxGen] /\ live \subseteq Label
  /\ labels \subseteq {CurrentId(l) : l \in live}
  /\ cache \in [Client -> [Label -> 0..MaxGen]]
  /\ \A c \in Client, l \in Label : cache[c][l] <= gen[l]
  /\ listed \subseteq Client
  /\ call \in [Client -> {NoCall} \union [pc : PC \ {"idle"}, add : BOOLEAN,
                          label : Label, id : Id, seen : SUBSET Id]]
  /\ last \subseteq Label /\ excused \subseteq Label

Init ==
  /\ kind \in Kind
  /\ live \in SUBSET Label /\ (~Defined => live = Label)
  /\ gen = [l \in Label |-> IF Defined /\ l \in live THEN 1 ELSE 0]
  /\ labels \in SUBSET {CurrentId(l) : l \in live}
  /\ cache = [c \in Client |-> [l \in Label |-> 0]] /\ listed = {}
  /\ call = [c \in Client |-> NoCall]
  /\ last = {l \in Label : OnTicket(l)}
  /\ excused = {}

-----------------------------------------------------------------------------
(* What is promised of an edit: it stands until the next one, unless       *)
(* somebody else had read the list before it and writes it back later.     *)

Holding(others) == \E d \in others : call[d].pc = "write"

Edited(l, on, others) ==
  /\ last' = IF on THEN last \union {l} ELSE last \ {l}
  /\ excused' = IF Holding(others) THEN excused \union {l} ELSE excused \ {l}

Goto(c, pc) == call' = [call EXCEPT ![c].pc = pc]
Return(c) == call' = [call EXCEPT ![c] = NoCall]

(* An operation that ends without a write because there was nothing to do. *)
(* It went by the id it knew: one that is no longer the label's own tells  *)
(* nothing about the ticket.                                               *)
EndUnchanged(c, g) ==
  LET l == call[c].label IN
  /\ IF l \in live /\ g # gen[l]
     THEN last' = last /\ excused' = excused \union {l}
     ELSE Edited(l, call[c].add, Client \ {c})
  /\ Return(c)

(* safeLabel: a failed operation is reported and ends, it never rejects. *)
safeLabel(c) == Return(c) /\ UNCHANGED <<world, caches, ghosts>>

-----------------------------------------------------------------------------
(* Board.addLabel and Board.removeLabel *)

FirstStep(add) ==
  CASE kind \in {"jira", "notion", "azdo"} -> "read"
    [] kind = "github" -> IF add THEN "ensure" ELSE "send"
    [] kind = "linear" -> IF add THEN "ensure" ELSE "read"
    [] kind = "shortcut" -> IF add THEN "ensure" ELSE "resolve"

Call(c, add, l) ==
  /\ call[c].pc = "idle"
  /\ call' = [call EXCEPT ![c] = [pc |-> FirstStep(add), add |-> add,
                                  label |-> l, id |-> <<l, 0>>, seen |-> {}]]
  /\ UNCHANGED <<world, caches, ghosts>>

Define(l) ==
  /\ gen[l] < MaxGen
  /\ gen' = [gen EXCEPT ![l] = @ + 1] /\ live' = live \union {l}

-----------------------------------------------------------------------------
(* GitHub: whatever becomes of the label itself, the POST is sent, and     *)
(* GitHub defines a label it does not know.                                *)

GitHubEnsure(c) ==
  /\ kind = "github" /\ call[c].pc = "ensure"
  /\ \/ call[c].label \notin live /\ Goto(c, "create")
     \/ Goto(c, "send")   \* it exists, or the GET failed
  /\ UNCHANGED <<world, caches, ghosts>>

GitHubCreate(c) ==
  /\ kind = "github" /\ call[c].pc = "create"
  /\ \/ call[c].label \notin live /\ Define(call[c].label)
     \/ UNCHANGED <<gen, live>>   \* 422, somebody else was first, or an error
  /\ Goto(c, "send")
  /\ UNCHANGED <<kind, labels, caches, ghosts>>

GitHubSend(c) ==
  LET l == call[c].label IN
  /\ kind = "github" /\ call[c].pc = "send"
  /\ Edited(l, call[c].add, Client \ {c})
  /\ IF call[c].add
     THEN /\ IF l \in live THEN UNCHANGED <<gen, live>> ELSE Define(l)
          /\ labels' = labels \union {<<l, 0>>}
     ELSE labels' = labels \ {<<l, 0>>} /\ UNCHANGED <<gen, live>>
  /\ Return(c)
  /\ UNCHANGED <<kind, caches>>

-----------------------------------------------------------------------------
(* Linear *)

(* From the cache, or looked up among the team's and the workspace's       *)
(* labels; a lookup that fails is taken for a label that does not exist.   *)
LinearEnsure(c) ==
  LET l == call[c].label IN
  /\ kind = "linear" /\ call[c].pc = "ensure"
  /\ \/ cache[c][l] # 0 /\ Goto(c, "read") /\ UNCHANGED cache
     \/ /\ cache[c][l] = 0 /\ l \in live
        /\ cache' = [cache EXCEPT ![c][l] = gen[l]]
        /\ Goto(c, "read")
     \/ cache[c][l] = 0 /\ Goto(c, "create") /\ UNCHANGED cache
  /\ UNCHANGED <<world, listed, ghosts>>

(* Without an id in the cache addLabel returns at once. *)
LinearCreate(c) ==
  LET l == call[c].label IN
  /\ kind = "linear" /\ call[c].pc = "create"
  /\ \/ /\ l \notin live /\ Define(l)
        /\ cache' = [cache EXCEPT ![c][l] = gen'[l]]
        /\ Goto(c, "read")
        /\ UNCHANGED <<kind, labels, listed, ghosts>>
     \/ safeLabel(c)

Reading(c, id) ==
  /\ call' = [call EXCEPT ![c].id = id, ![c].seen = labels, ![c].pc = "write"]
  /\ UNCHANGED <<last, excused>>

(* addLabel goes by the cached id.  removeLabel does too, and by the name  *)
(* on the ticket only when it has none.                                    *)
LinearRead(c) ==
  LET l == call[c].label
      g == IF cache[c][l] # 0 THEN cache[c][l] ELSE gen[l]
      id == <<l, g>>
  IN /\ kind = "linear" /\ call[c].pc = "read"
     /\ IF (id \in labels) = call[c].add
        THEN EndUnchanged(c, g)
        ELSE Reading(c, id)
     /\ UNCHANGED <<world, caches>>

-----------------------------------------------------------------------------
(* Shortcut: fetchLabels answers from the list it fetched first, and with  *)
(* an empty one when it cannot be fetched.                                 *)

Fetched == [l \in Label |-> IF l \in live THEN gen[l] ELSE 0]

fetchLabels(c, refresh) ==
  IF c \in listed /\ ~refresh
  THEN UNCHANGED caches
  ELSE \/ listed' = listed \union {c} /\ cache' = [cache EXCEPT ![c] = Fetched]
       \/ UNCHANGED caches

FoundId(c) == IF c \in listed' THEN cache'[c][call[c].label] ELSE 0

ShortcutEnsure(c) ==
  /\ kind = "shortcut" /\ call[c].pc = "ensure"
  /\ fetchLabels(c, FALSE)
  /\ Goto(c, IF FoundId(c) # 0 THEN "resolve" ELSE "create")
  /\ UNCHANGED <<world, ghosts>>

ShortcutCreate(c) ==
  /\ kind = "shortcut" /\ call[c].pc = "create"
  /\ \/ call[c].label \notin live /\ Define(call[c].label)
     \/ UNCHANGED <<gen, live>>
  /\ Goto(c, "refresh")
  /\ UNCHANGED <<kind, labels, caches, ghosts>>

ShortcutRefresh(c) ==
  /\ kind = "shortcut" /\ call[c].pc = "refresh"
  /\ fetchLabels(c, TRUE)
  /\ Goto(c, "resolve")
  /\ UNCHANGED <<world, ghosts>>

(* A label that is not in the list needs no removing; it cannot be added.  *)
ShortcutResolve(c) ==
  LET l == call[c].label IN
  /\ kind = "shortcut" /\ call[c].pc = "resolve"
  /\ fetchLabels(c, FALSE)
  /\ \/ /\ FoundId(c) # 0
        /\ call' = [call EXCEPT ![c].pc = "read", ![c].id = <<l, FoundId(c)>>]
        /\ UNCHANGED ghosts
     \/ FoundId(c) = 0 /\ c \in listed' /\ ~call[c].add /\ EndUnchanged(c, 0)
     \/ FoundId(c) = 0 /\ (c \notin listed' \/ call[c].add) /\ Return(c)
        /\ UNCHANGED ghosts
  /\ UNCHANGED world

-----------------------------------------------------------------------------
(* modifyLabelList: the list is read, and written only when it changes. *)

modifyLabelList(c, id) ==
  /\ call[c].pc = "read"
  /\ IF (id \in labels) = call[c].add
     THEN EndUnchanged(c, IF ById THEN id[2] ELSE gen[call[c].label])
     ELSE Reading(c, id)
  /\ UNCHANGED <<world, caches>>

byName(c) == <<call[c].label, 0>>

JiraRead(c) == kind = "jira" /\ modifyLabelList(c, byName(c))
NotionRead(c) == kind = "notion" /\ modifyLabelList(c, byName(c))
AzdoRead(c) == kind = "azdo" /\ modifyLabelList(c, byName(c))
ShortcutRead(c) == kind = "shortcut" /\ modifyLabelList(c, call[c].id)

Updated_onlyTheTarget(c) == IF call[c].add THEN {call[c].id} ELSE {}

Updated(c) ==
  IF call[c].add THEN call[c].seen \union {call[c].id}
                 ELSE call[c].seen \ {call[c].id}

Put(c) ==
  /\ call[c].pc = "write"
  /\ labels' = Updated(c)
  /\ Edited(call[c].label, call[c].add, Client \ {c})
  /\ UNCHANGED <<kind, gen, live, caches>>

(* By id the board takes only labels that exist. *)
PutIds(c) == Put(c) /\ Updated(c) \subseteq {CurrentId(m) : m \in live}

JiraWrite(c) == kind = "jira" /\ Put(c) /\ Return(c)
AzdoWrite(c) == kind = "azdo" /\ Put(c) /\ Return(c)
LinearWrite(c) == kind = "linear" /\ PutIds(c) /\ Return(c)
ShortcutWrite(c) == kind = "shortcut" /\ PutIds(c) /\ Return(c)

(* Notion's requests go through retryFetch: one that was applied and whose *)
(* answer was lost is sent again, over what was changed since.             *)
NotionWrite(c) == kind = "notion" /\ Put(c) /\ (Return(c) \/ UNCHANGED call)

(* A request that fails, or finds no ticket (a Notion page past the tenth  *)
(* page of the query).                                                     *)
Fail(c) ==
  /\ call[c].pc \in {"read", "write", "send"}
  /\ safeLabel(c)

-----------------------------------------------------------------------------
(* People *)

Toggle(l) ==
  /\ l \in live
  /\ labels' = IF OnTicket(l) THEN {i \in labels : i[1] # l}
                              ELSE labels \union {CurrentId(l)}
  /\ Edited(l, ~OnTicket(l), Client)
  /\ UNCHANGED <<kind, gen, live, caches, call>>

DefineLabel(l) ==
  /\ l \notin live /\ Define(l)
  /\ UNCHANGED <<kind, labels, caches, call, ghosts>>

DeleteLabel(l) ==
  /\ Defined /\ l \in live
  /\ live' = live \ {l}
  /\ labels' = {i \in labels : i[1] # l}
  /\ Edited(l, FALSE, Client)
  /\ UNCHANGED <<kind, gen, caches, call>>

-----------------------------------------------------------------------------
Next ==
  \/ \E c \in Client, add \in BOOLEAN, l \in Label : Call(c, add, l)
  \/ \E c \in Client :
       \/ GitHubEnsure(c) \/ GitHubCreate(c) \/ GitHubSend(c)
       \/ LinearEnsure(c) \/ LinearCreate(c) \/ LinearRead(c)
       \/ ShortcutEnsure(c) \/ ShortcutCreate(c) \/ ShortcutRefresh(c)
       \/ ShortcutResolve(c)
       \/ JiraRead(c) \/ NotionRead(c) \/ AzdoRead(c) \/ ShortcutRead(c)
       \/ JiraWrite(c) \/ AzdoWrite(c) \/ LinearWrite(c) \/ ShortcutWrite(c)
       \/ NotionWrite(c) \/ Fail(c)
  \/ \E l \in Label : Toggle(l) \/ DefineLabel(l) \/ DeleteLabel(l)

Spec == Init /\ [][Next]_vars

-----------------------------------------------------------------------------
(* A label edit that met no error stands until the next one: what people   *)
(* put on a ticket survives Clancy's removal of the build label, and a     *)
(* removed build label stays off, so that a delivered ticket does not come *)
(* back into the queue (deliver-phase's removeBuildLabel).  Excused is     *)
(* only an edit between somebody's read and write of the list, which       *)
(* GitHub's single requests never give rise to, and an edit by an id that  *)
(* a process kept past the label's deletion.                               *)
LastEditStands ==
  /\ \A l \in Label \ excused : l \in last <=> OnTicket(l)
  /\ kind = "github" => excused = {}

=============================================================================
