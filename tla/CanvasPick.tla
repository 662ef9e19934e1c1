----------------------------- MODULE CanvasPick -----------------------------
(***************************************************************************)
(* Picking an element on the design canvas: the overlay inside a variant's *)
(* iframe turns a click into a selector and posts it to the canvas, which  *)
(* checks who sent it and keeps it as the anchor of the next comment.      *)
(***************************************************************************)
EXTENDS Naturals, Sequences, FiniteSets

CONSTANTS
  Tag,          \* element names
  MaxSiblings,  \* bound: children of an element
  Pages,        \* the pages there are: names, and the names one level below
  VariantId,    \* variants on the canvas
  MaxPosts      \* bound: messages on their way

(* A page: the children of body, each with the names of its own children.  *)
(* `slot` are the elements that carry a data-clancy-slot, an id or a       *)
(* data-testid of their own.                                               *)
Names == UNION {[1..n -> Tag] : n \in 0..MaxSiblings}
Element == (1..MaxSiblings) \X (0..MaxSiblings)

VARIABLES
  tags,      \* names of the children of body
  inner,     \* for each of them, the names of its children
  slots,     \* elements with an attribute of their own
  frames,    \* the iframes the canvas shows now
  handled,   \* the iframes the registered message handler knows
  picking,   \* frames in pick mode
  modes,     \* set-pick-mode messages on their way to the frames
  posts,     \* element-picked messages on their way to the canvas
  active     \* the comment's variant and anchor, and what was clicked

page == <<tags, inner, slots>>
vars == <<page, frames, handled, picking, modes, posts, active>>

PickBounds ==
  /\ MaxSiblings \in Nat \ {0} /\ MaxPosts \in Nat \ {0}
  /\ \A p \in Pages : p[1] \in Names /\ p[2] \in [DOMAIN p[1] -> Names]

Target == {e \in Element : e[1] \in DOMAIN tags /\ e[2] \in {0} \union DOMAIN inner[e[1]]}

(* A step of a path: an element name, and a number where it has siblings   *)
(* of the same name (0 where it has none).                                 *)
Segment == Tag \X (0..MaxSiblings)
Path == {<<s>> : s \in Segment} \union (Segment \X Segment)
Anchor == {<<"slot", e>> : e \in Element} \union {<<"path", p>> : p \in Path}
Post == [variant : VariantId, anchor : Anchor, clicked : Element]
NoPost == [variant |-> "none"]

TypeOK ==
  /\ tags \in Names /\ inner \in [DOMAIN tags -> Names] /\ slots \subseteq Target
  /\ frames \subseteq VariantId /\ handled \subseteq VariantId
  /\ picking \subseteq VariantId
  /\ modes \subseteq VariantId \X BOOLEAN
  /\ posts \subseteq Post
  /\ active = NoPost \/ active \in Post

Init ==
  /\ \E p \in Pages : tags = p[1] /\ inner = p[2]
  /\ slots \in {{}, {e \in Target : e[1] = 1}}
  /\ frames = {} /\ handled = {} /\ picking = {}
  /\ modes = {} /\ posts = {} /\ active = NoPost

-----------------------------------------------------------------------------
(* computeStableSelector *)

(* The number is the place among the siblings of the same name, while      *)
(* :nth-child counts all siblings.                                         *)
Same(names, k) == {j \in DOMAIN names : names[j] = names[k]}

collectSelectorSegments_zeroBased(names, k) ==
  <<names[k], IF Cardinality(Same(names, k)) = 1 THEN 0
              ELSE Cardinality({j \in Same(names, k) : j < k})>>

collectSelectorSegments(names, k) ==
  <<names[k], IF Cardinality(Same(names, k)) = 1 THEN 0
              ELSE Cardinality({j \in Same(names, k) : j <= k})>>

buildNthChildPath(e) ==
  LET top == collectSelectorSegments(tags, e[1]) IN
  IF e[2] = 0 THEN <<top>>
  ELSE <<top, collectSelectorSegments(inner[e[1]], e[2])>>

computeStableSelector(e) ==
  IF e \in slots THEN <<"slot", e>> ELSE <<"path", buildNthChildPath(e)>>

-----------------------------------------------------------------------------
(* The canvas shows other variants; React registers a handler for them     *)
(* afterwards, and a new frame starts without pick mode.                   *)
Render(fs) ==
  /\ fs # frames /\ frames' = fs
  /\ picking' = picking \intersect fs
  /\ modes' = {m \in modes : m[1] \in fs}
  /\ UNCHANGED <<page, handled, posts, active>>

useElementPickedReceiver ==
  /\ handled # frames /\ handled' = frames
  /\ UNCHANGED <<page, frames, picking, modes, posts, active>>

SetPickMode(v, on) ==
  /\ v \in frames /\ modes' = modes \union {<<v, on>>}
  /\ UNCHANGED <<page, frames, handled, picking, posts, active>>

(* onMessage, in the frame. *)
onMessage(m) ==
  /\ modes' = modes \ {m}
  /\ picking' = IF m[2] THEN picking \union {m[1]} ELSE picking \ {m[1]}
  /\ UNCHANGED <<page, frames, handled, posts, active>>

(* onClick: outside pick mode the click is the page's own. *)
onClick(v, e) ==
  /\ v \in picking /\ Cardinality(posts) < MaxPosts
  /\ posts' = posts \union
       {[variant |-> v, anchor |-> computeStableSelector(e), clicked |-> e]}
  /\ UNCHANGED <<page, frames, handled, picking, modes, active>>

(* The sender is looked up among the frames the handler knows. *)
handlePickedMessage(p) ==
  /\ posts' = posts \ {p}
  /\ active' = IF p.variant \in handled THEN p ELSE active
  /\ UNCHANGED <<page, frames, handled, picking, modes>>

Next ==
  \/ \E fs \in SUBSET VariantId : Render(fs)
  \/ useElementPickedReceiver
  \/ \E v \in VariantId, on \in BOOLEAN : SetPickMode(v, on)
  \/ \E m \in modes : onMessage(m)
  \/ \E v \in VariantId, e \in Target : onClick(v, e)
  \/ \E p \in posts : handlePickedMessage(p)

Spec == Init /\ [][Next]_vars

-----------------------------------------------------------------------------
(* What a selector finds in the page. *)
Found(names, seg) ==
  {k \in DOMAIN names : names[k] = seg[1] /\ seg[2] \in {0, k}}

Matches(anchor) ==
  IF anchor[1] = "slot" THEN {anchor[2]}
  ELSE LET path == anchor[2] IN
       {e \in Target :
          /\ e[1] \in Found(tags, path[1])
          /\ IF Len(path) = 1 THEN e[2] = 0
             ELSE e[2] # 0 /\ e[2] \in Found(inner[e[1]], path[2])}

(* Alone of its name, or with none but its own name before it: the place   *)
(* among the siblings of that name is then the place among all siblings.   *)
PlacesAgree(names, k) ==
  Cardinality(Same(names, k)) = 1 \/ \A j \in 1..k : names[j] = names[k]

Earlier(f, e) == f[1] < e[1] \/ (f[1] = e[1] /\ f[2] < e[2])

Alike(f, e) ==
  /\ tags[f[1]] = tags[e[1]]
  /\ IF e[2] = 0 THEN f[2] = 0
     ELSE f[2] # 0 /\ inner[f[1]][f[2]] = inner[e[1]][e[2]]

(* The anchor of the active comment finds the element that was clicked and *)
(* no other if that has an attribute of its own, or if on every level of   *)
(* its path the place among the siblings of its name is that among all.    *)
(* If it has neither, the anchor misses it: it finds nothing, or elements  *)
(* of the same names earlier on the page, never one of another name or     *)
(* behind it (overlay.client.ts, whatever frames and handlers come and go  *)
(* between the click and the comment).                                     *)
PickResolves ==
  active # NoPost =>
    LET e == active.clicked
        found == Matches(active.anchor)
    IN IF \/ e \in slots
          \/ /\ PlacesAgree(tags, e[1])
             /\ e[2] = 0 \/ PlacesAgree(inner[e[1]], e[2])
       THEN found = {e}
       ELSE \A f \in found : Earlier(f, e) /\ Alike(f, e)

=============================================================================
