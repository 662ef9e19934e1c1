--------------------------- MODULE DesignVariants ---------------------------
(***************************************************************************)
(* The variant bodies of a design session: rounds of generation, bodies    *)
(* written once each by an exclusive create, and the marker of the variant *)
(* that was accepted.  Writes overlap, fail and are killed at any step.    *)
(***************************************************************************)
EXTENDS Naturals, FiniteSets

CONSTANTS
  Id,         \* the ids generateParallel asks for, in every round
  MaxRound    \* bound: generations

Body == 1..MaxRound
None == 0

VARIABLES
  round,      \* generations so far; a body is known by its generation
  generated,  \* history: the variants the model has answered with
  writing,    \* calls of writeVariantHtml that have not returned
  file,       \* variants/<id>.html
  written,    \* history: bodies whose write returned
  accepting,  \* the variant whose marker is being written
  marker,     \* approved/<slot>
  exhausted   \* history: ids whose open failed before the exclusive check

vars == <<round, generated, writing, file, written, accepting, marker, exhausted>>

RoundBound == MaxRound \in Nat \ {0} /\ Id # {}

Call == [id : Id, body : Body, step : {"open", "write", "remove"}]
Variant == [id : Id, body : Body]
Absent == [body |-> None, whole |-> FALSE]
Whole(b) == [body |-> b, whole |-> TRUE]
NoMarker == [id |-> "none", body |-> None]
TornMarker == [id |-> "torn", body |-> None]

TypeOK ==
  /\ round \in 0..MaxRound /\ generated \subseteq Variant /\ writing \subseteq Call
  /\ file \in [Id -> [body : Body \union {None}, whole : BOOLEAN]]
  /\ written \subseteq Variant /\ exhausted \subseteq Id
  /\ accepting \in Variant \union {NoMarker}
  /\ marker \in Variant \union {NoMarker, TornMarker}

Init ==
  /\ round = 0 /\ generated = {} /\ writing = {} /\ file = [i \in Id |-> Absent]
  /\ written = {} /\ exhausted = {}
  /\ accepting = NoMarker /\ marker = NoMarker

-----------------------------------------------------------------------------
(* Generation.  generate takes the id from the model's answer.             *)
Generated(ids) ==
  /\ generated' = generated \union {[id |-> i, body |-> round'] : i \in ids}
  /\ writing' = writing \union
       {[id |-> i, body |-> round', step |-> "open"] : i \in ids}

(* All or nothing: an answer with another id than the one asked for        *)
(* rejects the round.                                                      *)
assertVariantId(asked, answered) == answered = asked

generateParallel ==
  /\ round < MaxRound /\ round' = round + 1
  /\ \E answer \in [Id -> Id] :
       Generated(IF \A i \in Id : assertVariantId(i, answer[i])
                 THEN {answer[i] : i \in Id} ELSE {})
  /\ UNCHANGED <<file, written, accepting, marker, exhausted>>

(* The id of the variant that is iterated on is asked for again, and what  *)
(* comes back is not compared with it.                                     *)
regenerate ==
  /\ round < MaxRound /\ round' = round + 1
  /\ \E answer \in Id : Generated({answer})
  /\ UNCHANGED <<file, written, accepting, marker, exhausted>>

-----------------------------------------------------------------------------
(* writeVariantHtml *)

At(c, step) == c \in writing /\ c.step = step
Goto(c, step) == writing' = (writing \ {c}) \union {[c EXCEPT !.step = step]}
Return(c) == writing' = writing \ {c}

(* The flag `wx`: O_CREAT and O_EXCL in one. *)
OpenVariant_truncates(c) ==
  /\ At(c, "open")
  /\ file' = [file EXCEPT ![c.id] = [body |-> c.body, whole |-> FALSE]]
  /\ Goto(c, "write")
  /\ UNCHANGED <<round, generated, written, accepting, marker, exhausted>>

OpenVariant(c) ==
  /\ At(c, "open")
  /\ IF file[c.id] = Absent
     THEN /\ file' = [file EXCEPT ![c.id] = [body |-> c.body, whole |-> FALSE]]
          /\ Goto(c, "write")
     ELSE Return(c) /\ UNCHANGED file
  /\ UNCHANGED <<round, generated, written, accepting, marker, exhausted>>

(* No descriptor is left: another error than EEXIST, whatever is there. *)
OpenFails(c) ==
  /\ At(c, "open") /\ Goto(c, "remove")
  /\ exhausted' = exhausted \union {c.id}
  /\ UNCHANGED <<round, generated, file, written, accepting, marker>>

(* The write goes to the file that was opened, which may be gone. *)
WriteBody(c) ==
  /\ At(c, "write")
  /\ \/ /\ Return(c) /\ written' = written \union {[id |-> c.id, body |-> c.body]}
        /\ file' = [file EXCEPT ![c.id] = IF @.body = c.body THEN Whole(c.body) ELSE @]
     \/ Goto(c, "remove") /\ UNCHANGED <<file, written>>
  /\ UNCHANGED <<round, generated, accepting, marker, exhausted>>

(* The cleanup removes what has the name, whoever made it. *)
RemoveResidue(c) ==
  /\ At(c, "remove") /\ Return(c)
  /\ file' = [file EXCEPT ![c.id] = Absent]
  /\ UNCHANGED <<round, generated, written, accepting, marker, exhausted>>

-----------------------------------------------------------------------------
(* approveVariant hashes the body it is handed, whether or not it is the   *)
(* one in the file of that id; the marker is truncated and then filled.    *)
approveVariant(v) ==
  /\ accepting = NoMarker
  /\ accepting' = v /\ marker' = TornMarker
  /\ UNCHANGED <<round, generated, writing, file, written, exhausted>>

WriteMarker ==
  /\ accepting # NoMarker /\ accepting' = NoMarker
  /\ marker' = accepting
  /\ UNCHANGED <<round, generated, writing, file, written, exhausted>>

Killed ==
  /\ writing # {} \/ accepting # NoMarker
  /\ writing' = {} /\ accepting' = NoMarker
  /\ UNCHANGED <<round, generated, file, written, marker, exhausted>>

Next ==
  \/ generateParallel \/ regenerate
  \/ \E c \in writing :
       OpenVariant(c) \/ OpenFails(c) \/ WriteBody(c) \/ RemoveResidue(c)
  \/ \E v \in generated : approveVariant(v)
  \/ WriteMarker \/ Killed

Spec == Init /\ [][Next]_vars

-----------------------------------------------------------------------------
(* A body that was written stays as it was written, although every round   *)
(* asks for the same ids (variants.ts, write-once): all that can take it   *)
(* away is the cleanup after an open that failed for want of a descriptor, *)
(* a case the code knows.  The marker of an accepted variant disagrees     *)
(* with the file of its id in that case, and where the accepted body has   *)
(* not been written, its id taken by another say: approveVariant does not  *)
(* look.                                                                   *)
BodiesKept ==
  /\ \A v \in written : v.id \in exhausted \/ file[v.id] = Whole(v.body)
  /\ marker \in Variant =>
       \/ file[marker.id] = Whole(marker.body)
       \/ marker.id \in exhausted
       \/ marker \in generated \ written

=============================================================================
