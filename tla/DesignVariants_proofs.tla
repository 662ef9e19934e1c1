------------------------ MODULE DesignVariants_proofs ------------------------
(***************************************************************************)
(* Theorems about DesignVariants: for any ids and any number of rounds,    *)
(* calls and kills, a body that was written stays as it was written.       *)
(***************************************************************************)
EXTENDS DesignVariants, TLAPS

(* What a call that is past its open relies on: the file of its id holds   *)
(* the torn beginning of its own body, so that the cleanup of a write that *)
(* failed removes that and nothing else.                                   *)
Torn(b) == [body |-> b, whole |-> FALSE]
Past(c) == c.step \in {"write", "remove"}
TornIsMine ==
  \A c \in writing : Past(c) => c.id \in exhausted \/ file[c.id] = Torn(c.body)

(* No two calls are for the same body, and none is for a round to come:    *)
(* without this a second call could remove what the first has written.     *)
OneCallEach ==
  /\ \A c \in writing : c.body <= round
  /\ \A c, d \in writing : c.id = d.id /\ c.body = d.body => c = d

WrittenStays == \A v \in written : v.id \in exhausted \/ file[v.id] = Whole(v.body)

(* Only what the model has answered with is accepted. *)
AcceptsGenerated ==
  /\ accepting # NoMarker => accepting \in generated
  /\ marker \in Variant => marker \in generated

IInv == TypeOK /\ TornIsMine /\ OneCallEach /\ WrittenStays /\ AcceptsGenerated

-----------------------------------------------------------------------------
(* Three contents of a file that are never the same *)

LEMMA NoneIsNoBody == None \notin Body
BY DEF None, Body

LEMMA ContentsDiffer ==
  ASSUME NEW a \in Body, NEW b \in Body
  PROVE  /\ Whole(a) # Absent /\ Torn(a) # Absent /\ Torn(a) # Whole(b)
         /\ Torn(a) = Torn(b) => a = b
BY NoneIsNoBody DEF Whole, Torn, Absent

LEMMA MarkersAreNoVariants == NoMarker \notin Variant /\ TornMarker \notin Variant
BY NoneIsNoBody DEF NoMarker, TornMarker, Variant

-----------------------------------------------------------------------------
(* Generation adds calls for a body nobody has yet *)

LEMMA GeneratedKeeps ==
  ASSUME IInv, RoundBound, NEW ids \in SUBSET Id,
         round < MaxRound, round' = round + 1, Generated(ids),
         UNCHANGED <<file, written, accepting, marker, exhausted>>
  PROVE  IInv'
<1> DEFINE new == {[id |-> i, body |-> round', step |-> "open"] : i \in ids}
<1>1. writing' = writing \union new
  BY DEF Generated
<1>2. round \in Nat /\ MaxRound \in Nat /\ round' \in 0..MaxRound /\ round' \in Body
  BY DEF IInv, TypeOK, RoundBound, Body
<1>3. \A c \in new : c \in Call /\ c.body = round' /\ c.step = "open"
  BY <1>2 DEF Call
<1>4. \A c \in writing : c \in Call /\ c.body \in Nat /\ c.body <= round /\ c.body # round'
  BY <1>2 DEF IInv, TypeOK, OneCallEach, Call, Body
<1>5. generated \subseteq generated' /\ generated' \subseteq Variant
  BY <1>2 DEF Generated, IInv, TypeOK, Variant
<1>6. TypeOK'
  BY <1>1, <1>2, <1>3, <1>5 DEF IInv, TypeOK
<1>7. TornIsMine'
  BY <1>1, <1>3 DEF IInv, TornIsMine, Past
<1>8. OneCallEach'
  <2>1. \A c \in writing' : c.body <= round'
    BY <1>1, <1>2, <1>3, <1>4
  <2>2. ASSUME NEW c \in writing', NEW d \in writing', c.id = d.id, c.body = d.body
        PROVE  c = d
    <3>1. CASE c \in writing
      BY <1>1, <1>3, <1>4, <2>2, <3>1 DEF IInv, OneCallEach
    <3>2. CASE c \in new
      <4>1. d \in new
        BY <1>1, <1>3, <1>4, <2>2, <3>2
      <4> QED
        BY <2>2, <3>2, <4>1
    <3> QED
      BY <1>1, <3>1, <3>2
  <2> QED
    BY <2>1, <2>2 DEF OneCallEach
<1>9. WrittenStays' /\ AcceptsGenerated'
  BY <1>5 DEF IInv, WrittenStays, AcceptsGenerated
<1> QED
  BY <1>6, <1>7, <1>8, <1>9 DEF IInv

-----------------------------------------------------------------------------
(* A call that goes on or returns leaves one call for each body *)

LEMMA GotoKeeps ==
  ASSUME IInv, NEW c \in writing, NEW s \in {"open", "write", "remove"},
         Goto(c, s), round' = round
  PROVE  /\ writing' \subseteq Call /\ OneCallEach'
         /\ \A d \in writing' : \/ d \in writing /\ d # c
                                \/ d = [c EXCEPT !.step = s]
<1>1. c \in Call /\ [c EXCEPT !.step = s] \in Call
  BY DEF IInv, TypeOK, Call
<1> QED
  BY <1>1 DEF IInv, TypeOK, OneCallEach, Goto, Call

LEMMA ReturnKeeps ==
  ASSUME IInv, NEW c \in writing, Return(c), round' = round
  PROVE  /\ writing' \subseteq Call /\ OneCallEach'
         /\ \A d \in writing' : d \in writing /\ d # c
BY DEF IInv, TypeOK, OneCallEach, Return

LEMMA OpenKeeps ==
  ASSUME IInv, NEW c \in writing, OpenVariant(c) \/ OpenFails(c)
  PROVE  IInv'
<1> USE DEF IInv
<1>1. c \in Call /\ c.id \in Id /\ c.body \in Body
  BY DEF TypeOK, Call
<1>2. CASE OpenVariant(c) /\ file[c.id] = Absent
  <2>1. /\ file' = [file EXCEPT ![c.id] = Torn(c.body)] /\ Goto(c, "write")
        /\ UNCHANGED <<round, generated, written, accepting, marker, exhausted>>
    BY <1>2 DEF OpenVariant, Torn
  <2>2. /\ writing' \subseteq Call /\ OneCallEach'
        /\ \A d \in writing' : \/ d \in writing /\ d # c
                               \/ d = [c EXCEPT !.step = "write"]
    BY <2>1, GotoKeeps
  <2>3. TypeOK'
    BY <1>1, <2>1, <2>2 DEF TypeOK, Torn
  <2>4. \A d \in writing : Past(d) => d.id \in exhausted \/ d.id # c.id
    BY <1>2, ContentsDiffer DEF TornIsMine, TypeOK, Call
  <2>5. TornIsMine'
    BY <1>1, <2>1, <2>2, <2>4 DEF TornIsMine, TypeOK, Call
  <2>6. \A v \in written : v.id \in exhausted \/ v.id # c.id
    BY <1>2, ContentsDiffer DEF WrittenStays, TypeOK, Variant
  <2>7. WrittenStays' /\ AcceptsGenerated'
    BY <2>1, <2>6 DEF WrittenStays, AcceptsGenerated, TypeOK, Variant
  <2> QED
    BY <2>2, <2>3, <2>5, <2>7
<1>3. CASE OpenVariant(c) /\ file[c.id] # Absent
  <2>1. Return(c) /\ UNCHANGED <<round, generated, file, written, accepting, marker, exhausted>>
    BY <1>3 DEF OpenVariant
  <2>2. /\ writing' \subseteq Call /\ OneCallEach'
        /\ \A d \in writing' : d \in writing /\ d # c
    BY <2>1, ReturnKeeps
  <2> QED
    BY <2>1, <2>2 DEF TypeOK, TornIsMine, WrittenStays, AcceptsGenerated
<1>4. CASE OpenFails(c)
  <2>1. /\ Goto(c, "remove") /\ exhausted' = exhausted \union {c.id}
        /\ UNCHANGED <<round, generated, file, written, accepting, marker>>
    BY <1>4 DEF OpenFails
  <2>2. /\ writing' \subseteq Call /\ OneCallEach'
        /\ \A d \in writing' : \/ d \in writing /\ d # c
                               \/ d = [c EXCEPT !.step = "remove"]
    BY <2>1, GotoKeeps
  <2>3. TypeOK'
    BY <1>1, <2>1, <2>2 DEF TypeOK
  <2>4. TornIsMine'
    BY <1>1, <2>1, <2>2 DEF TornIsMine, Call
  <2> QED
    BY <2>1, <2>2, <2>3, <2>4 DEF WrittenStays, AcceptsGenerated
<1> QED
  BY <1>2, <1>3, <1>4

LEMMA WriteKeeps ==
  ASSUME IInv, NEW c \in writing, WriteBody(c)
  PROVE  IInv'
<1> USE DEF IInv
<1>1. c \in Call /\ c.id \in Id /\ c.body \in Body /\ c.step = "write"
  BY DEF TypeOK, Call, WriteBody, At
<1>2. c.id \in exhausted \/ file[c.id] = Torn(c.body)
  BY <1>1 DEF TornIsMine, Past
<1>3. UNCHANGED <<round, generated, accepting, marker, exhausted>>
  BY DEF WriteBody
<1>4. CASE Goto(c, "remove") /\ UNCHANGED <<file, written>>
  <2>1. /\ writing' \subseteq Call /\ OneCallEach'
        /\ \A d \in writing' : \/ d \in writing /\ d # c
                               \/ d = [c EXCEPT !.step = "remove"]
    BY <1>3, <1>4, GotoKeeps
  <2>2. TornIsMine'
    BY <1>1, <1>2, <1>3, <1>4, <2>1 DEF TornIsMine, Call
  <2> QED
    BY <1>3, <1>4, <2>1, <2>2 DEF TypeOK, WrittenStays, AcceptsGenerated
<1>5. CASE /\ Return(c) /\ written' = written \union {[id |-> c.id, body |-> c.body]}
           /\ file' = [file EXCEPT ![c.id] = IF @.body = c.body THEN Whole(c.body) ELSE @]
  <2>1. /\ writing' \subseteq Call /\ OneCallEach'
        /\ \A d \in writing' : d \in writing /\ d # c
    BY <1>3, <1>5, ReturnKeeps
  <2>2. c.id \in exhausted \/ file'[c.id] = Whole(c.body)
    BY <1>1, <1>2, <1>5 DEF TypeOK, Torn
  <2>3. /\ file' \in [Id -> [body : Body \union {None}, whole : BOOLEAN]]
        /\ \A i \in Id : i # c.id => file'[i] = file[i]
    BY <1>1, <1>5 DEF TypeOK, Whole
  <2>4. TypeOK'
    BY <1>1, <1>3, <1>5, <2>1, <2>3 DEF TypeOK, Variant
  <2>5. \A d \in writing' : Past(d) => d.id \in exhausted \/ d.id # c.id
    BY <1>2, <2>1, ContentsDiffer DEF TornIsMine, OneCallEach, TypeOK, Call
  <2>6. TornIsMine'
    BY <1>3, <2>1, <2>3, <2>5 DEF TornIsMine, TypeOK, Call
  <2>7. \A v \in written : v.id \in exhausted \/ v.id # c.id
    BY <1>1, <1>2, ContentsDiffer DEF WrittenStays, TypeOK, Variant
  <2>8. WrittenStays'
    BY <1>3, <1>5, <2>2, <2>3, <2>7 DEF WrittenStays, TypeOK, Variant
  <2>9. AcceptsGenerated'
    BY <1>3, <1>5 DEF AcceptsGenerated
  <2> QED
    BY <2>1, <2>4, <2>6, <2>8, <2>9
<1> QED
  BY <1>4, <1>5 DEF WriteBody

LEMMA RemoveKeeps ==
  ASSUME IInv, NEW c \in writing, RemoveResidue(c)
  PROVE  IInv'
<1> USE DEF IInv
<1>1. c \in Call /\ c.id \in Id /\ c.body \in Body /\ c.step = "remove"
  BY DEF TypeOK, Call, RemoveResidue, At
<1>2. c.id \in exhausted \/ file[c.id] = Torn(c.body)
  BY <1>1 DEF TornIsMine, Past
<1>3. /\ Return(c) /\ file' = [file EXCEPT ![c.id] = Absent]
      /\ UNCHANGED <<round, generated, written, accepting, marker, exhausted>>
  BY DEF RemoveResidue
<1>4. /\ writing' \subseteq Call /\ OneCallEach'
      /\ \A d \in writing' : d \in writing /\ d # c
  BY <1>3, ReturnKeeps
<1>5. TypeOK'
  BY <1>1, <1>3, <1>4 DEF TypeOK, Absent
<1>6. \A d \in writing' : Past(d) => d.id \in exhausted \/ d.id # c.id
  BY <1>2, <1>4, ContentsDiffer DEF TornIsMine, OneCallEach, TypeOK, Call
<1>7. TornIsMine'
  BY <1>1, <1>3, <1>4, <1>6 DEF TornIsMine, TypeOK, Call
<1>8. \A v \in written : v.id \in exhausted \/ v.id # c.id
  BY <1>1, <1>2, ContentsDiffer DEF WrittenStays, TypeOK, Variant
<1>9. WrittenStays' /\ AcceptsGenerated'
  BY <1>1, <1>3, <1>8 DEF WrittenStays, AcceptsGenerated, TypeOK, Variant
<1> QED
  BY <1>4, <1>5, <1>7, <1>9

LEMMA ApprovalKeeps ==
  ASSUME IInv, (\E v \in generated : approveVariant(v)) \/ WriteMarker \/ Killed
  PROVE  IInv'
<1> USE DEF IInv
<1>1. CASE \E v \in generated : approveVariant(v)
  BY <1>1, MarkersAreNoVariants
     DEF approveVariant, TypeOK, TornIsMine, OneCallEach, WrittenStays, AcceptsGenerated
<1>2. CASE WriteMarker
  BY <1>2 DEF WriteMarker, TypeOK, TornIsMine, OneCallEach, WrittenStays, AcceptsGenerated
<1>3. CASE Killed
  BY <1>3 DEF Killed, TypeOK, TornIsMine, OneCallEach, WrittenStays, AcceptsGenerated
<1> QED
  BY <1>1, <1>2, <1>3

-----------------------------------------------------------------------------
LEMMA InitIInv == RoundBound /\ Init => IInv
BY MarkersAreNoVariants
   DEF RoundBound, Init, IInv, TypeOK, TornIsMine, OneCallEach, WrittenStays,
       AcceptsGenerated, Absent, Call

LEMMA Inductive == RoundBound /\ IInv /\ [Next]_vars => IInv'
<1> SUFFICES ASSUME RoundBound, IInv, [Next]_vars PROVE IInv'
  OBVIOUS
<1>1. CASE generateParallel
  <2>1. PICK answer \in [Id -> Id] :
          Generated(IF \A i \in Id : assertVariantId(i, answer[i])
                    THEN {answer[i] : i \in Id} ELSE {})
    BY <1>1 DEF generateParallel
  <2>2. (IF \A i \in Id : assertVariantId(i, answer[i])
         THEN {answer[i] : i \in Id} ELSE {}) \in SUBSET Id
    OBVIOUS
  <2> QED
    BY <1>1, <2>1, <2>2, GeneratedKeeps DEF generateParallel
<1>2. CASE regenerate
  <2>1. PICK answer \in Id : Generated({answer})
    BY <1>2 DEF regenerate
  <2> QED
    BY <1>2, <2>1, GeneratedKeeps DEF regenerate
<1>3. ASSUME NEW c \in writing,
             OpenVariant(c) \/ OpenFails(c) \/ WriteBody(c) \/ RemoveResidue(c)
      PROVE  IInv'
  BY <1>3, OpenKeeps, WriteKeeps, RemoveKeeps
<1>4. CASE (\E v \in generated : approveVariant(v)) \/ WriteMarker \/ Killed
  BY <1>4, ApprovalKeeps
<1>5. CASE UNCHANGED vars
  BY <1>5 DEF vars, IInv, TypeOK, TornIsMine, OneCallEach, WrittenStays, AcceptsGenerated
<1> QED
  BY <1>1, <1>2, <1>3, <1>4, <1>5 DEF Next

-----------------------------------------------------------------------------
(* The files of writeVariantHtml, its calls in flight and the approval     *)
(* marker keep their types whatever overlaps, fails or is killed.          *)
THEOREM TypeCorrect == ASSUME RoundBound PROVE Spec => []TypeOK
<1>1. IInv => TypeOK
  BY DEF IInv
<1> QED
  BY <1>1, InitIInv, Inductive, PTL DEF Spec

(* A body that writeVariantHtml has reported as written stays whole unless *)
(* an open of its id failed before the exclusive check, and the accepted   *)
(* marker disagrees with the file of its id only then, or where its body   *)
(* has not been written (variants.ts, write-once and cleanup; approve.ts). *)
THEOREM BodiesAreKept == ASSUME RoundBound PROVE Spec => []BodiesKept
<1>1. IInv => BodiesKept
  BY DEF IInv, WrittenStays, AcceptsGenerated, BodiesKept
<1> QED
  BY <1>1, InitIInv, Inductive, PTL DEF Spec

=============================================================================
