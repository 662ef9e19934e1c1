-------------------------- MODULE CanvasLock_proofs --------------------------
(***************************************************************************)
(* Proofs about CanvasLock, for every set of processes and timestamps.     *)
(*                                                                         *)
(* The exclusive create admits one server; what could let a second one in  *)
(* is a removal of the first one's file.  StaleIsAbandoned rules out that  *)
(* a takeover means a lock whose process lives, and OneRemoves that the    *)
(* `rm` hits another file than the one meant.  Both need that no exposure  *)
(* has happened.                                                           *)
(***************************************************************************)
EXTENDS CanvasLock, TLAPS

-----------------------------------------------------------------------------
(* Files and texts *)

LEMMA FileContents ==
  /\ Absent \in File
  /\ \A text \in Text, filled \in BOOLEAN : FileOf(text, filled) \in File
BY DEF File

LEMMA FileOfFields ==
  ASSUME NEW text, NEW filled
  PROVE  /\ FileOf(text, filled).kind = "file"
         /\ FileOf(text, filled).text = text
         /\ FileOf(text, filled).filled = filled
         /\ FileOf(text, filled) # Absent
BY DEF FileOf, Absent

(* A file is known by its text and whether that is written. *)
LEMMA ReadsFileOf ==
  ASSUME file \in File, NEW text, Reads(text)
  PROVE  text \in Text /\ file = FileOf(text, TRUE)
BY DEF File, FileOf, Absent, Reads, isFile

(* A process that does anything has a text of its own, with its pid. *)
LEMMA OwnText ==
  ASSUME TypeOK, Texts, NEW p \in Process, pc[p] \notin {"gone", "foreign"}
  PROVE  mine[p] \in Text /\ mine[p] # NoText /\ mine[p].pid = p
BY DEF TypeOK, Texts

-----------------------------------------------------------------------------

LEMMA InitType == Init => TypeOK
BY FileContents DEF Init, TypeOK, PC

LEMMA ExitType ==
  ASSUME TypeOK, NEW p \in Process, Exit(p)
  PROVE  /\ pc' \in [Process -> PC]
         /\ mine' \in [Process -> Text \union {NoText}]
         /\ seen' \in [Process -> Text \union {NoText}]
         /\ aged' \in [Process -> SUBSET Text]
BY DEF TypeOK, PC, Exit, Goto, Without, Forget

LEMMA NextType == TypeOK /\ Texts /\ [Next]_vars => TypeOK'
<1> SUFFICES ASSUME TypeOK, Texts, [Next]_vars PROVE TypeOK'
  OBVIOUS
<1> USE DEF TypeOK, PC, Acquiring, Releasing, Goto, Without, Forget
<1>1. ASSUME NEW p \in Process, Acquire(p) PROVE TypeOK'
  <2>1. ASSUME NEW text \in Text, NEW ages \in SUBSET Text, Launch(p, text, ages)
        PROVE  TypeOK'
    <3>1. exposed' \in BOOLEAN
      BY <2>1 DEF Launch
    <3> QED
      BY <2>1, <3>1 DEF Launch
  <2>2. CASE CreateOpens(p)
    <3>1. mine[p] \in Text
      BY <2>2, OwnText DEF CreateOpens
    <3> QED
      BY <2>2, <3>1, FileContents DEF CreateOpens
  <2>3. CASE Fill(p)
    <3>1. file' \in File
      BY <2>3, FileContents, OwnText DEF Fill
    <3> QED
      BY <2>3, <3>1 DEF Fill
  <2>4. CASE CreateExists(p) \/ ProbeAbsent(p) \/ CompareAbsent(p) \/ Remove(p)
    BY <2>4, FileContents DEF CreateExists, ProbeAbsent, CompareAbsent, Remove
  <2>5. CASE ProbeStale(p)
    <3>1. file.text \in Text
      BY <2>5 DEF ProbeStale, isFile, File, FileOf, Absent
    <3> QED
      BY <2>5, <3>1 DEF ProbeStale
  <2>6. CASE CompareSame(p)
    <3>1. exposed' \in BOOLEAN
      BY <2>6 DEF CompareSame
    <3> QED
      BY <2>6, <3>1 DEF CompareSame
  <2>7. CASE Refused(p)
    BY <2>7, ExitType DEF Refused
  <2> QED
    BY <1>1, <2>1, <2>2, <2>3, <2>4, <2>5, <2>6, <2>7 DEF Acquire
<1>2. ASSUME NEW p \in Process, Release(p) PROVE TypeOK'
  <2>1. CASE Close(p) \/ Signal(p) \/ SignalUnlink(p) \/ SignalAgain(p) \/ ReleaseReads(p)
    BY <2>1, FileContents DEF Close, Signal, SignalUnlink, SignalAgain, ReleaseReads
  <2>2. CASE ReleaseUnlinks(p) \/ ReleaseLeaves(p)
    BY <2>2, ExitType, FileContents DEF ReleaseUnlinks, ReleaseLeaves
  <2> QED
    BY <1>2, <2>1, <2>2 DEF Release
<1>3. ASSUME NEW p \in Process, Environment(p) PROVE TypeOK'
  BY <1>3, ExitType DEF Environment, Die, PidReused, ForeignExits
<1>4. CASE UNCHANGED vars
  BY <1>4 DEF vars
<1> QED
  BY <1>1, <1>2, <1>3, <1>4 DEF Next

-----------------------------------------------------------------------------
(* Texts is kept by every step *)

LEMMA ExitTexts ==
  ASSUME TypeOK, Texts, NEW p \in Process, Exit(p)
  PROVE  Texts'
BY NoTextIsNone DEF TypeOK, Texts, Exit, Goto, Without

LEMMA NextTexts == TypeOK /\ Texts /\ [Next]_vars => Texts'
<1> SUFFICES ASSUME TypeOK, Texts, [Next]_vars PROVE Texts'
  OBVIOUS
<1> USE DEF TypeOK, Texts, Goto, Without
<1>1. ASSUME NEW p \in Process, Acquire(p) PROVE Texts'
  <2>1. ASSUME NEW text \in Text, NEW ages \in SUBSET Text, Launch(p, text, ages)
        PROVE  Texts'
    BY <2>1, NoTextIsNone DEF Launch
  <2>2. CASE CreateOpens(p) \/ Fill(p) \/ CreateExists(p) \/ ProbeAbsent(p)
    BY <2>2 DEF CreateOpens, Fill, CreateExists, ProbeAbsent
  <2>3. CASE CompareSame(p) \/ CompareAbsent(p) \/ Remove(p)
    BY <2>3 DEF CompareSame, CompareAbsent, Remove
  <2>4. CASE ProbeStale(p)
    <3>1. file.text \in Text
      BY <2>4 DEF ProbeStale, isFile, File, FileOf, Absent
    <3> QED
      BY <2>4, <3>1 DEF ProbeStale
  <2>5. CASE Refused(p)
    BY <2>5, ExitTexts DEF Refused
  <2> QED
    BY <1>1, <2>1, <2>2, <2>3, <2>4, <2>5 DEF Acquire
<1>2. ASSUME NEW p \in Process, Release(p) PROVE Texts'
  <2>1. CASE Close(p) \/ Signal(p) \/ SignalUnlink(p) \/ SignalAgain(p) \/ ReleaseReads(p)
    BY <2>1 DEF Close, Signal, SignalUnlink, SignalAgain, ReleaseReads
  <2>2. CASE ReleaseUnlinks(p) \/ ReleaseLeaves(p)
    BY <2>2, ExitTexts DEF ReleaseUnlinks, ReleaseLeaves
  <2> QED
    BY <1>2, <2>1, <2>2 DEF Release
<1>3. ASSUME NEW p \in Process, Environment(p) PROVE Texts'
  BY <1>3, ExitTexts DEF Environment, Die, PidReused, ForeignExits
<1>4. CASE UNCHANGED vars
  BY <1>4 DEF vars
<1> QED
  BY <1>1, <1>2, <1>3, <1>4 DEF Next

-----------------------------------------------------------------------------
(* The protection *)

LEMMA InitIInv == Init => IInv
<1> SUFFICES ASSUME Init PROVE IInv
  OBVIOUS
<1>1. Texts
  BY NoTextIsNone DEF Init, Texts
<1>2. HolderHasLock /\ StaleIsAbandoned /\ OneRemoves
  BY DEF Init, HolderHasLock, StaleIsAbandoned, OneRemoves, Holding
<1> QED
  BY <1>1, <1>2, InitType DEF IInv

(* Who holds a lock is the one who wrote its text, and nobody else. *)
LEMMA HoldersDiffer ==
  ASSUME TypeOK, Texts, NEW p \in Process, NEW q \in Process, p # q,
         pc[p] \notin {"gone", "foreign"}
  PROVE  mine[p] # mine[q]
<1> SUFFICES ASSUME mine[p] = mine[q] PROVE FALSE
  OBVIOUS
<1>1. mine[p] \in Text /\ mine[p].pid = p
  BY OwnText
<1> QED
  BY <1>1 DEF Texts

(* An exposure is never forgotten. *)
LEMMA ExposedStays == [Next]_vars /\ ~exposed' => ~exposed
BY DEF Next, vars, Acquire, Release, Environment, Launch, CreateOpens, Fill,
   CreateExists, ProbeAbsent, ProbeStale, CompareSame, CompareAbsent, Remove,
   Refused, Close, Signal, SignalUnlink, SignalAgain, ReleaseReads,
   ReleaseUnlinks, ReleaseLeaves, Die, PidReused, ForeignExits

(* A process that leaves takes nothing away from the others. *)
LEMMA ExitAbandons ==
  ASSUME IInv, ~exposed, NEW p \in Process, Exit(p)
  PROVE  StaleIsAbandoned'
<1>1. TypeOK /\ StaleIsAbandoned /\ Texts
  BY DEF IInv
<1> SUFFICES ASSUME NEW r \in Process, NEW q \in Process
             PROVE  /\ pc'[r] \in {"compare", "remove"} => mine'[q] # seen'[r]
                    /\ mine'[q] \notin aged'[r]
  BY DEF StaleIsAbandoned
<1>2. NoText \notin aged[r]
  BY <1>1, NoTextIsNone DEF TypeOK
<1>3. pc[r] \in {"compare", "remove"} => NoText # seen[r]
  BY <1>1, NoTextIsNone DEF Texts
<1> QED
  BY <1>1, <1>2, <1>3 DEF TypeOK, StaleIsAbandoned, Exit, Goto, Without, Forget

(* StaleIsAbandoned: a step never makes the lock of a living process one   *)
(* that somebody believes stale. *)
LEMMA NextStale == IInv /\ [Next]_vars => (~exposed' => StaleIsAbandoned')
<1> SUFFICES ASSUME IInv, [Next]_vars, ~exposed' PROVE StaleIsAbandoned'
  OBVIOUS
<1>0. TypeOK /\ Texts
  BY DEF IInv
<1>a. ~exposed
  BY ExposedStays
<1>b. StaleIsAbandoned
  BY <1>a DEF IInv
<1> USE DEF Goto, Without, Forget
<1>1. ASSUME NEW p \in Process, Acquire(p) PROVE StaleIsAbandoned'
  <2>1. ASSUME NEW text \in Text, NEW ages \in SUBSET Text, Launch(p, text, ages)
        PROVE  StaleIsAbandoned'
    <3>1. /\ \A q \in Process : seen[q] # text /\ text \notin aged[q]
          /\ text \notin ages
      BY <2>1 DEF Launch, InUse
    <3>2. \A q \in Process : mine[q] \notin ages
      BY <2>1 DEF Launch
    <3> QED
      BY <2>1, <3>1, <3>2, <1>0, <1>b DEF TypeOK, StaleIsAbandoned, Launch
  <2>2. CASE CreateOpens(p) \/ Fill(p) \/ CreateExists(p) \/ ProbeAbsent(p)
    BY <2>2, <1>0, <1>b DEF TypeOK, StaleIsAbandoned, CreateOpens, Fill, CreateExists,
       ProbeAbsent
  <2>3. CASE CompareSame(p) \/ CompareAbsent(p) \/ Remove(p)
    BY <2>3, <1>0, <1>b DEF TypeOK, StaleIsAbandoned, CompareSame, CompareAbsent, Remove
  <2>4. CASE ProbeStale(p)
    <3>1. ASSUME NEW q \in Process, mine[q] = file.text PROVE FALSE
      <4>1. file.text \in Text
        BY <2>4, <1>0 DEF TypeOK, ProbeStale, isFile, File, FileOf, Absent
      <4>2. file.text.pid = q /\ pc[q] # "gone"
        BY <3>1, <4>1, <1>0, NoTextIsNone DEF Texts
      <4>3. file.text \notin aged[p]
        BY <3>1, <1>b DEF StaleIsAbandoned
      <4> QED
        BY <2>4, <4>2, <4>3 DEF ProbeStale, isStale, processExists
    <3> QED
      BY <2>4, <3>1, <1>0, <1>b DEF TypeOK, StaleIsAbandoned, ProbeStale
  <2>5. CASE Refused(p)
    BY <2>5, <1>a, ExitAbandons DEF Refused
  <2> QED
    BY <1>1, <2>1, <2>2, <2>3, <2>4, <2>5 DEF Acquire
<1>2. ASSUME NEW p \in Process, Release(p) PROVE StaleIsAbandoned'
  <2>1. CASE Close(p) \/ Signal(p) \/ SignalUnlink(p) \/ SignalAgain(p) \/ ReleaseReads(p)
    BY <2>1, <1>0, <1>b DEF TypeOK, StaleIsAbandoned, Close, Signal, SignalUnlink,
       SignalAgain, ReleaseReads
  <2>2. CASE ReleaseUnlinks(p) \/ ReleaseLeaves(p)
    BY <2>2, <1>a, ExitAbandons DEF ReleaseUnlinks, ReleaseLeaves
  <2> QED
    BY <1>2, <2>1, <2>2 DEF Release
<1>3. ASSUME NEW p \in Process, Environment(p) PROVE StaleIsAbandoned'
  BY <1>3, <1>0, <1>a, <1>b, ExitAbandons
     DEF TypeOK, StaleIsAbandoned, Environment, Die, PidReused, ForeignExits
<1>4. CASE UNCHANGED vars
  BY <1>4, <1>b DEF vars, StaleIsAbandoned
<1> QED
  BY <1>1, <1>2, <1>3, <1>4 DEF Next

(***************************************************************************)
(* The file guards: what the holders and the one takeover about to remove  *)
(* may rely on.  Guarded is HolderHasLock and OneRemoves without their     *)
(* provisions.                                                             *)
(***************************************************************************)
Guarded ==
  /\ \A p \in Process : pc[p] \in Holding => file = FileOf(mine[p], pc[p] # "fill")
  /\ \A p \in Process : pc[p] = "unlink" => Reads(mine[p])
  /\ OneRemoves

(* A step of p that keeps the file and leaves p outside the guarded places *)
(* keeps the others' guards. *)
LEMMA OthersKeepGuards ==
  ASSUME TypeOK, Guarded, NEW p \in Process,
         file' = file,
         \A q \in Process \ {p} : /\ pc'[q] = pc[q]
                                  /\ mine'[q] = mine[q]
                                  /\ seen'[q] = seen[q],
         pc'[p] \notin Holding \union {"unlink", "remove"}
  PROVE  Guarded'
BY DEF Guarded, OneRemoves, Reads, isFile

(* When the file goes, nobody else may rely on it: it was the lock of p.   *)
LEMMA OwnLockGoes ==
  ASSUME TypeOK, Texts, StaleIsAbandoned, Guarded, NEW p \in Process,
         Reads(mine[p]), pc[p] \notin {"gone", "foreign"}
  PROVE  \A q \in Process \ {p} : pc[q] \notin Holding \union {"unlink", "remove"}
<1> SUFFICES ASSUME NEW q \in Process \ {p}, pc[q] \in Holding \union {"unlink", "remove"}
             PROVE FALSE
  OBVIOUS
<1>1. mine[p] # mine[q]
  BY HoldersDiffer
<1>2. CASE pc[q] \in Holding
  BY <1>1, <1>2, FileOfFields DEF Guarded, Reads
<1>3. CASE pc[q] = "unlink"
  BY <1>1, <1>3 DEF Guarded, Reads
<1>4. CASE pc[q] = "remove"
  BY <1>4 DEF Guarded, OneRemoves, StaleIsAbandoned, Reads
<1> QED
  BY <1>2, <1>3, <1>4

(* The file of a stale lock is nobody's. *)
LEMMA StaleLockGoes ==
  ASSUME TypeOK, StaleIsAbandoned, Guarded, NEW p \in Process, pc[p] = "remove"
  PROVE  \A q \in Process \ {p} : pc[q] \notin Holding \union {"unlink", "remove"}
<1> SUFFICES ASSUME NEW q \in Process \ {p}, pc[q] \in Holding \union {"unlink", "remove"}
             PROVE FALSE
  OBVIOUS
<1>1. file.text = seen[p]
  BY DEF Guarded, OneRemoves, Reads
<1>2. mine[q] # seen[p]
  BY DEF StaleIsAbandoned
<1>3. CASE pc[q] \in Holding
  BY <1>1, <1>2, <1>3, FileOfFields DEF Guarded
<1>4. CASE pc[q] = "unlink"
  BY <1>1, <1>2, <1>4 DEF Guarded, Reads
<1>5. CASE pc[q] = "remove"
  BY <1>5 DEF Guarded, OneRemoves
<1> QED
  BY <1>3, <1>4, <1>5

LEMMA NextGuarded ==
  ASSUME TypeOK, Texts, StaleIsAbandoned, Guarded, [Next]_vars, ~exposed'
  PROVE  Guarded'
<1> USE DEF Goto, Without, Forget, Holding
<1>1. ASSUME NEW p \in Process, Acquire(p) PROVE Guarded'
  <2>1. ASSUME NEW text \in Text, NEW ages \in SUBSET Text, Launch(p, text, ages)
        PROVE  Guarded'
    BY <2>1, OthersKeepGuards DEF TypeOK, Launch
  <2>2. CASE CreateOpens(p)
    <3>1. \A q \in Process : pc[q] \notin Holding \union {"unlink", "remove"}
      BY <2>2, FileOfFields DEF CreateOpens, Guarded, OneRemoves, Reads, isFile, Absent
    <3> QED
      BY <2>2, <3>1 DEF TypeOK, CreateOpens, Guarded, OneRemoves
  <2>3. CASE Fill(p)
    <3>1. file = FileOf(mine[p], FALSE)
      BY <2>3 DEF Fill, Guarded
    <3>2. isFile /\ ~file.filled /\ file.text = mine[p]
      BY <3>1, FileOfFields DEF isFile
    <3>3. file' = FileOf(mine[p], TRUE)
      BY <2>3, <3>2 DEF Fill
    <3>4. \A q \in Process \ {p} : pc[q] \notin Holding \union {"unlink", "remove"}
      <4> SUFFICES ASSUME NEW q \in Process \ {p}, pc[q] \in Holding \union {"unlink", "remove"}
                   PROVE FALSE
        OBVIOUS
      <4>1. pc[q] \in Holding /\ file.text = mine[q]
        BY <3>2, FileOfFields DEF Guarded, OneRemoves, Reads
      <4> QED
        BY <2>3, <3>2, <4>1, HoldersDiffer DEF Fill
    <3> QED
      BY <2>3, <3>3, <3>4 DEF TypeOK, Fill, Guarded, OneRemoves
  <2>4. CASE CreateExists(p) \/ ProbeAbsent(p) \/ ProbeStale(p) \/ CompareAbsent(p)
    BY <2>4, OthersKeepGuards DEF TypeOK, CreateExists, ProbeAbsent, ProbeStale, CompareAbsent
  <2>5. CASE CompareSame(p)
    <3>1. \A q \in Process \ {p} : pc[q] # "remove"
      BY <2>5 DEF CompareSame
    <3> QED
      BY <2>5, <3>1 DEF TypeOK, CompareSame, Guarded, OneRemoves, Reads, isFile
  <2>6. CASE Remove(p)
    <3>1. \A q \in Process \ {p} : pc[q] \notin Holding \union {"unlink", "remove"}
      BY <2>6, StaleLockGoes DEF Remove
    <3> QED
      BY <2>6, <3>1 DEF TypeOK, Remove, Guarded, OneRemoves
  <2>7. CASE Refused(p)
    BY <2>7, OthersKeepGuards DEF TypeOK, Refused, Exit
  <2> QED
    BY <1>1, <2>1, <2>2, <2>3, <2>4, <2>5, <2>6, <2>7 DEF Acquire
<1>2. ASSUME NEW p \in Process, Release(p) PROVE Guarded'
  <2>1. CASE Close(p) \/ ReleaseLeaves(p)
    BY <2>1, OthersKeepGuards DEF TypeOK, Close, ReleaseLeaves, Exit
  <2>2. CASE Signal(p)
    <3>1. CASE Reads(mine[p])
      BY <2>2, <3>1 DEF TypeOK, Signal, Guarded, OneRemoves, Reads, isFile
    <3>2. CASE ~Reads(mine[p])
      BY <2>2, <3>2, OthersKeepGuards DEF TypeOK, Signal
    <3> QED
      BY <3>1, <3>2
  <2>3. CASE SignalUnlink(p) \/ ReleaseUnlinks(p)
    <3>1. Reads(mine[p])
      <4>1. CASE SignalUnlink(p)
        <5>1. file = FileOf(mine[p], TRUE)
          BY <4>1 DEF SignalUnlink, Guarded
        <5> QED
          BY <5>1, FileOfFields DEF Reads, isFile
      <4>2. CASE ReleaseUnlinks(p)
        BY <4>2 DEF ReleaseUnlinks, Guarded
      <4> QED
        BY <2>3, <4>1, <4>2
    <3>2. \A q \in Process \ {p} : pc[q] \notin Holding \union {"unlink", "remove"}
      BY <2>3, <3>1, OwnLockGoes DEF SignalUnlink, ReleaseUnlinks
    <3> QED
      BY <2>3, <3>2 DEF TypeOK, SignalUnlink, ReleaseUnlinks, Exit, Guarded, OneRemoves
  <2>4. CASE SignalAgain(p)
    BY <2>4 DEF SignalAgain
  <2>5. CASE ReleaseReads(p)
    BY <2>5 DEF TypeOK, ReleaseReads, Guarded, OneRemoves, Reads, isFile
  <2> QED
    BY <1>2, <2>1, <2>2, <2>3, <2>4, <2>5 DEF Release
<1>3. ASSUME NEW p \in Process, Environment(p) PROVE Guarded'
  BY <1>3, OthersKeepGuards
     DEF TypeOK, Environment, Die, PidReused, ForeignExits, Exit
<1>4. CASE UNCHANGED vars
  BY <1>4 DEF vars, Guarded, OneRemoves, Reads, isFile
<1> QED
  BY <1>1, <1>2, <1>3, <1>4 DEF Next

-----------------------------------------------------------------------------

LEMMA NextIInv == IInv /\ [Next]_vars => IInv'
<1> SUFFICES ASSUME IInv, [Next]_vars PROVE IInv'
  OBVIOUS
<1>1. TypeOK' /\ Texts'
  BY NextType, NextTexts DEF IInv
<1>2. ASSUME ~exposed' PROVE StaleIsAbandoned' /\ Guarded'
  <2>1. ~exposed
    BY <1>2, ExposedStays
  <2>2. TypeOK /\ Texts /\ StaleIsAbandoned /\ Guarded
    BY <2>1 DEF IInv, HolderHasLock, Guarded
  <2> QED
    BY <1>2, <2>2, NextStale, NextGuarded
<1>3. HolderHasLock'
  BY <1>2 DEF HolderHasLock, Guarded
<1>4. ~exposed' => StaleIsAbandoned' /\ OneRemoves'
  BY <1>2 DEF Guarded
<1> QED
  BY <1>1, <1>3, <1>4 DEF IInv

(* The inductive invariant: no lock of a living server is believed stale,  *)
(* and its file stays, until one of the three exposures. *)
THEOREM Inductive == Spec => []IInv
BY InitIInv, NextIInv, PTL DEF Spec

(* The six variables keep their types for ever: no step of a server or of  *)
(* its environment leaves an unknown file or an unknown place behind.      *)
THEOREM TypeCorrect == Spec => []TypeOK
<1>1. IInv => TypeOK
  BY DEF IInv
<1> QED
  BY <1>1, Inductive, PTL

(* acquireCanvasLock and releaseOwnedLock never take the lock of another   *)
(* starting or running server away, short of an exposure. *)
THEOREM HolderHasLockAlways == Spec => []HolderHasLock
<1>1. IInv => HolderHasLock
  BY DEF IInv
<1> QED
  BY <1>1, Inductive, PTL

(* Short of an exposure at most one canvas server runs in a project,       *)
(* however many are started, stopped and killed. *)
THEOREM TwoServersNeedExposureAlways == Spec => []TwoServersNeedExposure
<1>1. IInv => TwoServersNeedExposure
  <2> SUFFICES ASSUME IInv, ~exposed,
                      NEW p \in Process, NEW q \in Process,
                      pc[p] = "serving", pc[q] = "serving"
               PROVE  p = q
    BY DEF TwoServersNeedExposure, NoTwoServers
  <2>1. file = FileOf(mine[p], TRUE) /\ file = FileOf(mine[q], TRUE)
    BY DEF IInv, HolderHasLock, Holding
  <2>2. mine[p] = mine[q]
    <3>1. FileOf(mine[p], TRUE).text = mine[p]
      BY FileOfFields
    <3>2. FileOf(mine[q], TRUE).text = mine[q]
      BY FileOfFields
    <3> QED
      BY <2>1, <3>1, <3>2
  <2> QED
    BY <2>2, HoldersDiffer DEF IInv
<1> QED
  BY <1>1, Inductive, PTL

=============================================================================
