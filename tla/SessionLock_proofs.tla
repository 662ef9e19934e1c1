------------------------ MODULE SessionLock_proofs ------------------------
(***************************************************************************)
(* Proofs about SessionLock, for every set of sessions.                    *)
(*                                                                         *)
(* OneActive carries the argument: as long as no exposure has happened, at *)
(* most one session is past its lock check.  A session gets past the check *)
(* when no readable lock is there or when the lock is stale; a working run *)
(* has a readable lock on disk that names a live pid (WorkingRunIsLocked), *)
(* so the newcomer can only have joined sessions that are still unlocked,  *)
(* and joining those is an exposure.                                       *)
(***************************************************************************)
EXTENDS SessionLock, TLAPS

-----------------------------------------------------------------------------

LEMMA LockFileContents ==
  /\ Absent \in LockFile
  /\ Garbled \in LockFile
  /\ \A s \in Session, o \in BOOLEAN : LockOf(s, o) \in LockFile
BY DEF LockFile

(* Every state of every behaviour is well typed. *)
LEMMA InitType == Init => TypeOK
BY LockFileContents DEF Init, TypeOK, PC

LEMMA NextType == TypeOK /\ [Next]_vars => TypeOK'
<1> SUFFICES ASSUME TypeOK, [Next]_vars PROVE TypeOK'
  OBVIOUS
<1> USE DEF TypeOK, PC, Goto
<1>1. ASSUME NEW s \in Session, LockCheck(s) PROVE TypeOK'
  <2>1. CASE CheckFindsNone(s)
    <3>1. exposed' \in BOOLEAN
      BY <2>1 DEF CheckFindsNone
    <3> QED
      BY <2>1, <3>1 DEF CheckFindsNone
  <2>2. CASE CheckAborts(s)
    BY <2>2 DEF CheckAborts, vars
  <2>3. CASE CheckFindsStale(s)
    <3>1. exposed' \in BOOLEAN
      BY <2>3 DEF CheckFindsStale
    <3> QED
      BY <2>3, <3>1 DEF CheckFindsStale
  <2>4. CASE Reclaim(s)
    BY <2>4, LockFileContents DEF Reclaim
  <2>5. CASE ReclaimFails(s)
    BY <2>5 DEF ReclaimFails
  <2> QED
    BY <1>1, <2>1, <2>2, <2>3, <2>4, <2>5 DEF LockCheck
<1>2. ASSUME NEW s \in Session, RunStep(s) PROVE TypeOK'
  <2>1. CASE EndUnlocked(s)
    BY <2>1 DEF EndUnlocked
  <2>2. CASE BeginWriteLock(s)
    BY <2>2, LockFileContents DEF BeginWriteLock
  <2>3. CASE EndWriteLock(s)
    <3>1. LockOf(s, FALSE) \in LockFile
      BY LockFileContents
    <3> QED
      BY <2>3, <3>1 DEF EndWriteLock
  <2>4. CASE WriteLockFails(s)
    BY <2>4 DEF WriteLockFails
  <2>5. CASE EndWorking(s)
    BY <2>5, LockFileContents DEF EndWorking
  <2> QED
    BY <1>2, <2>1, <2>2, <2>3, <2>4, <2>5 DEF RunStep
<1>3. ASSUME NEW s \in Session, Environment(s) PROVE TypeOK'
  BY <1>3 DEF Environment, Launch, Die, PidReused, ForeignExits
<1>4. ASSUME LockAges PROVE TypeOK'
  <2>1. lockFile.pid \in Session
    BY <1>4 DEF LockAges, LockFile, Absent, Garbled, LockOf
  <2>2. LockOf(lockFile.pid, TRUE) \in LockFile
    BY <2>1, LockFileContents
  <2>3. exposed' \in BOOLEAN
    BY <1>4 DEF LockAges
  <2> QED
    BY <1>4, <2>2, <2>3 DEF LockAges
<1>5. CASE UNCHANGED vars
  BY <1>5 DEF vars
<1> QED
  BY <1>1, <1>2, <1>3, <1>4, <1>5 DEF Next

(* pc, owner, lockFile and exposed keep their types for ever. *)
THEOREM TypeCorrect == Spec => []TypeOK
BY InitType, NextType, PTL DEF Spec

-----------------------------------------------------------------------------

LEMMA InitIInv == Init => IInv
BY InitType DEF Init, IInv, OneActive, WorkingRunIsLocked, Active, Unlocked

(* A lock that names a working run and is not 24 hours old is not stale. *)
LEMMA FreshLockIsHeld ==
  ASSUME NEW s \in Session, pc[s] = "working", lockFile = LockOf(s, FALSE)
  PROVE  lockFile.kind = "lock" /\ ~isLockStale(lockFile)
BY DEF LockOf, isLockStale, isPidAlive

(***************************************************************************)
(* Getting past the lock check without an exposure: nobody else is active. *)
(***************************************************************************)
LEMMA EnterAlone ==
  ASSUME IInv, NEW s \in Session, ~exposed, ~OtherUnlocked(s),
         lockFile.kind # "lock" \/ isLockStale(lockFile)
  PROVE  \A o \in Session \ {s} : pc[o] \notin Active
<1> SUFFICES ASSUME NEW o \in Session \ {s}, pc[o] \in Active PROVE FALSE
  OBVIOUS
<1>1. pc[o] = "working"
  BY DEF OtherUnlocked, Active
<1>2. lockFile = LockOf(o, FALSE)
  BY <1>1 DEF IInv, WorkingRunIsLocked
<1> QED
  BY <1>1, <1>2, FreshLockIsHeld

LEMMA NextIInv == IInv /\ [Next]_vars => IInv'
<1> SUFFICES ASSUME IInv, [Next]_vars PROVE OneActive' /\ WorkingRunIsLocked'
  BY NextType DEF IInv
<1>0. TypeOK /\ OneActive /\ WorkingRunIsLocked
  BY DEF IInv
<1> DEFINE Goal == OneActive' /\ WorkingRunIsLocked'
<1> USE DEF Goto, Active, Unlocked
<1>1. ASSUME NEW s \in Session, LockCheck(s) PROVE Goal
  <2>1. CASE CheckFindsNone(s)
    <3> SUFFICES ASSUME ~exposed' PROVE Goal
      BY DEF OneActive, WorkingRunIsLocked
    <3>1. \A o \in Session \ {s} : pc[o] \notin Active
      BY <2>1, EnterAlone DEF CheckFindsNone
    <3> QED
      BY <1>0, <2>1, <3>1 DEF CheckFindsNone, OneActive, WorkingRunIsLocked, TypeOK
  <2>2. CASE CheckAborts(s)
    BY <1>0, <2>2 DEF CheckAborts, vars, OneActive, WorkingRunIsLocked
  <2>3. CASE CheckFindsStale(s)
    <3> SUFFICES ASSUME ~exposed' PROVE Goal
      BY DEF OneActive, WorkingRunIsLocked
    <3>1. \A o \in Session \ {s} : pc[o] \notin Active
      BY <2>3, EnterAlone DEF CheckFindsStale
    <3> QED
      BY <1>0, <2>3, <3>1 DEF CheckFindsStale, OneActive, WorkingRunIsLocked, TypeOK
  <2>4. CASE Reclaim(s)
    BY <1>0, <2>4 DEF Reclaim, OneActive, WorkingRunIsLocked, TypeOK
  <2>5. CASE ReclaimFails(s)
    BY <1>0, <2>5 DEF ReclaimFails, OneActive, WorkingRunIsLocked, TypeOK
  <2> QED
    BY <1>1, <2>1, <2>2, <2>3, <2>4, <2>5 DEF LockCheck
<1>2. ASSUME NEW s \in Session, RunStep(s) PROVE Goal
  <2>1. CASE EndUnlocked(s)
    BY <1>0, <2>1 DEF EndUnlocked, OneActive, WorkingRunIsLocked, TypeOK
  <2>2. CASE BeginWriteLock(s)
    BY <1>0, <2>2 DEF BeginWriteLock, OneActive, WorkingRunIsLocked, TypeOK
  <2>3. CASE EndWriteLock(s)
    BY <1>0, <2>3 DEF EndWriteLock, OneActive, WorkingRunIsLocked, TypeOK
  <2>4. CASE WriteLockFails(s)
    BY <2>4 DEF WriteLockFails, OneActive, WorkingRunIsLocked
  <2>5. CASE EndWorking(s)
    BY <1>0, <2>5 DEF EndWorking, OneActive, WorkingRunIsLocked, TypeOK
  <2> QED
    BY <1>2, <2>1, <2>2, <2>3, <2>4, <2>5 DEF RunStep
<1>3. ASSUME NEW s \in Session, Environment(s) PROVE Goal
  <2>1. CASE Launch(s)
    BY <1>0, <2>1 DEF Launch, OneActive, WorkingRunIsLocked, TypeOK
  <2>2. CASE Die(s)
    BY <1>0, <2>2 DEF Die, OneActive, WorkingRunIsLocked, TypeOK
  <2>3. CASE PidReused(s)
    BY <1>0, <2>3 DEF PidReused, OneActive, WorkingRunIsLocked, TypeOK
  <2>4. CASE ForeignExits(s)
    BY <1>0, <2>4 DEF ForeignExits, OneActive, WorkingRunIsLocked, TypeOK
  <2> QED
    BY <1>3, <2>1, <2>2, <2>3, <2>4 DEF Environment
<1>4. ASSUME LockAges PROVE Goal
  <2> SUFFICES ASSUME ~exposed' PROVE Goal
    BY DEF OneActive, WorkingRunIsLocked
  <2>1. ~exposed /\ ~LiveOwner
    BY <1>4 DEF LockAges
  <2>2. pc[lockFile.pid] # "working"
    BY <1>4, <2>1 DEF LockAges, LiveOwner
  <2>3. \A s \in Session : pc[s] # "working"
    <3> SUFFICES ASSUME NEW s \in Session, pc[s] = "working" PROVE FALSE
      OBVIOUS
    <3>1. lockFile = LockOf(s, FALSE)
      BY <1>0, <2>1 DEF WorkingRunIsLocked
    <3> QED
      BY <2>2, <3>1 DEF LockOf
  <2>4. pc' = pc
    BY <1>4 DEF LockAges
  <2> QED
    BY <1>0, <2>1, <2>3, <2>4 DEF OneActive, WorkingRunIsLocked
<1>5. CASE UNCHANGED vars
  BY <1>0, <1>5 DEF vars, OneActive, WorkingRunIsLocked
<1> QED
  BY <1>1, <1>2, <1>3, <1>4, <1>5 DEF Next

(* The inductive invariant holds for every number of sessions. *)
THEOREM Inductive == Spec => []IInv
BY InitIInv, NextIInv, PTL DEF Spec

(* While nothing is exposed, one session at most is past its lock check. *)
THEOREM OneActiveAlways == Spec => []OneActive
<1>1. IInv => OneActive
  BY DEF IInv
<1> QED
  BY <1>1, Inductive, PTL

(* While nothing is exposed, a working run's lock is on disk and its own. *)
THEOREM WorkingRunIsLockedAlways == Spec => []WorkingRunIsLocked
<1>1. IInv => WorkingRunIsLocked
  BY DEF IInv
<1> QED
  BY <1>1, Inductive, PTL

(* Two sessions past branch setup at once: an exposure came before. *)
THEOREM NoDoubleRunUnexposed == Spec => []DoubleRunNeedsExposure
<1>1. IInv => DoubleRunNeedsExposure
  BY DEF IInv, OneActive, DoubleRunNeedsExposure, NoDoubleRun, Active
<1> QED
  BY <1>1, Inductive, PTL

=============================================================================
