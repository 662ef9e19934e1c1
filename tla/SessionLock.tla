---------------------------- MODULE SessionLock ----------------------------
(***************************************************************************)
(* The life of .clancy/lock.json when several Clancy sessions may run in   *)
(* one project: the lock check that opens a pipeline run, the removal of a *)
(* stale lock, the late write of the lock after the ticket branch is       *)
(* checked out, and the deletion in the run's `finally`.                   *)
(*                                                                         *)
(* A session is one operating-system process and is named by its pid.  A   *)
(* process runs pipelines one after another (the autopilot loop does), may *)
(* be killed at any point, and once it is gone its pid may be handed to an *)
(* unrelated program.  Each file operation is one step, so that the steps  *)
(* of two sessions interleave as two processes do.                         *)
(***************************************************************************)
EXTENDS Naturals, FiniteSets

CONSTANTS
  Session   \* the pids of the processes that may run Clancy in the project

(***************************************************************************)
(* pc[s] is where process s is.                                            *)
(*   "gone"     no process has this pid                                    *)
(*   "foreign"  the pid belongs to a program that is not Clancy            *)
(*   "ready"    between two pipeline runs                                  *)
(*   "reclaim"  the lock was read and found stale, and is not yet deleted  *)
(*   "unlocked" past the lock check, the lock not yet written: resume,     *)
(*              preflight, ticket fetch, feasibility, branch checkout      *)
(*   "writing"  the lock file is open for writing and truncated            *)
(*   "working"  past branch setup: transition, Claude session, delivery    *)
(***************************************************************************)
PC == {"gone", "foreign", "ready", "reclaim", "unlocked", "writing", "working"}

Unlocked == {"reclaim", "unlocked", "writing"}
Active   == Unlocked \union {"working"}

(* What .clancy/lock.json holds: nothing, text that does not parse, or a   *)
(* lock naming a pid; `old` once startedAt is more than 24 hours back.     *)
Absent  == [kind |-> "absent"]
Garbled == [kind |-> "garbled"]
LockOf(s, o) == [kind |-> "lock", pid |-> s, old |-> o]
LockFile == {Absent, Garbled} \union {LockOf(s, o) : s \in Session, o \in BOOLEAN}

VARIABLES
  pc,        \* where each process is
  owner,     \* ctx.lockOwner of each session's current run
  lockFile,  \* the content of .clancy/lock.json
  exposed    \* history: the lock protocol has been outside its protection

vars == <<pc, owner, lockFile, exposed>>

TypeOK ==
  /\ pc \in [Session -> PC]
  /\ owner \in [Session -> BOOLEAN]
  /\ lockFile \in LockFile
  /\ exposed \in BOOLEAN

-----------------------------------------------------------------------------

(* signal 0 reaches any process that has the pid, Clancy's or not. *)
isPidAlive(s) == pc[s] # "gone"

isLockStale_ignoresAge(l) == ~isPidAlive(l.pid)

isLockStale_missingNegation(l) == isPidAlive(l.pid) \/ l.old

isLockStale(l) == ~isPidAlive(l.pid) \/ l.old

(* Another session is past its lock check and has not finished writing its *)
(* own lock: nothing on disk tells of it.                                  *)
OtherUnlocked(s) == \E o \in Session \ {s} : pc[o] \in Unlocked

Goto(s, where) == pc' = [pc EXCEPT ![s] = where]

(* The owner of the lock on disk is in its run and the lock is about to be *)
(* taken for an abandoned one.                                             *)
LiveOwner == lockFile.kind = "lock" /\ pc[lockFile.pid] = "working"

-----------------------------------------------------------------------------

(* lockCheck finds no lock it can read, and the run goes on unlocked. *)
CheckFindsNone(s) ==
  /\ pc[s] = "ready"
  /\ lockFile.kind # "lock"
  /\ Goto(s, "unlocked")
  /\ exposed' = (exposed \/ OtherUnlocked(s))
  /\ UNCHANGED <<owner, lockFile>>

CheckAborts_cleansUp(s) ==
  /\ pc[s] = "ready"
  /\ lockFile.kind = "lock"
  /\ ~isLockStale(lockFile)
  /\ lockFile' = Absent
  /\ UNCHANGED <<pc, owner, exposed>>

(* lockCheck finds the lock of a live session: the run aborts. *)
CheckAborts(s) ==
  /\ pc[s] = "ready"
  /\ lockFile.kind = "lock"
  /\ ~isLockStale(lockFile)
  /\ UNCHANGED vars

(* lockCheck finds a stale lock; deleting it is a file operation of its own. *)
CheckFindsStale(s) ==
  /\ pc[s] = "ready"
  /\ lockFile.kind = "lock"
  /\ isLockStale(lockFile)
  /\ Goto(s, "reclaim")
  /\ exposed' = (exposed \/ OtherUnlocked(s))
  /\ UNCHANGED <<owner, lockFile>>

(* The stale lock is deleted, whatever the file holds by then. *)
Reclaim(s) ==
  /\ pc[s] = "reclaim"
  /\ lockFile' = Absent
  /\ Goto(s, "unlocked")
  /\ UNCHANGED <<owner, exposed>>

(* The deletion throws.  The lock check is outside the `try` of            *)
(* runPipeline, so the error ends the process.                             *)
ReclaimFails(s) ==
  /\ pc[s] = "reclaim"
  /\ Goto(s, "gone")
  /\ UNCHANGED <<owner, lockFile, exposed>>

(* The run ends before branch setup: resumed, aborted, dry run or an       *)
(* error.  ctx.lockOwner is unset, so `finally` leaves the file alone.     *)
EndUnlocked(s) ==
  /\ pc[s] = "unlocked"
  /\ Goto(s, "ready")
  /\ UNCHANGED <<owner, lockFile, exposed>>

(* Branch setup succeeded: writeLock opens the file, which empties it... *)
BeginWriteLock(s) ==
  /\ pc[s] = "unlocked"
  /\ lockFile' = Garbled
  /\ Goto(s, "writing")
  /\ UNCHANGED <<owner, exposed>>

EndWriteLock_noStartedAt(s) ==
  /\ pc[s] = "writing"
  /\ lockFile' = [kind |-> "lock", pid |-> s]
  /\ owner' = [owner EXCEPT ![s] = TRUE]
  /\ Goto(s, "working")
  /\ UNCHANGED exposed

(* ... and writes pid and startedAt; only then is the run the lock's owner. *)
EndWriteLock(s) ==
  /\ pc[s] = "writing"
  /\ lockFile' = LockOf(s, FALSE)
  /\ owner' = [owner EXCEPT ![s] = TRUE]
  /\ Goto(s, "working")
  /\ UNCHANGED exposed

(* writeLockSafe swallows an error, before the file is opened or after:    *)
(* the run goes on "without crash protection".                             *)
WriteLockFails(s) ==
  /\ pc[s] \in {"unlocked", "writing"}
  /\ Goto(s, "working")
  /\ exposed' = TRUE
  /\ UNCHANGED <<owner, lockFile>>

(* The run ends after branch setup, in any way that reaches `finally`:     *)
(* cleanupLock deletes the file if this run wrote one, without reading it, *)
(* and an error of the deletion is swallowed.                              *)
EndWorking(s) ==
  /\ pc[s] = "working"
  /\ lockFile' \in IF owner[s] THEN {Absent, lockFile} ELSE {lockFile}
  /\ owner' = [owner EXCEPT ![s] = FALSE]
  /\ Goto(s, "ready")
  /\ UNCHANGED exposed

-----------------------------------------------------------------------------
(* The environment: processes start and die, and time passes. *)

Launch(s) ==
  /\ pc[s] = "gone"
  /\ Goto(s, "ready")
  /\ UNCHANGED <<owner, lockFile, exposed>>

(* The process exits between two runs, or is killed in the middle of one;  *)
(* `finally` does not run and ctx.lockOwner dies with the process.         *)
Die(s) ==
  /\ pc[s] \in Active \union {"ready"}
  /\ Goto(s, "gone")
  /\ owner' = [owner EXCEPT ![s] = FALSE]
  /\ UNCHANGED <<lockFile, exposed>>

PidReused(s) ==
  /\ pc[s] = "gone"
  /\ Goto(s, "foreign")
  /\ UNCHANGED <<owner, lockFile, exposed>>

ForeignExits(s) ==
  /\ pc[s] = "foreign"
  /\ Goto(s, "gone")
  /\ UNCHANGED <<owner, lockFile, exposed>>

(* Twenty-four hours have passed since the lock was written. *)
LockAges ==
  /\ lockFile.kind = "lock"
  /\ ~lockFile.old
  /\ lockFile' = LockOf(lockFile.pid, TRUE)
  /\ exposed' = (exposed \/ LiveOwner)
  /\ UNCHANGED <<pc, owner>>

-----------------------------------------------------------------------------

Init ==
  /\ pc = [s \in Session |-> "gone"]
  /\ owner = [s \in Session |-> FALSE]
  /\ lockFile = Absent
  /\ exposed = FALSE

LockCheck(s) ==
  \/ CheckFindsNone(s)
  \/ CheckAborts(s)
  \/ CheckFindsStale(s)
  \/ Reclaim(s)
  \/ ReclaimFails(s)

RunStep(s) ==
  \/ EndUnlocked(s)
  \/ BeginWriteLock(s)
  \/ EndWriteLock(s)
  \/ WriteLockFails(s)
  \/ EndWorking(s)

Environment(s) ==
  Launch(s) \/ Die(s) \/ PidReused(s) \/ ForeignExits(s)

Next ==
  \/ \E s \in Session : LockCheck(s) \/ RunStep(s) \/ Environment(s)
  \/ LockAges

Spec == Init /\ [][Next]_vars

(***************************************************************************)
(* Fairness.  Time passes, so a lock that stays in place becomes old; and  *)
(* lockCheck is synchronous straight-line code, so a session that gets to  *)
(* it again and again gets through it.  Nothing is assumed of what the     *)
(* operator starts, of the runs or of the processes' deaths.               *)
(***************************************************************************)
FairSpec ==
  /\ Spec
  /\ WF_vars(LockAges)
  /\ \A s \in Session :
       /\ SF_vars(CheckFindsNone(s) \/ CheckFindsStale(s))
       /\ SF_vars(Reclaim(s))

-----------------------------------------------------------------------------
(* Two sessions are never both past branch setup. *)
NoDoubleRun ==
  \A s, o \in Session : pc[s] = "working" /\ pc[o] = "working" => s = o

(***************************************************************************)
(* What the lock file is for (lock.ts, line 4): "Prevents double-runs".    *)
(* Two runs that have each written their lock never work side by side.     *)
(* The code does not guarantee it: the check and the write are separated   *)
(* by the whole first half of the pipeline, and the write takes whatever   *)
(* is there.                                                               *)
(***************************************************************************)
LockPreventsDoubleRun ==
  \A s, o \in Session :
    pc[s] = "working" /\ owner[s] /\ pc[o] = "working" /\ owner[o] => s = o

(***************************************************************************)
(* The exact protection: a double run is always preceded by one of three   *)
(* exposures, recorded in `exposed`: a session passed its lock check while *)
(* another was between its own check and its own write, a lock write       *)
(* failed, or a lock turned 24 hours old under a live run.  This concerns  *)
(* every step that creates, reads or deletes the file.                     *)
(***************************************************************************)
DoubleRunNeedsExposure == ~exposed => NoDoubleRun

(***************************************************************************)
(* Under the same provision a working run's lock is on disk, names it and  *)
(* is its own to delete: no reclaimer and no other run's `finally` removes *)
(* the lock of a live run.                                                 *)
(***************************************************************************)
WorkingRunIsLocked ==
  ~exposed =>
    \A s \in Session :
      pc[s] = "working" => owner[s] /\ lockFile = LockOf(s, FALSE)

(***************************************************************************)
(* The inductive strengthening: as long as nothing was exposed, at most    *)
(* one session is past its lock check at all.                              *)
(***************************************************************************)
OneActive ==
  ~exposed =>
    \A s, o \in Session : pc[s] \in Active /\ pc[o] \in Active => s = o

IInv == TypeOK /\ OneActive /\ WorkingRunIsLocked

(***************************************************************************)
(* No lock shuts the project out for good.  As long as sessions keep       *)
(* reaching their lock check, one of them gets past it again and again:    *)
(* whoever the pid in the lock belongs to by then - nobody, a program that *)
(* was given the pid, or the very session whose cleanup failed - the lock  *)
(* is found stale once it is 24 hours old.                                 *)
(***************************************************************************)
ProjectNotShutOut ==
  []<>(\E s \in Session : pc[s] = "ready") =>
    []<>(\E s \in Session : pc[s] \in Active \ {"reclaim"})

=============================================================================
