----------------------------- MODULE CanvasLock -----------------------------
(***************************************************************************)
(* The life of .clancy/design/.lock, which is to keep a second design      *)
(* canvas server out of a project: the exclusive create that opens         *)
(* acquireCanvasLock, the probe of a lock that is there, the takeover of a *)
(* stale one, and the release by Ctrl-C or by close.                       *)
(*                                                                         *)
(* Unlike the session lock of Clancy's pipeline (SessionLock) it is taken  *)
(* before anything else and removed only after a look at its text.  Each   *)
(* file operation is a step; a process may be killed between any two, and  *)
(* its pid given to another program.                                       *)
(***************************************************************************)
EXTENDS Naturals, FiniteSets

CONSTANTS
  Process,  \* the pids of the processes that may start a canvas server
  Stamp,    \* the values of startedAt: a bound on the locks told apart at once
  NoText    \* the text of a process that is not starting or running a server

(* The text of a lock.  Its sessionId adds nothing to pid and startedAt.   *)
Text == [pid : Process, startedAt : Stamp]

ASSUME NoTextIsNone == NoText \notin Text

(* The path names no file, or one that `wx` created for some lock: empty   *)
(* at first, its text written later. *)
Absent == [kind |-> "absent"]
FileOf(text, filled) == [kind |-> "file", text |-> text, filled |-> filled]
File == {Absent} \union {FileOf(text, filled) : text \in Text, filled \in BOOLEAN}

(***************************************************************************)
(* pc[p] is where process p is.                                            *)
(*   "gone"      no process has this pid                                   *)
(*   "foreign"   the pid belongs to another program                        *)
(*   "create"    about to create the lock file                             *)
(*   "probe"     a file is there, to be read                               *)
(*   "compare"   it was stale, and is to be read again                     *)
(*   "remove"    it was the same, and is to be removed                     *)
(*   "recreate"  about to create the lock file for the second time         *)
(*   "fill"      has created the file and not yet written the text         *)
(*   "serving"   acquireCanvasLock has returned; the server runs           *)
(*   "signalled" a signal came, releaseSync has read its own text          *)
(*   "closing"   past releaseSync, the server still being closed           *)
(*   "closed"    the server is closed, the lock to be released             *)
(*   "unlink"    release has read its own text                             *)
(***************************************************************************)
Acquiring == {"create", "probe", "compare", "remove", "recreate", "fill"}
Holding == {"fill", "serving", "signalled"}
Releasing == {"closing", "closed", "unlink"}
PC == {"gone", "foreign", "serving", "signalled"} \union Acquiring \union Releasing

VARIABLES
  pc,       \* where each process is
  mine,     \* the text of each process's own lock
  seen,     \* the text each process has found stale
  file,     \* what .clancy/design/.lock names
  aged,     \* the texts more than 24 hours older than each process's own
  exposed   \* history: the lock protocol has been outside its protection

vars == <<pc, mine, seen, file, aged, exposed>>

TypeOK ==
  /\ pc \in [Process -> PC]
  /\ mine \in [Process -> Text \union {NoText}]
  /\ seen \in [Process -> Text \union {NoText}]
  /\ file \in File
  /\ aged \in [Process -> SUBSET Text]
  /\ exposed \in BOOLEAN

-----------------------------------------------------------------------------

Goto(p, where) == pc' = [pc EXCEPT ![p] = where]

Without(texts, p) == [texts EXCEPT ![p] = NoText]

(* The ages of other locks matter for the probe only. *)
Forget(p) == aged' = [aged EXCEPT ![p] = {}]

(* The process is gone, and with it what it had read. *)
Exit(p) ==
  /\ Goto(p, "gone")
  /\ mine' = Without(mine, p) /\ seen' = Without(seen, p)
  /\ Forget(p)

isFile == file.kind = "file"

(* What a read of the path returns is this text. *)
Reads(text) == isFile /\ file.filled /\ file.text = text

(* An unreadable pid answers EPERM, which counts as alive. *)
processExists(p) == pc[p] # "gone"

(* probeLockStatus asks for the age first; `now` is p's own startedAt.     *)
isStale(p, text) == text \in aged[p] \/ ~processExists(text.pid)

(* The locks there are, and the texts somebody still remembers. *)
Current(text) ==
  \/ isFile /\ file.text = text
  \/ \E p \in Process : mine[p] = text
InUse(text) == Current(text) \/ \E p \in Process : seen[p] = text \/ text \in aged[p]

-----------------------------------------------------------------------------
(* acquireCanvasLock *)

(* A process starts a canvas server, at a time no other lock has.  Locks   *)
(* of before are more than 24 hours old by then, or not.  A server that    *)
(* has run that long is no longer protected by its lock.                   *)
Launch(p, text, ages) ==
  /\ pc[p] = "gone"
  /\ text.pid = p /\ ~InUse(text)
  /\ \A t \in ages : Current(t)
  /\ Goto(p, "create")
  /\ mine' = [mine EXCEPT ![p] = text]
  /\ aged' = [aged EXCEPT ![p] = ages]
  /\ exposed' = (exposed \/ \E q \in Process : mine[q] \in ages)
  /\ UNCHANGED <<seen, file>>

CreateOpens_observed(p) ==
  /\ pc[p] \in {"create", "recreate"}
  /\ file = Absent
  /\ file' = FileOf(seen[p], FALSE)
  /\ Forget(p)
  /\ Goto(p, "fill")
  /\ UNCHANGED <<mine, seen, exposed>>

(* writeLockFile: `wx` creates the file, and it is empty... *)
CreateOpens(p) ==
  /\ pc[p] \in {"create", "recreate"}
  /\ file = Absent
  /\ file' = FileOf(mine[p], FALSE)
  /\ Forget(p)
  /\ Goto(p, "fill")
  /\ UNCHANGED <<mine, seen, exposed>>

(* ... and the text follows, into that file even if the path names another *)
(* one by then. *)
Fill(p) ==
  /\ pc[p] = "fill"
  /\ file' = IF isFile /\ file.text = mine[p] THEN FileOf(mine[p], TRUE) ELSE file
  /\ Goto(p, "serving")
  /\ UNCHANGED <<mine, seen, aged, exposed>>

(* The first create finds a file, which is to be looked at. *)
CreateExists(p) ==
  /\ pc[p] = "create"
  /\ isFile
  /\ Goto(p, "probe")
  /\ UNCHANGED <<mine, seen, file, aged, exposed>>

(* probeLockStatus: absent by now. *)
ProbeAbsent(p) ==
  /\ pc[p] = "probe"
  /\ file = Absent
  /\ Forget(p)
  /\ Goto(p, "recreate")
  /\ UNCHANGED <<mine, seen, file, exposed>>

(* The kill(pid, 0) follows the read at once, and is one step with it. *)
ProbeStale(p) ==
  /\ pc[p] = "probe"
  /\ isFile /\ file.filled
  /\ isStale(p, file.text)
  /\ seen' = [seen EXCEPT ![p] = file.text]
  /\ Forget(p)
  /\ Goto(p, "compare")
  /\ UNCHANGED <<mine, file, exposed>>

CompareSame_unchecked(p) ==
  /\ pc[p] = "compare"
  /\ Goto(p, "remove")
  /\ exposed' = (exposed \/ \E q \in Process \ {p} : pc[q] = "remove")
  /\ UNCHANGED <<mine, seen, file, aged>>

(* removeMatchingLock reads the file again: it is the one that was found   *)
(* stale.  From here to the `rm` nothing else is looked at, so two         *)
(* takeovers that get here together are not protected from each other.     *)
CompareSame(p) ==
  /\ pc[p] = "compare"
  /\ Reads(seen[p])
  /\ Goto(p, "remove")
  /\ exposed' = (exposed \/ \E q \in Process \ {p} : pc[q] = "remove")
  /\ UNCHANGED <<mine, seen, file, aged>>

CompareAbsent(p) ==
  /\ pc[p] = "compare"
  /\ file = Absent
  /\ seen' = Without(seen, p)
  /\ Goto(p, "recreate")
  /\ UNCHANGED <<mine, file, aged, exposed>>

(* `rm` removes whatever the path names. *)
Remove(p) ==
  /\ pc[p] = "remove"
  /\ file' = Absent
  /\ seen' = Without(seen, p)
  /\ Goto(p, "recreate")
  /\ UNCHANGED <<mine, aged, exposed>>

(* acquireCanvasLock throws, and the start of the server with it: a lock   *)
(* that looks active (one that is not filled in, or cannot be read, does), *)
(* one that changed under a takeover, one created concurrently, or an I/O  *)
(* error at any of the file operations.                                    *)
Refused(p) ==
  /\ pc[p] \in Acquiring
  /\ Exit(p)
  /\ UNCHANGED <<file, exposed>>

-----------------------------------------------------------------------------
(* The release *)

(* close(), or a start that fails after the lock was acquired: the server  *)
(* is closed first. *)
Close(p) ==
  /\ pc[p] \in {"serving", "closing"}
  /\ Goto(p, "closed")
  /\ UNCHANGED <<mine, seen, file, aged, exposed>>

(* SIGINT or SIGTERM: releaseSync reads the file, before the server is     *)
(* closed. *)
Signal(p) ==
  /\ pc[p] = "serving"
  /\ Goto(p, IF Reads(mine[p]) THEN "signalled" ELSE "closing")
  /\ UNCHANGED <<mine, seen, file, aged, exposed>>

(* releaseSync unlinks it, or fails to. *)
SignalUnlink(p) ==
  /\ pc[p] = "signalled"
  /\ file' \in {Absent, file}
  /\ Goto(p, "closing")
  /\ UNCHANGED <<mine, seen, aged, exposed>>

(* Another SIGINT or SIGTERM: the handler runs a second time, and its      *)
(* close() beside the first one's.  Each may remove the file after the     *)
(* other did, which nothing protects a later server's lock from.           *)
SignalAgain(p) ==
  /\ pc[p] \in Releasing
  /\ file' \in {file} \union (IF Reads(mine[p]) THEN {Absent} ELSE {})
  /\ exposed' = TRUE
  /\ UNCHANGED <<pc, mine, seen, aged>>

ReleaseReads_unchecked(p) ==
  /\ pc[p] = "closed"
  /\ Goto(p, "unlink")
  /\ UNCHANGED <<mine, seen, file, aged, exposed>>

(* release: the file is removed if it holds the server's own text. *)
ReleaseReads(p) ==
  /\ pc[p] = "closed"
  /\ Reads(mine[p])
  /\ Goto(p, "unlink")
  /\ UNCHANGED <<mine, seen, file, aged, exposed>>

ReleaseUnlinks(p) ==
  /\ pc[p] = "unlink"
  /\ file' \in {Absent, file}
  /\ Exit(p)
  /\ UNCHANGED exposed

(* It holds another text, or is not there. *)
ReleaseLeaves(p) ==
  /\ pc[p] = "closed"
  /\ ~Reads(mine[p])
  /\ Exit(p)
  /\ UNCHANGED <<file, exposed>>

-----------------------------------------------------------------------------
(* The environment *)

Die(p) ==
  /\ pc[p] \notin {"gone", "foreign"}
  /\ Exit(p)
  /\ UNCHANGED <<file, exposed>>

PidReused(p) ==
  /\ pc[p] = "gone"
  /\ Goto(p, "foreign")
  /\ UNCHANGED <<mine, seen, file, aged, exposed>>

ForeignExits(p) ==
  /\ pc[p] = "foreign"
  /\ Goto(p, "gone")
  /\ UNCHANGED <<mine, seen, file, aged, exposed>>

-----------------------------------------------------------------------------

Init ==
  /\ pc = [p \in Process |-> "gone"]
  /\ mine = [p \in Process |-> NoText]
  /\ seen = mine
  /\ file = Absent
  /\ aged = [p \in Process |-> {}]
  /\ exposed = FALSE

Acquire(p) ==
  \/ \E text \in Text, ages \in SUBSET Text : Launch(p, text, ages)
  \/ CreateOpens(p) \/ Fill(p) \/ CreateExists(p)
  \/ ProbeAbsent(p) \/ ProbeStale(p)
  \/ CompareSame(p) \/ CompareAbsent(p) \/ Remove(p)
  \/ Refused(p)

Release(p) ==
  \/ Close(p) \/ Signal(p) \/ SignalUnlink(p) \/ SignalAgain(p)
  \/ ReleaseReads(p) \/ ReleaseUnlinks(p) \/ ReleaseLeaves(p)

Environment(p) == Die(p) \/ PidReused(p) \/ ForeignExits(p)

Next == \E p \in Process : Acquire(p) \/ Release(p) \/ Environment(p)

Spec == Init /\ [][Next]_vars

-----------------------------------------------------------------------------
(* Properties *)

NoTwoServers ==
  \A p, q \in Process : pc[p] = "serving" /\ pc[q] = "serving" => p = q

(***************************************************************************)
(* Two canvas servers never serve one project at once, unless two          *)
(* takeovers of a stale lock have met between their second look at the     *)
(* file and its removal, one was started more than 24 hours after a canvas *)
(* process that still lives, or one had a second signal during its release.*)
(***************************************************************************)
TwoServersNeedExposure == ~exposed => NoTwoServers

(***************************************************************************)
(* Under the same provision the lock of a starting or running server is on *)
(* disk: no takeover, refused start or release of another server removes   *)
(* it, and a server on its way out removes it only while it is its own.    *)
(***************************************************************************)
HolderHasLock ==
  ~exposed =>
    /\ \A p \in Process : pc[p] \in Holding =>
         file = FileOf(mine[p], pc[p] # "fill")
    /\ \A p \in Process : pc[p] = "unlink" => Reads(mine[p])

-----------------------------------------------------------------------------
(* The inductive invariant *)

(* Every text carries the pid of its process, and a takeover knows which   *)
(* lock it found stale.                                                    *)
Texts ==
  /\ \A p \in Process : mine[p] = NoText <=> pc[p] \in {"gone", "foreign"}
  /\ \A p \in Process : mine[p] \in Text => mine[p].pid = p
  /\ \A p \in Process : pc[p] \in {"compare", "remove"} => seen[p] \in Text

(* A lock found stale, or aged, is not the lock of a process that lives.   *)
StaleIsAbandoned ==
  \A p, q \in Process :
    /\ pc[p] \in {"compare", "remove"} => mine[q] # seen[p]
    /\ mine[q] \notin aged[p]

(* One takeover at a time is about to remove, and the stale lock is there. *)
OneRemoves ==
  /\ \A p, q \in Process : pc[p] = "remove" /\ pc[q] = "remove" => p = q
  /\ \A p \in Process : pc[p] = "remove" => Reads(seen[p])

IInv ==
  /\ TypeOK
  /\ Texts
  /\ HolderHasLock
  /\ ~exposed => StaleIsAbandoned /\ OneRemoves

=============================================================================
