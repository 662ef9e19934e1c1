--------------------------- MODULE Pipeline_proofs ---------------------------
(***************************************************************************)
(* Proofs about Pipeline, for every set of tickets, every kind of `origin`,*)
(* every set of modes and all bounds.                                      *)
(*                                                                         *)
(* IInv relates the phase of the run to what it may rely on: there is a    *)
(* ticket, its branch exists, its branch was pushed, its pull request was  *)
(* opened.  Branches, once there, stay there, and so do pull requests, so  *)
(* a fact established by one step of a run still holds when a later step,  *)
(* or a run after a crash, writes it to the log.                           *)
(***************************************************************************)
EXTENDS Pipeline, TLAPS

NeedsTicket == {"resume", "resumePushed", "feasibility", "branchSetup", "lockWrite",
                "transition", "claude", "push", "createPr", "log", "unlabel"}

(* The phases that act on a ticket have one, and so has a rework run, which *)
(* only rework detection makes one.                                        *)
HasTicket ==
  /\ pc \in NeedsTicket \/ isRework => ticket \in Ticket
  /\ isRework => pc \notin {"idle", "lockCheck", "resume", "resumePushed",
                          "preflight", "retry", "rework", "feasibility"}

(* Rework is for a ticket with a pull request, on a platform Clancy tells. *)
ReworkHasPr == isRework => host = "known" /\ pr[ticket] # "none"

(* A pull request is for a branch that was pushed. *)
PrNeedsBranch == \A t \in Ticket : pr[t] # "none" => remote[t] # NoBranch

(* What PR retry has in hand was pushed, or has a pull request already. *)
RetryFacts ==
  /\ \A t \in retry : remote[t] # NoBranch
  /\ \A t \in retried : pr[t] # "none"

(* What the run is about to log has happened. *)
DeliveryFacts ==
  /\ pc \in {"resumePushed", "createPr", "log", "unlabel"} => remote[ticket] # NoBranch
  /\ pc = "log" /\ outcome = "created" => pr[ticket] # "none"

(* The branch a run resumes or works on exists. *)
ResumeHasBranch == pc = "resume" => local[ticket] # NoBranch

(* Past the rework guard there is a cycle left. *)
CycleLeft ==
  isRework /\ pc \in {"branchSetup", "lockWrite", "transition", "claude", "push", "createPr", "log"}
    => reworks[ticket] < MaxRework

RunFacts ==
  /\ ReworkHasPr
  /\ PrNeedsBranch
  /\ RetryFacts
  /\ DeliveryFacts
  /\ ResumeHasBranch
  /\ LockFindsItsBranch
  /\ SessionOnItsBranch

Facts == RunFacts /\ LogNeverLeads

Cycles == ReworkBounded /\ CycleLeft

Typed == TypeOK /\ HasTicket

IInv == Typed /\ Facts /\ Cycles
-----------------------------------------------------------------------------
(* Types *)

LEMMA AppendType ==
  ASSUME TypeOK, NEW t \in Ticket, NEW status \in Status, AppendProgress(t, status)
  PROVE  /\ latest' \in [Ticket -> Status]
         /\ order' \in Seq(Ticket)
         /\ reworks' \in [Ticket -> Nat]
         /\ feedback' \in [Ticket -> Feedback]
<1> USE DEF AppendProgress
<1>1. latest' \in [Ticket -> Status]
  BY DEF TypeOK
<1>2. order' \in Seq(Ticket)
  BY DEF TypeOK
<1>3. reworks' \in [Ticket -> Nat]
  <2>1. (IF status = "REWORK" THEN 1 ELSE 0) \in Nat
    OBVIOUS
  <2> QED
    BY <2>1 DEF TypeOK
<1>4. feedback' \in [Ticket -> Feedback]
  BY DEF TypeOK, Feedback
<1> QED
  BY <1>1, <1>2, <1>3, <1>4

LEMMA DropType ==
  ASSUME TypeOK, DropContext
  PROVE  /\ pc' = "idle" /\ mode' \in Mode
         /\ ticket' = NoTicket /\ isRework' = FALSE /\ lockOwner' = FALSE
         /\ original' = Base /\ outcome' \in Outcome
         /\ retry' = {} /\ retried' = {}
         /\ feedback' \in [Ticket -> Feedback]
BY DEF DropContext, Goto, TypeOK, PC, Mode, Outcome, Feedback

LEMMA SafeCheckoutType ==
  ASSUME TypeOK, NEW b \in Ticket \union {Base}, SafeCheckout(b)
  PROVE  head' \in Ticket \union {Base}
BY DEF SafeCheckout, TypeOK

LEMMA InitTyped == Init => Typed
<1> SUFFICES ASSUME Init PROVE Typed
  OBVIOUS
<1>1. order \in Seq(Ticket)
  BY DEF Init
<1>2. local \in Branches /\ remote \in Branches
  BY DEF Init, Branches, NoBranch
<1>3. work \in 0..MaxWork
  BY Configuration DEF Init
<1> QED
  BY <1>1, <1>2, <1>3
  DEF Init, Typed, TypeOK, HasTicket, NeedsTicket, PC, Mode, Outcome, Status, Feedback


(* Every step keeps the types, and the phases that need a ticket have one. *)
LEMMA NextTyped == Typed /\ [Next]_vars => Typed'
<1> SUFFICES ASSUME Typed, [Next]_vars PROVE Typed'
  OBVIOUS
<1> USE DEF Typed, TypeOK, HasTicket, NeedsTicket, PC, Goto,
            runVars, retryVars, gitVars, logVars, setting
<1>1. ASSUME Resuming PROVE Typed'
  <2>1. CASE NoLock
    BY <2>1 DEF NoLock
  <2>2. CASE StaleLock
    BY <2>2 DEF StaleLock
  <2>3. CASE ResumePush
    <3> PICK commit \in hasUncommitted :
          LET branch == IF commit THEN local[ticket] \union dirty ELSE local[ticket]
          IN  /\ local' = [local EXCEPT ![ticket] = branch]
              /\ remote' = [remote EXCEPT ![ticket] = branch]
              /\ dirty' = IF commit THEN {} ELSE dirty
      BY <2>3 DEF ResumePush
    <3> DEFINE branch == IF commit THEN local[ticket] \union dirty ELSE local[ticket]
    <3>1. ticket \in Ticket
      BY <2>3 DEF ResumePush
    <3>2. branch \in SUBSET (Work \union {Trunk})
      BY <3>1 DEF Branches
    <3>3. local' \in Branches /\ remote' \in Branches
      BY <3>1, <3>2 DEF Branches
    <3>4. dirty' \in SUBSET Work
      OBVIOUS
    <3> HIDE DEF branch
    <3> QED
      BY <2>3, <3>1, <3>3, <3>4 DEF ResumePush
  <2>4. CASE ResumeFails
    <3>1. ticket \in Ticket
      BY <2>4 DEF ResumeFails
    <3>2. local[ticket] \union dirty \in SUBSET (Work \union {Trunk})
      BY <3>1 DEF Branches
    <3>3. local' \in Branches /\ dirty' \in SUBSET Work
      BY <2>4, <3>1, <3>2 DEF ResumeFails, Branches
    <3>4. head' \in Ticket \union {Base}
      BY <2>4, <3>1 DEF ResumeFails
    <3> QED
      BY <2>4, <3>3, <3>4 DEF ResumeFails
  <2>5. CASE ResumeLog
    <3>1. AppendProgress(ticket, "RESUMED") /\ SafeCheckout(Base)
      BY <2>5 DEF ResumeLog
    <3> QED
      BY <2>5, <3>1, AppendType, SafeCheckoutType DEF ResumeLog, Status
  <2>6. CASE ResumeLogFails
    BY <2>6 DEF ResumeLogFails
  <2> QED
    BY <1>1, <2>1, <2>2, <2>3, <2>4, <2>5, <2>6 DEF Resuming
<1>2. ASSUME Retrying PROVE Typed'
  <2>1. CASE PreflightFails
    BY <2>1 DEF PreflightFails
  <2>2. CASE PreflightOk
    BY <2>2 DEF PreflightOk
  <2>3. CASE RetryDone
    BY <2>3 DEF RetryDone
  <2>4. CASE \E t \in Ticket : RetryUnsupported(t) \/ RetryCreates(t) \/ RetryLogs(t) \/ RetryFails(t) \/ RetryLogFails(t)
    <3> PICK t \in Ticket : RetryUnsupported(t) \/ RetryCreates(t) \/ RetryLogs(t) \/ RetryFails(t) \/ RetryLogFails(t)
      BY <2>4
    <3>1. CASE RetryUnsupported(t)
      <4>1. AppendProgress(t, "PR_CREATED")
        BY <3>1 DEF RetryUnsupported
      <4> QED
        BY <3>1, <4>1, AppendType DEF RetryUnsupported, Status
    <3>2. CASE RetryCreates(t)
      BY <3>2 DEF RetryCreates, Feedback
    <3>3. CASE RetryLogs(t)
      <4>1. AppendProgress(t, "PR_CREATED")
        BY <3>3 DEF RetryLogs
      <4> QED
        BY <3>3, <4>1, AppendType DEF RetryLogs, Status
    <3>4. CASE RetryFails(t)
      BY <3>4 DEF RetryFails
    <3>5. CASE RetryLogFails(t)
      BY <3>5 DEF RetryLogFails
    <3> QED
      BY <3>1, <3>2, <3>3, <3>4, <3>5
  <2> QED
    BY <1>2, <2>1, <2>2, <2>3, <2>4 DEF Retrying
<1>3. ASSUME Choosing PROVE Typed'
  <2>1. CASE NoRework
    BY <2>1 DEF NoRework
  <2>2. CASE NoTickets
    BY <2>2 DEF NoTickets
  <2>3. CASE FetchRework
    BY <2>3 DEF FetchRework
  <2>4. CASE ReworkExhausted
    <3>1. AppendProgress(ticket, "SKIPPED")
      BY <2>4 DEF ReworkExhausted
    <3> QED
      BY <2>4, <3>1, AppendType DEF ReworkExhausted, Status
  <2>5. CASE Feasible
    BY <2>5 DEF Feasible
  <2>6. CASE Infeasible
    <3>1. AppendProgress(ticket, "SKIPPED")
      BY <2>6 DEF Infeasible
    <3> QED
      BY <2>6, <3>1, AppendType DEF Infeasible, Status
  <2>7. CASE \E t \in Ticket : ReworkDetected(t) \/ FetchTicket(t)
    <3> PICK t \in Ticket : ReworkDetected(t) \/ FetchTicket(t)
      BY <2>7
    <3>1. CASE ReworkDetected(t)
      BY <3>1 DEF ReworkDetected, Feedback
    <3>2. CASE FetchTicket(t)
      BY <3>2 DEF FetchTicket
    <3> QED
      BY <3>1, <3>2
  <2>8. CASE SkipLogThrows
    BY <2>8 DEF SkipLogThrows
  <2> QED
    BY <1>3, <2>1, <2>2, <2>3, <2>4, <2>5, <2>6, <2>7, <2>8 DEF Choosing
<1>4. ASSUME Working PROVE Typed'
  <2>1. CASE BranchSetupThrows
    BY <2>1 DEF BranchSetupThrows, Branches
  <2>2. CASE BranchFromBase
    BY <2>2 DEF BranchFromBase, Branches
  <2>3. CASE BranchFromRemote
    BY <2>3 DEF BranchFromRemote, Branches
  <2>4. CASE WriteLock
    BY <2>4 DEF WriteLock
  <2>5. CASE WriteLockFails
    BY <2>5 DEF WriteLockFails
  <2>6. CASE Transition
    BY <2>6 DEF Transition
  <2>7. CASE ClaudeEdits
    <3>1. <<ticket, work + 1>> \in Work /\ work + 1 \in 0..MaxWork
      BY <2>7, Configuration DEF ClaudeEdits, Work
    <3> QED
      BY <2>7, <3>1 DEF ClaudeEdits
  <2>8. CASE ClaudeCommits
    BY <2>8 DEF ClaudeCommits, Branches
  <2>9. CASE InvokeOk
    BY <2>9 DEF InvokeOk
  <2>10. CASE InvokeFails
    BY <2>10 DEF InvokeFails
  <2> QED
    BY <1>4, <2>1, <2>2, <2>3, <2>4, <2>5, <2>6, <2>7, <2>8, <2>9, <2>10 DEF Working
<1>5. ASSUME Delivering PROVE Typed'
  <2>1. CASE PushSucceeds
    BY <2>1 DEF PushSucceeds, Branches
  <2>2. CASE PushFails
    <3>1. AppendProgress(ticket, "PUSH_FAILED") /\ SafeCheckout(Base)
      BY <2>2 DEF PushFails
    <3> QED
      BY <2>2, <3>1, AppendType, SafeCheckoutType DEF PushFails, Status
  <2>3. CASE CreatePr
    BY <2>3 DEF CreatePr, Outcome, Feedback
  <2>4. CASE LogDelivery
    <3>1. AppendProgress(ticket, progressForOutcome) /\ SafeCheckout(Base)
      BY <2>4 DEF LogDelivery
    <3>2. progressForOutcome \in Status
      BY DEF progressForOutcome, Status
    <3> QED
      BY <2>4, <3>1, <3>2, AppendType, SafeCheckoutType DEF LogDelivery
  <2>5. CASE LogThrows
    <3>1. SafeCheckout(original)
      BY <2>5 DEF LogThrows
    <3> QED
      BY <2>5, <3>1, SafeCheckoutType DEF LogThrows
  <2>6. CASE RemoveBuildLabel
    BY <2>6 DEF RemoveBuildLabel
  <2> QED
    BY <1>5, <2>1, <2>2, <2>3, <2>4, <2>5, <2>6 DEF Delivering
<1>6. ASSUME EndRun PROVE Typed'
  BY <1>6, DropType DEF EndRun
<1>7. ASSUME World PROVE Typed'
  <2>1. CASE Crash
    <3>1. crashes' \in Nat
      BY <2>1 DEF Crash
    <3>2. DropContext
      BY <2>1 DEF Crash
    <3> QED
      BY <2>1, <3>1, <3>2, DropType DEF Crash
  <2>2. CASE \E t \in Ticket : Review(t) \/ ClosePr(t) \/ Requeue(t)
    <3> PICK t \in Ticket : Review(t) \/ ClosePr(t) \/ Requeue(t)
      BY <2>2
    <3>1. CASE Review(t)
      BY <3>1 DEF Review, Feedback
    <3>2. CASE ClosePr(t)
      BY <3>2 DEF ClosePr, Feedback
    <3>3. CASE Requeue(t)
      BY <3>3 DEF Requeue
    <3> QED
      BY <3>1, <3>2, <3>3
  <2> QED
    BY <1>7, <2>1, <2>2 DEF World
<1>8. ASSUME NEW m \in Modes, Start(m) PROVE Typed'
  BY <1>8, Configuration DEF Start
<1>9. CASE UNCHANGED vars
  BY <1>9 DEF vars
<1> QED
  BY <1>1, <1>2, <1>3, <1>4, <1>5, <1>6, <1>7, <1>8, <1>9 DEF Next, RunStep

(* Every variable keeps its type, and a run at work has its ticket. *)
THEOREM TypeCorrect == Spec => []TypeOK
<1>1. Typed => TypeOK
  BY DEF Typed
<1> QED
  BY <1>1, InitTyped, NextTyped, PTL DEF Spec

-----------------------------------------------------------------------------
(* What the run relies on *)

LEMMA InitFacts == Init => Facts
BY DEF Init, Facts, RunFacts, ReworkHasPr, PrNeedsBranch, RetryFacts, DeliveryFacts, ResumeHasBranch,
       LockFindsItsBranch, SessionOnItsBranch, LogNeverLeads, ClaimOf, TruthOf,
       DELIVERED_STATUSES

(* What each status claims. *)
LEMMA Claims ==
  /\ \A status \in Status : ClaimOf(status) \in 0..2
  /\ ClaimOf("NONE") = 0 /\ ClaimOf("SKIPPED") = 0 /\ ClaimOf("PUSH_FAILED") = 0
  /\ ClaimOf("PUSHED") = 1 /\ ClaimOf("RESUMED") = 1 /\ ClaimOf("PR_CREATION_FAILED") = 1
  /\ \A status \in {"PR_CREATED", "REWORK"} :
       ClaimOf(status) = IF host = "known" THEN 2 ELSE 1
BY DEF ClaimOf, Status, DELIVERED_STATUSES

(* PR retry finds tickets whose branch was pushed. *)
LEMMA LoggedAsPushed ==
  LogNeverLeads => \A t \in Ticket : latest[t] = "PUSHED" => remote[t] # NoBranch
<1> SUFFICES ASSUME LogNeverLeads, NEW t \in Ticket, latest[t] = "PUSHED", remote[t] = NoBranch
             PROVE FALSE
  OBVIOUS
<1>1. TruthOf(t) = 0
  BY DEF TruthOf
<1>2. ClaimOf(latest[t]) = 1
  BY Claims
<1> QED
  BY <1>1, <1>2 DEF LogNeverLeads

(* Every step but the ledger's part, which has lemmas of its own below. *)
LEMMA NextRunFacts == Typed /\ Facts /\ [Next]_vars => RunFacts'
<1> SUFFICES ASSUME Typed, Facts, [Next]_vars PROVE RunFacts'
  OBVIOUS
<1> USE DEF Typed, TypeOK, HasTicket, NeedsTicket, Goto, NoBranch, Facts, RunFacts,
            ReworkHasPr, PrNeedsBranch, RetryFacts, DeliveryFacts, ResumeHasBranch,
            LockFindsItsBranch, SessionOnItsBranch, Branches,
            runVars, retryVars, gitVars, logVars, setting
<1>1. ASSUME Resuming PROVE RunFacts'
  <2>1. CASE NoLock
    BY <2>1 DEF NoLock
  <2>2. CASE StaleLock
    BY <2>2 DEF StaleLock
  <2>3. CASE ResumePush
    BY <2>3 DEF ResumePush
  <2>4. CASE ResumeFails
    BY <2>4 DEF ResumeFails
  <2>5. CASE ResumeLog
    BY <2>5 DEF ResumeLog, AppendProgress, SafeCheckout
  <2>6. CASE ResumeLogFails
    BY <2>6 DEF ResumeLogFails
  <2> QED
    BY <1>1, <2>1, <2>2, <2>3, <2>4, <2>5, <2>6 DEF Resuming
<1>2. ASSUME Retrying PROVE RunFacts'
  <2>1. CASE PreflightFails
    BY <2>1 DEF PreflightFails
  <2>2. CASE PreflightOk
    <3>1. \A t \in Ticket : latest[t] = "PUSHED" => remote[t] # {}
      BY LoggedAsPushed
    <3> QED
      BY <2>2, <3>1 DEF PreflightOk
  <2>3. CASE RetryDone
    BY <2>3 DEF RetryDone
  <2>4. CASE \E t \in Ticket : RetryUnsupported(t) \/ RetryCreates(t) \/ RetryLogs(t) \/ RetryFails(t) \/ RetryLogFails(t)
    <3> PICK t \in Ticket : RetryUnsupported(t) \/ RetryCreates(t) \/ RetryLogs(t) \/ RetryFails(t) \/ RetryLogFails(t)
      BY <2>4
    <3>1. CASE RetryUnsupported(t)
      BY <3>1 DEF RetryUnsupported, AppendProgress
    <3>2. CASE RetryCreates(t)
      BY <3>2 DEF RetryCreates
    <3>3. CASE RetryLogs(t)
      BY <3>3 DEF RetryLogs, AppendProgress
    <3>4. CASE RetryFails(t)
      BY <3>4 DEF RetryFails
    <3>5. CASE RetryLogFails(t)
      BY <3>5 DEF RetryLogFails
    <3> QED
      BY <3>1, <3>2, <3>3, <3>4, <3>5
  <2> QED
    BY <1>2, <2>1, <2>2, <2>3, <2>4 DEF Retrying
<1>3. ASSUME Choosing PROVE RunFacts'
  <2>1. CASE NoRework
    BY <2>1 DEF NoRework
  <2>2. CASE NoTickets
    BY <2>2 DEF NoTickets
  <2>3. CASE FetchRework
    BY <2>3 DEF FetchRework
  <2>4. CASE ReworkExhausted
    BY <2>4 DEF ReworkExhausted, AppendProgress
  <2>5. CASE Feasible
    BY <2>5 DEF Feasible
  <2>6. CASE Infeasible
    BY <2>6 DEF Infeasible, AppendProgress
  <2>7. CASE \E t \in Ticket : ReworkDetected(t) \/ FetchTicket(t)
    <3> PICK t \in Ticket : ReworkDetected(t) \/ FetchTicket(t)
      BY <2>7
    <3>1. CASE ReworkDetected(t)
      BY <3>1 DEF ReworkDetected, hasChangesRequested
    <3>2. CASE FetchTicket(t)
      BY <3>2 DEF FetchTicket
    <3> QED
      BY <3>1, <3>2
  <2>8. CASE SkipLogThrows
    BY <2>8 DEF SkipLogThrows
  <2> QED
    BY <1>3, <2>1, <2>2, <2>3, <2>4, <2>5, <2>6, <2>7, <2>8 DEF Choosing
<1>4. ASSUME Working PROVE RunFacts'
  <2>1. CASE BranchSetupThrows
    BY <2>1 DEF BranchSetupThrows, Fetchable
  <2>2. CASE BranchFromBase
    BY <2>2 DEF BranchFromBase
  <2>3. CASE BranchFromRemote
    BY <2>3 DEF BranchFromRemote, Fetchable
  <2>4. CASE WriteLock
    BY <2>4 DEF WriteLock
  <2>5. CASE WriteLockFails
    BY <2>5 DEF WriteLockFails
  <2>6. CASE Transition
    BY <2>6 DEF Transition
  <2>7. CASE ClaudeEdits
    BY <2>7 DEF ClaudeEdits
  <2>8. CASE ClaudeCommits
    BY <2>8 DEF ClaudeCommits
  <2>9. CASE InvokeOk
    BY <2>9 DEF InvokeOk
  <2>10. CASE InvokeFails
    BY <2>10 DEF InvokeFails
  <2> QED
    BY <1>4, <2>1, <2>2, <2>3, <2>4, <2>5, <2>6, <2>7, <2>8, <2>9, <2>10 DEF Working
<1>5. ASSUME Delivering PROVE RunFacts'
  <2>1. CASE PushSucceeds
    BY <2>1 DEF PushSucceeds
  <2>2. CASE PushFails
    BY <2>2 DEF PushFails, AppendProgress, SafeCheckout
  <2>3. CASE CreatePr
    BY <2>3 DEF CreatePr
  <2>4. CASE LogDelivery
    BY <2>4 DEF LogDelivery, AppendProgress, SafeCheckout
  <2>5. CASE LogThrows
    BY <2>5 DEF LogThrows, SafeCheckout
  <2>6. CASE RemoveBuildLabel
    BY <2>6 DEF RemoveBuildLabel
  <2> QED
    BY <1>5, <2>1, <2>2, <2>3, <2>4, <2>5, <2>6 DEF Delivering
<1>6. ASSUME EndRun PROVE RunFacts'
  BY <1>6 DEF EndRun, DropContext
<1>7. ASSUME World PROVE RunFacts'
  <2>1. CASE Crash
    BY <2>1 DEF Crash, DropContext
  <2>2. CASE \E t \in Ticket : Review(t) \/ ClosePr(t) \/ Requeue(t)
    <3> PICK t \in Ticket : Review(t) \/ ClosePr(t) \/ Requeue(t)
      BY <2>2
    <3>1. CASE Review(t)
      BY <3>1 DEF Review
    <3>2. CASE ClosePr(t)
      BY <3>2 DEF ClosePr
    <3>3. CASE Requeue(t)
      BY <3>3 DEF Requeue
    <3> QED
      BY <3>1, <3>2, <3>3
  <2> QED
    BY <1>7, <2>1, <2>2 DEF World
<1>8. ASSUME NEW m \in Modes, Start(m) PROVE RunFacts'
  BY <1>8 DEF Start
<1>9. CASE UNCHANGED vars
  BY <1>9 DEF vars
<1> QED
  BY <1>1, <1>2, <1>3, <1>4, <1>5, <1>6, <1>7, <1>8, <1>9 DEF Next, RunStep

-----------------------------------------------------------------------------
(* The ledger *)

(* The three things a step may do to the ledger.  *)
SameTruth == \A u \in Ticket : TruthOf(u)' = TruthOf(u)

Quiet == latest' = latest /\ SameTruth

Grows(t) ==
  /\ latest' = latest
  /\ TruthOf(t) < 2 /\ TruthOf(t)' = TruthOf(t) + 1
  /\ \A u \in Ticket \ {t} : TruthOf(u)' = TruthOf(u)

Logs(t) ==
  /\ \E status \in Status :
       latest' = [latest EXCEPT ![t] = status] /\ ClaimOf(status) <= TruthOf(t)
  /\ SameTruth

LedgerStep == host' = host /\ (Quiet \/ \E t \in Ticket : Grows(t) \/ Logs(t))

LEMMA QuietStep ==
  ASSUME host' = host, latest' = latest, remote' = remote, pr' = pr
  PROVE  LedgerStep
BY DEF LedgerStep, Quiet, SameTruth, TruthOf

LEMMA LogStep ==
  ASSUME NEW t \in Ticket, NEW status \in Status, AppendProgress(t, status),
         host' = host, remote' = remote, pr' = pr, ClaimOf(status) <= TruthOf(t)
  PROVE  LedgerStep
BY DEF LedgerStep, Logs, SameTruth, TruthOf, AppendProgress

(* A push: the branch appears on the remote, or was there already.         *)
LEMMA PushStep ==
  ASSUME TypeOK, PrNeedsBranch, NEW t \in Ticket, NEW b, b # {},
         remote' = [remote EXCEPT ![t] = b], pr' = pr, latest' = latest, host' = host
  PROVE  LedgerStep
<1>1. DOMAIN remote = Ticket
  BY DEF TypeOK, Branches
<1>2. remote'[t] = b /\ \A u \in Ticket \ {t} : remote'[u] = remote[u]
  BY <1>1
<1>3. CASE remote[t] = NoBranch
  <2>1. pr[t] = "none"
    BY <1>3 DEF PrNeedsBranch
  <2>2. TruthOf(t) = 0 /\ TruthOf(t)' = 1
    BY <1>2, <1>3, <2>1 DEF TruthOf, NoBranch
  <2>3. \A u \in Ticket \ {t} : TruthOf(u)' = TruthOf(u)
    BY <1>2 DEF TruthOf
  <2> QED
    BY <2>2, <2>3 DEF LedgerStep, Grows
<1>4. CASE remote[t] # NoBranch
  <2>1. SameTruth
    BY <1>2, <1>4 DEF SameTruth, TruthOf, NoBranch
  <2> QED
    BY <2>1 DEF LedgerStep, Quiet
<1> QED
  BY <1>3, <1>4

(* A pull request is opened or closed, for a branch on the remote.         *)
LEMMA PrStep ==
  ASSUME TypeOK, NEW t \in Ticket, NEW state, state # "none", remote[t] # NoBranch,
         pr' = [pr EXCEPT ![t] = state], remote' = remote, latest' = latest, host' = host
  PROVE  LedgerStep
<1>1. DOMAIN pr = Ticket
  BY DEF TypeOK
<1>2. pr'[t] = state /\ \A u \in Ticket \ {t} : pr'[u] = pr[u]
  BY <1>1
<1>3. \A u \in Ticket \ {t} : TruthOf(u)' = TruthOf(u)
  BY <1>2 DEF TruthOf
<1>4. TruthOf(t)' = 2
  BY <1>2 DEF TruthOf
<1>5. TruthOf(t) = IF pr[t] = "none" THEN 1 ELSE 2
  BY DEF TruthOf
<1>6. CASE pr[t] = "none"
  BY <1>3, <1>4, <1>5, <1>6 DEF LedgerStep, Grows
<1>7. CASE pr[t] # "none"
  <2>1. SameTruth
    BY <1>3, <1>4, <1>5, <1>7 DEF SameTruth
  <2> QED
    BY <2>1 DEF LedgerStep, Quiet
<1> QED
  BY <1>6, <1>7

(* How far a ticket has got, by what is there of it.                       *)
LEMMA Truths ==
  ASSUME NEW t \in Ticket
  PROVE  /\ TruthOf(t) \in 0..2
         /\ remote[t] # NoBranch => TruthOf(t) >= 1
         /\ remote[t] # NoBranch /\ pr[t] # "none" => TruthOf(t) = 2
BY DEF TruthOf

LEMMA NextLedger == Typed /\ Facts /\ [Next]_vars => LedgerStep
<1> SUFFICES ASSUME Typed, Facts, [Next]_vars PROVE LedgerStep
  OBVIOUS
<1>t. TypeOK /\ HasTicket /\ PrNeedsBranch
  BY DEF Typed, Facts, RunFacts
<1> USE DEF runVars, retryVars, gitVars, logVars, setting
<1>1. ASSUME Resuming PROVE LedgerStep
  <2>1. CASE NoLock
    BY <2>1, QuietStep DEF NoLock
  <2>2. CASE StaleLock
    BY <2>2, QuietStep DEF StaleLock
  <2>3. CASE ResumePush
    <3> PICK commit \in hasUncommitted :
          LET branch == IF commit THEN local[ticket] \union dirty ELSE local[ticket]
          IN  remote' = [remote EXCEPT ![ticket] = branch]
      BY <2>3 DEF ResumePush
    <3> DEFINE branch == IF commit THEN local[ticket] \union dirty ELSE local[ticket]
    <3>1. ticket \in Ticket /\ local[ticket] # {}
      BY <2>3, <1>t DEF ResumePush, HasTicket, NeedsTicket, Facts, RunFacts, ResumeHasBranch, NoBranch
    <3>2. branch # {}
      BY <3>1
    <3>3. remote' = [remote EXCEPT ![ticket] = branch] /\ pr' = pr /\ latest' = latest /\ host' = host
      BY <2>3 DEF ResumePush
    <3> HIDE DEF branch
    <3> QED
      BY <3>1, <3>2, <3>3, <1>t, PushStep
  <2>4. CASE ResumeFails
    BY <2>4, QuietStep DEF ResumeFails
  <2>5. CASE ResumeLog
    <3>1. ticket \in Ticket
      BY <2>5, <1>t DEF ResumeLog, HasTicket, NeedsTicket
    <3>2. "RESUMED" \in Status /\ ClaimOf("RESUMED") <= TruthOf(ticket)
      BY <2>5, <3>1, Claims, Truths DEF ResumeLog, Facts, RunFacts, DeliveryFacts, Status
    <3> QED
      BY <2>5, <3>1, <3>2, LogStep DEF ResumeLog
  <2>6. CASE ResumeLogFails
    BY <2>6, QuietStep DEF ResumeLogFails
  <2> QED
    BY <1>1, <2>1, <2>2, <2>3, <2>4, <2>5, <2>6 DEF Resuming
<1>2. ASSUME Retrying PROVE LedgerStep
  <2>1. CASE PreflightFails
    BY <2>1, QuietStep DEF PreflightFails
  <2>2. CASE PreflightOk
    BY <2>2, QuietStep DEF PreflightOk
  <2>3. CASE RetryDone
    BY <2>3, QuietStep DEF RetryDone
  <2>4. CASE \E t \in Ticket : RetryUnsupported(t) \/ RetryCreates(t) \/ RetryLogs(t) \/ RetryFails(t) \/ RetryLogFails(t)
    <3> PICK t \in Ticket : RetryUnsupported(t) \/ RetryCreates(t) \/ RetryLogs(t) \/ RetryFails(t) \/ RetryLogFails(t)
      BY <2>4
    <3>1. CASE RetryUnsupported(t)
      <4>1. "PR_CREATED" \in Status /\ ClaimOf("PR_CREATED") = 1
        BY <3>1, Claims DEF RetryUnsupported, Status
      <4>2. TruthOf(t) >= 1 /\ TruthOf(t) \in 0..2
        BY <3>1, Truths DEF RetryUnsupported, Facts, RunFacts, RetryFacts
      <4> QED
        BY <3>1, <4>1, <4>2, LogStep DEF RetryUnsupported
    <3>2. CASE RetryCreates(t)
      <4>1. remote[t] # NoBranch
        BY <3>2 DEF RetryCreates, Facts, RunFacts, RetryFacts
      <4> QED
        BY <3>2, <4>1, <1>t, PrStep DEF RetryCreates
    <3>3. CASE RetryLogs(t)
      <4>1. "PR_CREATED" \in Status /\ ClaimOf("PR_CREATED") \in 0..2
        BY Claims DEF Status
      <4>2. TruthOf(t) = 2
        BY <3>3, <1>t, Truths DEF RetryLogs, Facts, RunFacts, RetryFacts, PrNeedsBranch
      <4> QED
        BY <3>3, <4>1, <4>2, LogStep DEF RetryLogs
    <3>4. CASE RetryFails(t)
      BY <3>4, QuietStep DEF RetryFails
    <3>5. CASE RetryLogFails(t)
      BY <3>5, QuietStep DEF RetryLogFails
    <3> QED
      BY <3>1, <3>2, <3>3, <3>4, <3>5
  <2> QED
    BY <1>2, <2>1, <2>2, <2>3, <2>4 DEF Retrying
<1>3. ASSUME Choosing PROVE LedgerStep
  <2>1. CASE NoRework
    BY <2>1, QuietStep DEF NoRework
  <2>2. CASE NoTickets
    BY <2>2, QuietStep DEF NoTickets
  <2>3. CASE FetchRework
    BY <2>3, QuietStep DEF FetchRework
  <2>4. CASE ReworkExhausted
    <3>1. ticket \in Ticket
      BY <2>4, <1>t DEF ReworkExhausted, HasTicket, NeedsTicket
    <3>2. "SKIPPED" \in Status /\ ClaimOf("SKIPPED") <= TruthOf(ticket)
      BY <3>1, Claims, Truths DEF Status
    <3> QED
      BY <2>4, <3>1, <3>2, LogStep DEF ReworkExhausted
  <2>5. CASE Feasible
    BY <2>5, QuietStep DEF Feasible
  <2>6. CASE Infeasible
    <3>1. ticket \in Ticket
      BY <2>6, <1>t DEF Infeasible, HasTicket, NeedsTicket
    <3>2. "SKIPPED" \in Status /\ ClaimOf("SKIPPED") <= TruthOf(ticket)
      BY <3>1, Claims, Truths DEF Status
    <3> QED
      BY <2>6, <3>1, <3>2, LogStep DEF Infeasible
  <2>7. CASE \E t \in Ticket : ReworkDetected(t) \/ FetchTicket(t)
    <3> PICK t \in Ticket : ReworkDetected(t) \/ FetchTicket(t)
      BY <2>7
    <3>1. CASE ReworkDetected(t)
      BY <3>1, QuietStep DEF ReworkDetected
    <3>2. CASE FetchTicket(t)
      BY <3>2, QuietStep DEF FetchTicket
    <3> QED
      BY <3>1, <3>2
  <2>8. CASE SkipLogThrows
    BY <2>8, QuietStep DEF SkipLogThrows
  <2> QED
    BY <1>3, <2>1, <2>2, <2>3, <2>4, <2>5, <2>6, <2>7, <2>8 DEF Choosing
<1>4. ASSUME Working PROVE LedgerStep
  <2>1. CASE BranchSetupThrows
    BY <2>1, QuietStep DEF BranchSetupThrows
  <2>2. CASE BranchFromBase
    BY <2>2, QuietStep DEF BranchFromBase
  <2>3. CASE BranchFromRemote
    BY <2>3, QuietStep DEF BranchFromRemote
  <2>4. CASE WriteLock
    BY <2>4, QuietStep DEF WriteLock
  <2>5. CASE WriteLockFails
    BY <2>5, QuietStep DEF WriteLockFails
  <2>6. CASE Transition
    BY <2>6, QuietStep DEF Transition
  <2>7. CASE ClaudeEdits
    BY <2>7, QuietStep DEF ClaudeEdits
  <2>8. CASE ClaudeCommits
    BY <2>8, QuietStep DEF ClaudeCommits
  <2>9. CASE InvokeOk
    BY <2>9, QuietStep DEF InvokeOk
  <2>10. CASE InvokeFails
    BY <2>10, QuietStep DEF InvokeFails
  <2> QED
    BY <1>4, <2>1, <2>2, <2>3, <2>4, <2>5, <2>6, <2>7, <2>8, <2>9, <2>10 DEF Working
<1>5. ASSUME Delivering PROVE LedgerStep
  <2>1. CASE PushSucceeds
    <3>1. ticket \in Ticket /\ local[ticket] # {}
      BY <2>1, <1>t DEF PushSucceeds, HasTicket, NeedsTicket, Facts, RunFacts, SessionOnItsBranch, NoBranch
    <3> QED
      BY <2>1, <3>1, <1>t, PushStep DEF PushSucceeds
  <2>2. CASE PushFails
    <3>1. ticket \in Ticket
      BY <2>2, <1>t DEF PushFails, HasTicket, NeedsTicket
    <3>2. "PUSH_FAILED" \in Status /\ ClaimOf("PUSH_FAILED") <= TruthOf(ticket)
      BY <3>1, Claims, Truths DEF Status
    <3> QED
      BY <2>2, <3>1, <3>2, LogStep DEF PushFails
  <2>3. CASE CreatePr
    <3>1. ticket \in Ticket /\ remote[ticket] # NoBranch
      BY <2>3, <1>t DEF CreatePr, HasTicket, NeedsTicket, Facts, RunFacts, DeliveryFacts
    <3>2. CASE pr' = [pr EXCEPT ![ticket] = "open"]
      BY <2>3, <3>1, <3>2, <1>t, PrStep DEF CreatePr
    <3>3. CASE pr' = pr
      BY <2>3, <3>3, QuietStep DEF CreatePr
    <3> QED
      BY <2>3, <3>2, <3>3 DEF CreatePr
  <2>4. CASE LogDelivery
    <3>1. ticket \in Ticket /\ remote[ticket] # NoBranch
      BY <2>4, <1>t DEF LogDelivery, HasTicket, NeedsTicket, Facts, RunFacts, DeliveryFacts
    <3>2. progressForOutcome \in {"PR_CREATION_FAILED", "REWORK", "PR_CREATED", "PUSHED"}
      BY DEF progressForOutcome
    <3>3. CASE progressForOutcome \in {"PR_CREATION_FAILED", "PUSHED"}
      <4> ClaimOf(progressForOutcome) = 1
        BY <3>3, Claims
      <4> QED
        BY <2>4, <3>1, <3>3, Truths, LogStep DEF LogDelivery, Status
    <3>4. CASE progressForOutcome \in {"REWORK", "PR_CREATED"}
      <4>1. ClaimOf(progressForOutcome) \in 0..2
        BY <3>4, Claims DEF Status
      <4>2. pr[ticket] # "none"
        BY <2>4, <3>4 DEF LogDelivery, progressForOutcome, Facts, RunFacts, DeliveryFacts, ReworkHasPr
      <4>3. TruthOf(ticket) = 2
        BY <3>1, <4>2, Truths
      <4> QED
        BY <2>4, <3>1, <3>4, <4>1, <4>3, LogStep DEF LogDelivery, Status
    <3> QED
      BY <3>2, <3>3, <3>4
  <2>5. CASE LogThrows
    BY <2>5, QuietStep DEF LogThrows
  <2>6. CASE RemoveBuildLabel
    BY <2>6, QuietStep DEF RemoveBuildLabel
  <2> QED
    BY <1>5, <2>1, <2>2, <2>3, <2>4, <2>5, <2>6 DEF Delivering
<1>6. ASSUME EndRun PROVE LedgerStep
  BY <1>6, QuietStep DEF EndRun, DropContext
<1>7. ASSUME World PROVE LedgerStep
  <2>1. CASE Crash
    BY <2>1, QuietStep DEF Crash, DropContext
  <2>2. CASE \E t \in Ticket : Review(t) \/ ClosePr(t) \/ Requeue(t)
    <3> PICK t \in Ticket : Review(t) \/ ClosePr(t) \/ Requeue(t)
      BY <2>2
    <3>1. CASE Review(t)
      BY <3>1, QuietStep DEF Review
    <3>2. CASE ClosePr(t)
      <4>1. remote[t] # NoBranch
        BY <3>2, <1>t DEF ClosePr, PrNeedsBranch
      <4> QED
        BY <3>2, <4>1, <1>t, PrStep DEF ClosePr
    <3>3. CASE Requeue(t)
      BY <3>3, QuietStep DEF Requeue
    <3> QED
      BY <3>1, <3>2, <3>3
  <2> QED
    BY <1>7, <2>1, <2>2 DEF World
<1>8. ASSUME NEW m \in Modes, Start(m) PROVE LedgerStep
  BY <1>8, QuietStep DEF Start
<1>9. CASE UNCHANGED vars
  BY <1>9, QuietStep DEF vars
<1> QED
  BY <1>1, <1>2, <1>3, <1>4, <1>5, <1>6, <1>7, <1>8, <1>9 DEF Next, RunStep

-----------------------------------------------------------------------------
(* Rework cycles *)

(* An entry with another status than REWORK leaves the count as it is.     *)
LEMMA OtherEntries ==
  ASSUME TypeOK, NEW t \in Ticket, NEW status \in Status \ {"REWORK"},
         AppendProgress(t, status)
  PROVE  reworks' = reworks
BY DEF AppendProgress, TypeOK

LEMMA NextCycles == Typed /\ Cycles /\ [Next]_vars => Cycles'
<1> SUFFICES ASSUME Typed, Cycles, [Next]_vars PROVE Cycles'
  OBVIOUS
<1>t. TypeOK /\ HasTicket /\ reworks \in [Ticket -> Nat] /\ MaxRework \in Nat
  BY Configuration DEF Typed, TypeOK
<1> USE DEF Cycles, ReworkBounded, CycleLeft, Goto, runVars, retryVars, gitVars, logVars, setting
<1>1. ASSUME Resuming PROVE Cycles'
  <2>1. CASE NoLock
    BY <2>1, <1>t DEF NoLock
  <2>2. CASE StaleLock
    BY <2>2, <1>t DEF StaleLock
  <2>3. CASE ResumePush
    BY <2>3, <1>t DEF ResumePush, HasTicket
  <2>4. CASE ResumeFails
    BY <2>4, <1>t DEF ResumeFails
  <2>5. CASE ResumeLog
    <3>1. ticket \in Ticket
      BY <2>5, <1>t DEF ResumeLog, HasTicket, NeedsTicket
    <3>2. reworks' = reworks
      BY <2>5, <3>1, <1>t, OtherEntries DEF ResumeLog, Status
    <3> QED
      BY <2>5, <3>2, <1>t DEF ResumeLog
  <2>6. CASE ResumeLogFails
    BY <2>6, <1>t DEF ResumeLogFails
  <2> QED
    BY <1>1, <2>1, <2>2, <2>3, <2>4, <2>5, <2>6 DEF Resuming
<1>2. ASSUME Retrying PROVE Cycles'
  <2>1. CASE PreflightFails
    BY <2>1, <1>t DEF PreflightFails
  <2>2. CASE PreflightOk
    BY <2>2, <1>t DEF PreflightOk
  <2>3. CASE RetryDone
    BY <2>3, <1>t DEF RetryDone
  <2>4. CASE \E t \in Ticket : RetryUnsupported(t) \/ RetryCreates(t) \/ RetryLogs(t) \/ RetryFails(t) \/ RetryLogFails(t)
    <3> PICK t \in Ticket : RetryUnsupported(t) \/ RetryCreates(t) \/ RetryLogs(t) \/ RetryFails(t) \/ RetryLogFails(t)
      BY <2>4
    <3>1. CASE RetryUnsupported(t)
      <4>1. t \in Ticket
        BY <3>1, <1>t DEF RetryUnsupported, HasTicket, NeedsTicket
      <4>2. reworks' = reworks
        BY <3>1, <4>1, <1>t, OtherEntries DEF RetryUnsupported, Status
      <4> QED
        BY <3>1, <4>2, <1>t DEF RetryUnsupported
    <3>2. CASE RetryCreates(t)
      BY <3>2, <1>t DEF RetryCreates
    <3>3. CASE RetryLogs(t)
      <4>1. t \in Ticket
        BY <3>3, <1>t DEF RetryLogs, HasTicket, NeedsTicket
      <4>2. reworks' = reworks
        BY <3>3, <4>1, <1>t, OtherEntries DEF RetryLogs, Status
      <4> QED
        BY <3>3, <4>2, <1>t DEF RetryLogs
    <3>4. CASE RetryFails(t)
      BY <3>4, <1>t DEF RetryFails
    <3>5. CASE RetryLogFails(t)
      BY <3>5, <1>t DEF RetryLogFails
    <3> QED
      BY <3>1, <3>2, <3>3, <3>4, <3>5
  <2> QED
    BY <1>2, <2>1, <2>2, <2>3, <2>4 DEF Retrying
<1>3. ASSUME Choosing PROVE Cycles'
  <2>1. CASE NoRework
    BY <2>1, <1>t DEF NoRework
  <2>2. CASE NoTickets
    BY <2>2, <1>t DEF NoTickets
  <2>3. CASE FetchRework
    BY <2>3, <1>t DEF FetchRework
  <2>4. CASE ReworkExhausted
    <3>1. ticket \in Ticket
      BY <2>4, <1>t DEF ReworkExhausted, HasTicket, NeedsTicket
    <3>2. reworks' = reworks
      BY <2>4, <3>1, <1>t, OtherEntries DEF ReworkExhausted, Status
    <3> QED
      BY <2>4, <3>2, <1>t DEF ReworkExhausted
  <2>5. CASE Feasible
    BY <2>5, <1>t DEF Feasible, HasTicket
  <2>6. CASE Infeasible
    <3>1. ticket \in Ticket
      BY <2>6, <1>t DEF Infeasible, HasTicket, NeedsTicket
    <3>2. reworks' = reworks
      BY <2>6, <3>1, <1>t, OtherEntries DEF Infeasible, Status
    <3> QED
      BY <2>6, <3>2, <1>t DEF Infeasible
  <2>7. CASE \E t \in Ticket : ReworkDetected(t) \/ FetchTicket(t)
    <3> PICK t \in Ticket : ReworkDetected(t) \/ FetchTicket(t)
      BY <2>7
    <3>1. CASE ReworkDetected(t)
      BY <3>1, <1>t DEF ReworkDetected
    <3>2. CASE FetchTicket(t)
      BY <3>2, <1>t DEF FetchTicket
    <3> QED
      BY <3>1, <3>2
  <2>8. CASE SkipLogThrows
    BY <2>8, <1>t DEF SkipLogThrows, HasTicket
  <2> QED
    BY <1>3, <2>1, <2>2, <2>3, <2>4, <2>5, <2>6, <2>7, <2>8 DEF Choosing
<1>4. ASSUME Working PROVE Cycles'
  <2>1. CASE BranchSetupThrows
    BY <2>1, <1>t DEF BranchSetupThrows
  <2>2. CASE BranchFromBase
    BY <2>2, <1>t DEF BranchFromBase
  <2>3. CASE BranchFromRemote
    BY <2>3, <1>t DEF BranchFromRemote
  <2>4. CASE WriteLock
    BY <2>4, <1>t DEF WriteLock
  <2>5. CASE WriteLockFails
    BY <2>5, <1>t DEF WriteLockFails
  <2>6. CASE Transition
    BY <2>6, <1>t DEF Transition
  <2>7. CASE ClaudeEdits
    BY <2>7, <1>t DEF ClaudeEdits
  <2>8. CASE ClaudeCommits
    BY <2>8, <1>t DEF ClaudeCommits
  <2>9. CASE InvokeOk
    BY <2>9, <1>t DEF InvokeOk
  <2>10. CASE InvokeFails
    BY <2>10, <1>t DEF InvokeFails
  <2> QED
    BY <1>4, <2>1, <2>2, <2>3, <2>4, <2>5, <2>6, <2>7, <2>8, <2>9, <2>10 DEF Working
<1>5. ASSUME Delivering PROVE Cycles'
  <2>1. CASE PushSucceeds
    BY <2>1, <1>t DEF PushSucceeds
  <2>2. CASE PushFails
    <3>1. ticket \in Ticket
      BY <2>2, <1>t DEF PushFails, HasTicket, NeedsTicket
    <3>2. reworks' = reworks
      BY <2>2, <3>1, <1>t, OtherEntries DEF PushFails, Status
    <3> QED
      BY <2>2, <3>2, <1>t DEF PushFails
  <2>3. CASE CreatePr
    BY <2>3, <1>t DEF CreatePr
  <2>4. CASE LogDelivery
    <3>1. ticket \in Ticket
      BY <2>4, <1>t DEF LogDelivery, HasTicket, NeedsTicket
    <3>2. pc' \in {"ending", "unlabel"}
      BY <2>4 DEF LogDelivery
    <3>3. CASE progressForOutcome = "REWORK"
      <4>1. isRework
        BY <3>3 DEF progressForOutcome
      <4>2. reworks[ticket] < MaxRework
        BY <2>4, <4>1 DEF LogDelivery
      <4>3. reworks' = [reworks EXCEPT ![ticket] = reworks[ticket] + 1]
        BY <2>4, <3>3 DEF LogDelivery, AppendProgress
      <4>4. \A t \in Ticket : reworks'[t] <= MaxRework
        BY <3>1, <4>2, <4>3, <1>t
      <4> QED
        BY <3>2, <4>4
    <3>4. CASE progressForOutcome # "REWORK"
      <4>1. progressForOutcome \in Status \ {"REWORK"}
        BY <3>4 DEF progressForOutcome, Status
      <4>2. reworks' = reworks
        BY <2>4, <3>1, <4>1, <1>t, OtherEntries DEF LogDelivery
      <4> QED
        BY <3>2, <4>2
    <3> QED
      BY <3>3, <3>4
  <2>5. CASE LogThrows
    BY <2>5, <1>t DEF LogThrows
  <2>6. CASE RemoveBuildLabel
    BY <2>6, <1>t DEF RemoveBuildLabel
  <2> QED
    BY <1>5, <2>1, <2>2, <2>3, <2>4, <2>5, <2>6 DEF Delivering
<1>6. ASSUME EndRun PROVE Cycles'
  BY <1>6, <1>t DEF EndRun, DropContext
<1>7. ASSUME World PROVE Cycles'
  <2>1. CASE Crash
    BY <2>1, <1>t DEF Crash, DropContext
  <2>2. CASE \E t \in Ticket : Review(t) \/ ClosePr(t) \/ Requeue(t)
    <3> PICK t \in Ticket : Review(t) \/ ClosePr(t) \/ Requeue(t)
      BY <2>2
    <3>1. CASE Review(t)
      BY <3>1, <1>t DEF Review
    <3>2. CASE ClosePr(t)
      BY <3>2, <1>t DEF ClosePr
    <3>3. CASE Requeue(t)
      BY <3>3, <1>t DEF Requeue
    <3> QED
      BY <3>1, <3>2, <3>3
  <2> QED
    BY <1>7, <2>1, <2>2 DEF World
<1>8. ASSUME NEW m \in Modes, Start(m) PROVE Cycles'
  BY <1>8, <1>t DEF Start
<1>9. CASE UNCHANGED vars
  BY <1>9, <1>t DEF vars
<1> QED
  BY <1>1, <1>2, <1>3, <1>4, <1>5, <1>6, <1>7, <1>8, <1>9 DEF Next, RunStep

-----------------------------------------------------------------------------
(* The theorems *)

(* A record of the log is a record of the ledger. *)
LEMMA LedgerStepFacts ==
  ASSUME TypeOK, TypeOK', LogNeverLeads, LedgerStep
  PROVE  LogNeverLeads'
<1>t. /\ latest \in [Ticket -> Status] /\ latest' \in [Ticket -> Status]
      /\ \A u \in Ticket : TruthOf(u) \in 0..2
  BY Truths DEF TypeOK
<1>h. host' = host
  BY DEF LedgerStep
<1>1. CASE Quiet
  BY <1>1, <1>h, <1>t DEF Quiet, SameTruth, LogNeverLeads, ClaimOf
<1>2. ASSUME NEW t \in Ticket, Grows(t) PROVE LogNeverLeads'
  <2>1. ASSUME NEW u \in Ticket PROVE ClaimOf(latest[u]) \in 0..2
    BY <1>t, <2>1, Claims
  <2> QED
    BY <1>2, <1>h, <1>t, <2>1 DEF Grows, LogNeverLeads, ClaimOf
<1>3. ASSUME NEW t \in Ticket, Logs(t) PROVE LogNeverLeads'
  BY <1>3, <1>h, <1>t DEF Logs, SameTruth, LogNeverLeads, ClaimOf
<1> QED
  BY <1>1, <1>2, <1>3 DEF LedgerStep

LEMMA InitIInv == Init => IInv
<1>1. Init => Cycles
  BY Configuration DEF Init, Cycles, ReworkBounded, CycleLeft
<1> QED
  BY <1>1, InitTyped, InitFacts DEF IInv

LEMMA NextIInv == IInv /\ [Next]_vars => IInv'
<1> SUFFICES ASSUME IInv, [Next]_vars PROVE IInv'
  OBVIOUS
<1>1. Typed'
  BY NextTyped DEF IInv
<1>2. RunFacts'
  BY NextRunFacts DEF IInv
<1>3. LogNeverLeads'
  BY <1>1, NextLedger, LedgerStepFacts DEF IInv, Typed, Facts
<1>4. Cycles'
  BY NextCycles DEF IInv
<1> QED
  BY <1>1, <1>2, <1>3, <1>4 DEF IInv, Facts

(* IInv holds in every state of every behaviour. *)
THEOREM Inductive == Spec => []IInv
BY InitIInv, NextIInv, PTL DEF Spec

(* Whatever runs, retries, reviews and crashes come in between, the log    *)
(* claims of no ticket more than has happened to it.                       *)
THEOREM LogNeverLeadsAlways == Spec => []LogNeverLeads
<1>1. IInv => LogNeverLeads
  BY DEF IInv, Facts
<1> QED
  BY <1>1, Inductive, PTL

(* A lock left behind always leads resume to a branch that exists. *)
THEOREM LockFindsItsBranchAlways == Spec => []LockFindsItsBranch
<1>1. IInv => LockFindsItsBranch
  BY DEF IInv, Facts, RunFacts
<1> QED
  BY <1>1, Inductive, PTL

(* Claude works, and the push is made, on the ticket's own branch. *)
THEOREM SessionOnItsBranchAlways == Spec => []SessionOnItsBranch
<1>1. IInv => SessionOnItsBranch
  BY DEF IInv, Facts, RunFacts
<1> QED
  BY <1>1, Inductive, PTL

(* CLANCY_MAX_REWORK bounds the rework of a ticket over all runs. *)
THEOREM ReworkBoundedAlways == Spec => []ReworkBounded
<1>1. IInv => ReworkBounded
  BY DEF IInv, Cycles
<1> QED
  BY <1>1, Inductive, PTL

(* What one step of the pipeline does to the ledger is a step of the       *)
(* ledger, or none.                                                        *)
LEMMA LedgerRefines ==
  ASSUME TypeOK, TypeOK', LedgerStep
  PROVE  [Ledger!LedgerNext]_Ledger!ledger
<1>t. /\ latest \in [Ticket -> Status] /\ latest' \in [Ticket -> Status]
      /\ \A u \in Ticket : TruthOf(u) \in 0..2
  BY Truths DEF TypeOK
<1>h. host' = host
  BY DEF LedgerStep
<1> DEFINE truth == [t \in Ticket |-> TruthOf(t)]
           claim == [t \in Ticket |-> ClaimOf(latest[t])]
<1>1. CASE Quiet
  <2>1. truth' = truth /\ claim' = claim
    BY <1>1, <1>h DEF Quiet, SameTruth, ClaimOf
  <2> QED
    BY <2>1 DEF Ledger!ledger
<1>2. ASSUME NEW t \in Ticket, Grows(t) PROVE Ledger!Advance(t)
  <2>1. truth[t] < 2 /\ truth' = [truth EXCEPT ![t] = @ + 1]
    BY <1>2 DEF Grows
  <2>2. claim' = claim
    BY <1>2, <1>h DEF Grows, ClaimOf
  <2> QED
    BY <2>1, <2>2 DEF Ledger!Advance
<1>3. ASSUME NEW t \in Ticket, Logs(t) PROVE Ledger!Record(t)
  <2>1. PICK status \in Status :
          latest' = [latest EXCEPT ![t] = status] /\ ClaimOf(status) <= TruthOf(t)
    BY <1>3 DEF Logs
  <2>2. ClaimOf(status) \in 0..truth[t]
    BY <2>1, <1>t, Claims
  <2>3. claim' = [claim EXCEPT ![t] = ClaimOf(status)]
    BY <2>1, <1>h, <1>t DEF ClaimOf
  <2>4. truth' = truth
    BY <1>3 DEF Logs, SameTruth
  <2> QED
    BY <2>2, <2>3, <2>4 DEF Ledger!Record
<1> QED
  BY <1>1, <1>2, <1>3 DEF LedgerStep, Ledger!LedgerNext

(* The pipeline implements DeliveryLedger: the log moves only to levels    *)
(* that were reached, and no pushed branch or pull request is taken back.  *)
THEOREM ImplementsLedgerAlways == Spec => ImplementsLedger
<1>1. Init => Ledger!LedgerInit
  BY Claims DEF Init, Ledger!LedgerInit, TruthOf
<1>2. IInv /\ IInv' /\ [Next]_vars => [Ledger!LedgerNext]_Ledger!ledger
  BY NextLedger, LedgerRefines DEF IInv, Typed
<1> QED
  BY <1>1, <1>2, Inductive, PTL DEF Spec, ImplementsLedger, Ledger!LedgerSpec

-----------------------------------------------------------------------------
(* The ledger by itself, with a world and a log of its own. *)

VARIABLES truth, claim

Abstract == INSTANCE DeliveryLedger

(* An entry is written for what has happened, and what has happened stays  *)
(* so: whatever implements the ledger never claims too much.               *)
THEOREM LedgerNeverLeads == Abstract!LedgerSpec => []Abstract!NeverLeads
<1> USE DEF Abstract!Level
<1>1. Abstract!LedgerInit => Abstract!Typed /\ Abstract!NeverLeads
  BY DEF Abstract!LedgerInit, Abstract!Typed, Abstract!NeverLeads
<1>2. Abstract!Typed /\ Abstract!NeverLeads /\ [Abstract!LedgerNext]_(Abstract!ledger) =>
        Abstract!Typed' /\ Abstract!NeverLeads'
  <2> SUFFICES ASSUME Abstract!Typed, Abstract!NeverLeads, [Abstract!LedgerNext]_(Abstract!ledger)
               PROVE  Abstract!Typed' /\ Abstract!NeverLeads'
    OBVIOUS
  <2>1. ASSUME NEW t \in Ticket, Abstract!Advance(t) PROVE Abstract!Typed' /\ Abstract!NeverLeads'
    BY <2>1 DEF Abstract!Typed, Abstract!NeverLeads, Abstract!Advance
  <2>2. ASSUME NEW t \in Ticket, Abstract!Record(t) PROVE Abstract!Typed' /\ Abstract!NeverLeads'
    BY <2>2 DEF Abstract!Typed, Abstract!NeverLeads, Abstract!Record
  <2>3. CASE UNCHANGED Abstract!ledger
    BY <2>3 DEF Abstract!Typed, Abstract!NeverLeads, Abstract!ledger
  <2> QED
    BY <2>1, <2>2, <2>3 DEF Abstract!LedgerNext
<1> QED
  BY <1>1, <1>2, PTL DEF Abstract!LedgerSpec

=============================================================================
