------------------------------ MODULE WorkLoop ------------------------------
(***************************************************************************)
(* The two loops that run the pipeline unattended: autopilot, a number of  *)
(* runs that each fetch their own ticket, and the dev loop, which takes    *)
(* the build queue, grades it (AFK only), and runs the pipeline once per   *)
(* ticket after a readiness gate.  Both wait out quiet hours before every  *)
(* run and stop where checkStopCondition says so.  A loop may be killed at *)
(* any step; a later dev loop may resume from the grades it checkpointed.  *)
(*                                                                         *)
(* The pipeline itself is module Pipeline; here it is its result.  Timers  *)
(* fire on time.                                                           *)
(***************************************************************************)
EXTENDS QuietHours, Sequences, FiniteSets

CONSTANTS
  Ticket,
  NoTicket,             \* what an autopilot iteration is started for
  Queues,               \* the queues the board may return, in its order
  MaxIterations,        \* MAX_ITERATIONS of autopilot, --max of the dev loop
  MAX_ITERATIONS_CAP,   \* 100
  MaxBatch,             \* --max-batch (50)
  MaxRounds,            \* grading rounds of the readiness gate (3)
  MaxCrashes            \* bound: loops killed in a behaviour

ASSUME LoopConfiguration ==
  /\ NoTicket \notin Ticket
  /\ Queues \subseteq Seq(Ticket)
  /\ MaxIterations \in Nat /\ MAX_ITERATIONS_CAP \in Nat
  /\ MaxBatch \in Nat \ {0} /\ MaxRounds \in Nat \ {0}
  /\ MaxCrashes \in Nat

Colour == {"green", "yellow", "red"}
Verdicts == [Ticket -> Colour \union {"none"}]
NoVerdicts == [t \in Ticket |-> "none"]

(* How a loop is started: as autopilot, or as a dev loop in one of the     *)
(* modes of resolveMode.  "afk" and "strict" (afk-strict) grade the queue. *)
Mode == {"autopilot", "interactive", "afk", "strict"}

FATAL_ABORT_PHASES == {"lock-check", "preflight", "ticket-fetch", "branch-setup"}
AbortPhase == FATAL_ABORT_PHASES \union {"readiness", "feasibility", "invoke", "deliver"}
Result == [status : {"completed", "resumed", "error", "dry-run"}, phase : {"none"}]
          \union [status : {"aborted"}, phase : AbortPhase]

VARIABLES
  phase,     \* where the loop is
  mode,      \* how it was started
  bypass,    \* --bypass-readiness
  queue,     \* the queue it fetched
  partial,   \* readiness-report.partial.json
  batch,     \* the queue that was last graded, in one run or, resumed, several
  paid,      \* history: the tickets a grade has come back for in that batch
  graded,    \* the verdicts of this batch
  indices,   \* what it iterates over
  index,     \* the iteration it is in, from 1
  round,     \* grading rounds of the gate so far
  now,       \* the wall clock
  window,    \* CLANCY_QUIET_START and CLANCY_QUIET_END
  executed,  \* tickets the pipeline was started for in this loop
  crashes

loopVars == <<mode, bypass, queue, indices, batch>>
vars == <<phase, loopVars, partial, paid, graded, index, round, now, window, executed, crashes>>

TypeOK ==
  /\ phase \in {"idle", "batch", "save", "check", "gate", "pipeline"}
  /\ mode \in Mode /\ bypass \in BOOLEAN
  /\ queue \in Seq(Ticket) /\ batch \in Seq(Ticket)
  /\ paid \in SUBSET Ticket
  /\ partial \in Verdicts /\ graded \in Verdicts
  /\ indices \in Seq(Ticket \union {NoTicket})
  /\ index \in 1..(Len(indices) + 1) /\ round \in 0..(MaxRounds - 1)
  /\ now \in Clock /\ window \in Windows
  /\ executed \in SUBSET Ticket
  /\ crashes \in Nat

-----------------------------------------------------------------------------
(* Helpers *)

Smaller(a, b) == IF a < b THEN a ELSE b

FirstOf(s, n) == SubSeq(s, 1, Smaller(Len(s), n))

(* executeQueue and executeFixedCount cap what they iterate over. *)
Capped(s) == FirstOf(s, Smaller(MaxIterations, MAX_ITERATIONS_CAP))

(* The tickets that come before a ticket in a queue.                       *)
Before(q, t) ==
  {q[j] : j \in {j \in 1..Len(q) : \A i \in 1..j : q[i] # t}}

(* dedupeTickets keeps the first occurrence of a ticket, and the batch is  *)
(* cut at MaxBatch. *)
BatchOf(q) ==
  {t \in Ticket : /\ \E i \in 1..Len(q) : q[i] = t
                 /\ Cardinality(Before(q, t)) < MaxBatch}

InBatch == BatchOf(queue)

toGrade == {t \in InBatch : graded[t] = "none"}

(* The gate is wired up unless the operator bypasses it; autopilot has     *)
(* none. *)
HasGate == mode # "autopilot" /\ ~bypass

hasReds == \E t \in Ticket : graded[t] = "red"
Greens == {t \in Ticket : graded[t] = "green"}
allGreen == \A t \in InBatch : graded[t] = "green"

checkStopCondition(result) ==
  \/ result.status \in {"error", "dry-run"}
  \/ result.status = "aborted" /\ result.phase \in FATAL_ABORT_PHASES

-----------------------------------------------------------------------------
(* Starting *)

StartAutopilot ==
  /\ phase = "idle"
  /\ phase' = "check"
  /\ mode' = "autopilot"
  /\ indices' = [i \in 1..Smaller(MaxIterations, MAX_ITERATIONS_CAP) |-> NoTicket]
  /\ now' \in Clock
  /\ UNCHANGED <<bypass, queue, batch, partial, paid, graded, index, round, window,
                 executed, crashes>>

(* runLoop up to the pre-flight.  With --resume the verdicts of the        *)
(* checkpoint are taken over for the tickets of this batch.                *)
StartDevLoop(q, m, isBypass, resume) ==
  /\ phase = "idle"
  /\ q # <<>>
  /\ mode' = m /\ bypass' = isBypass
  /\ queue' = q
  /\ IF m # "interactive" /\ ~isBypass
     THEN /\ phase' = "batch"
          /\ indices' = <<>>
          /\ graded' = [t \in Ticket |-> IF resume /\ t \in BatchOf(q)
                                         THEN partial[t] ELSE "none"]
          /\ batch' = q
          /\ paid' = IF resume /\ q = batch THEN paid ELSE {}
     ELSE /\ phase' = "check"
          /\ indices' = Capped(q)
          /\ UNCHANGED <<graded, batch, paid>>
  /\ now' \in Clock
  /\ UNCHANGED <<partial, index, round, window, executed, crashes>>

(* The process of the loop is gone. *)
EndLoop ==
  /\ phase' = "idle"
  /\ mode' = "interactive" /\ bypass' = FALSE
  /\ queue' = <<>> /\ indices' = <<>>
  /\ graded' = NoVerdicts
  /\ index' = 1 /\ round' = 0
  /\ executed' = {}

(* The loop is killed; what it has not written is gone. *)
Crash ==
  /\ phase # "idle"
  /\ crashes < MaxCrashes
  /\ crashes' = crashes + 1
  /\ EndLoop
  /\ UNCHANGED <<partial, batch, paid, now, window>>

-----------------------------------------------------------------------------
(* The pre-flight batch *)

(* A grade comes back; one that fails counts as red.                       *)
Grade(t, colour) ==
  /\ phase = "batch"
  /\ t \in toGrade
  /\ Before(queue, t) \intersect toGrade = {}
  /\ phase' = "save"
  /\ graded' = [graded EXCEPT ![t] = colour]
  /\ paid' = paid \union {t}
  /\ UNCHANGED <<loopVars, partial, index, round, now, window, executed, crashes>>

Checkpoint_atTheEnd ==
  /\ phase = "save"
  /\ phase' = "batch"
  /\ partial' = IF toGrade = {} THEN graded ELSE partial
  /\ UNCHANGED <<loopVars, paid, graded, index, round, now, window, executed, crashes>>

(* writePartialCheckpoint, after every grade: all of the batch so far, in  *)
(* place of whatever checkpoint there was.                                 *)
Checkpoint ==
  /\ phase = "save"
  /\ phase' = "batch"
  /\ partial' = graded
  /\ UNCHANGED <<loopVars, paid, graded, index, round, now, window, executed, crashes>>

(* It cannot be written: the error ends the loop. *)
CheckpointThrows ==
  /\ phase = "save"
  /\ EndLoop
  /\ UNCHANGED <<partial, batch, paid, now, window, crashes>>

greenIds_keepsYellow == IF mode = "strict" THEN Greens \union {t \in Ticket : graded[t] = "yellow"}
                        ELSE InBatch

(* Strict mode runs the green tickets; AFK mode runs all, which are green. *)
greenIds == IF mode = "strict" THEN Greens ELSE InBatch

CanProceed == IF mode = "strict" THEN ~hasReds /\ Greens # {} ELSE allGreen

(* The places in the queue that stay, and what the queue is without the    *)
(* others: its k-th ticket is the one with k places up to its own.         *)
Kept == {i \in 1..Len(queue) : queue[i] \in greenIds}
Filtered ==
  [k \in 1..Cardinality(Kept) |->
     queue[CHOOSE i \in Kept : Cardinality({j \in Kept : j <= i}) = k]]

(* runPreflightIfNeeded says `proceed`: the queue is filtered. *)
Proceed ==
  /\ phase = "batch"
  /\ toGrade = {} /\ CanProceed
  /\ phase' = "check"
  /\ indices' = Capped(Filtered)
  /\ UNCHANGED <<mode, bypass, queue, batch, partial, paid, graded, index, round, now,
                 window, executed, crashes>>

(* It says `halt`: the loop ends with a report. *)
HaltBatch ==
  /\ phase = "batch"
  /\ toGrade = {} /\ ~CanProceed
  /\ EndLoop
  /\ UNCHANGED <<partial, batch, paid, now, window, crashes>>

-----------------------------------------------------------------------------
(* One iteration *)

(* handleQuietHours, once per iteration. *)
QuietCheck ==
  /\ phase = "check"
  /\ index <= Len(indices)
  /\ now' = After(now, getQuietSleepMs(window, now))
  /\ phase' = IF HasGate THEN "gate" ELSE "pipeline"
  /\ round' = 0
  /\ executed' = IF HasGate \/ mode = "autopilot" THEN executed
                 ELSE executed \union {indices[index]}
  /\ UNCHANGED <<loopVars, partial, paid, graded, index, window, crashes>>

(* gradeRound: a green lets the ticket through, a yellow is graded again   *)
(* while there are rounds left.                                            *)
GatePasses ==
  /\ phase = "gate"
  /\ phase' = "pipeline"
  /\ now' \in Clock
  /\ executed' = executed \union {indices[index]}
  /\ UNCHANGED <<loopVars, partial, paid, graded, index, round, window, crashes>>

GateRetries_offByOne ==
  /\ phase = "gate"
  /\ round < MaxRounds
  /\ round' = round + 1
  /\ UNCHANGED <<phase, loopVars, partial, paid, graded, index, now, window, executed, crashes>>

GateRetries ==
  /\ phase = "gate"
  /\ round + 1 < MaxRounds
  /\ round' = round + 1
  /\ UNCHANGED <<phase, loopVars, partial, paid, graded, index, now, window, executed, crashes>>

(* Red, out of rounds, or no grade: an abort at `readiness`, which is not  *)
(* fatal.  The pause between two iterations takes time.                    *)
GateFails ==
  /\ phase = "gate"
  /\ phase' = "check"
  /\ index' = index + 1
  /\ now' \in Clock
  /\ UNCHANGED <<loopVars, partial, paid, graded, round, window, executed, crashes>>

PipelineReturns_retries(result) ==
  /\ phase = "pipeline"
  /\ phase' = "check"
  /\ index' = IF checkStopCondition(result) THEN Len(indices) + 1
              ELSE IF result.status = "aborted" THEN index ELSE index + 1
  /\ now' \in Clock
  /\ UNCHANGED <<loopVars, partial, paid, graded, round, window, executed, crashes>>

(* The pipeline returns.  It has worked on the ticket it was given, or on  *)
(* another one that rework detection came upon first.                      *)
PipelineReturns(result) ==
  /\ phase = "pipeline"
  /\ phase' = "check"
  /\ index' = IF checkStopCondition(result) THEN Len(indices) + 1 ELSE index + 1
  /\ now' \in Clock
  /\ UNCHANGED <<loopVars, partial, paid, graded, round, window, executed, crashes>>

(* No iterations are left, or the last one stopped the loop. *)
Finish ==
  /\ phase = "check"
  /\ index > Len(indices)
  /\ EndLoop
  /\ UNCHANGED <<partial, batch, paid, now, window, crashes>>

-----------------------------------------------------------------------------

Init ==
  /\ phase = "idle"
  /\ mode = "interactive" /\ bypass = FALSE
  /\ queue = <<>> /\ indices = <<>> /\ batch = <<>> /\ paid = {}
  /\ partial = NoVerdicts /\ graded = NoVerdicts
  /\ index = 1 /\ round = 0
  /\ now \in Clock /\ window \in Windows
  /\ executed = {}
  /\ crashes = 0

Start ==
  \/ StartAutopilot
  \/ \E q \in Queues, m \in Mode \ {"autopilot"}, isBypass, resume \in BOOLEAN :
       StartDevLoop(q, m, isBypass, resume)

(* What the loop's own code does, a sleep included. *)
OwnStep ==
  \/ Checkpoint \/ CheckpointThrows \/ Proceed \/ HaltBatch \/ QuietCheck \/ Finish

(* What comes back to it: grades, and results of the pipeline. *)
Answer ==
  \/ \E t \in Ticket, colour \in Colour : Grade(t, colour)
  \/ GatePasses \/ GateRetries \/ GateFails
  \/ \E result \in Result : PipelineReturns(result)

Next == Start \/ OwnStep \/ Answer \/ Crash

Spec == Init /\ [][Next]_vars

(* The loop's own steps end, and a sleep.  A grade, or a run of the        *)
(* pipeline, need not: Claude is called without a time limit.  No one is   *)
(* obliged to start another loop.                                          *)
FairSpec == Spec /\ WF_vars(OwnStep)

-----------------------------------------------------------------------------
(* Properties *)

(***************************************************************************)
(* No iteration starts in quiet hours, windows past midnight and equal     *)
(* ends included: the one look at the clock that handleQuietHours takes,   *)
(* and the sleep computed from it, are enough.                             *)
(***************************************************************************)
QuietRespected ==
  [][phase = "check" /\ phase' \in {"gate", "pipeline"} => ~InQuietHours(window, now')]_vars

(***************************************************************************)
(* An AFK dev loop hands the pipeline only tickets that its own pre-flight *)
(* report shows as green, and nothing at all when strict mode finds a red: *)
(* through duplicates, truncation, resumed checkpoints and the gate.       *)
(***************************************************************************)
OnlyGreenRuns ==
  mode # "interactive" /\ HasGate =>
    /\ executed \subseteq Greens
    /\ mode = "strict" /\ hasReds => executed = {}

(***************************************************************************)
(* Killing a loop while it grades costs one grade at most, and so does     *)
(* killing it again and again: of all the grades that have come back for   *)
(* one batch, over a run and those that resumed it, one at most is not in  *)
(* the checkpoint that --resume reads.                                     *)
(***************************************************************************)
OneGradeAtStake == Cardinality({t \in paid : partial[t] = "none"}) <= 1

(***************************************************************************)
(* Every loop ends whose calls of Claude and of the pipeline do: whatever  *)
(* the grades, results and caps, nothing is asked for ever again.          *)
(***************************************************************************)
LoopEnds ==
  []<>(phase \notin {"batch", "gate", "pipeline"}) => (phase # "idle" ~> phase = "idle")

=============================================================================
