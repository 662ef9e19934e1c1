--------------------------- MODULE ImplementBatch ---------------------------
(***************************************************************************)
(* implement --from: one plan file, or with --afk every approved plan file *)
(* of a directory, in order, through the whole pipeline with a board that  *)
(* does nothing.  Only the ticket comes from the plan: resuming what an    *)
(* earlier run left behind and looking for reviews are those of every run. *)
(***************************************************************************)
EXTENDS Naturals, Sequences, FiniteSets

CONSTANTS
  MaxPlan,     \* bound: plan files of the directory, in their natural order
  Other,       \* board tickets that earlier runs have delivered
  MaxRework    \* CLANCY_MAX_REWORK (code: 3)

BatchBounds == MaxPlan \in Nat /\ MaxRework \in Nat

Plan == 1..MaxPlan
Key == Plan \union Other
Nobody == 0
NoKey == MaxPlan + 1   \* a file without the header of a plan, or none at all
OthersAreNotPlans ==
  Other \intersect (Plan \union {Nobody, NoKey}) = {}

VARIABLES
  marker,      \* plans with an .approved file beside them
  files,       \* each plan file: the key it has, or why it has none
  delivered,   \* keys whose last line in progress.txt is a delivery
  review,      \* those of them with comments since that line
  reworks,     \* REWORK lines of each key
  lock,        \* lock.json: nobody's, a live process's or a dead one's
  isDryRun,
  mode,        \* one plan, or the batch
  queue,       \* the plan, or the approved plans of the batch
  skipped,     \* listed, not approved
  results,     \* results of the plans so far
  halted,      \* the last of them stopped the batch
  pc,          \* step of the batch or of the pipeline it is in
  ctx,         \* RunContext: ticket, feedback, and a git platform's token
  told         \* told: the plans that had a session, and the keys it was for

vars == <<marker, files, delivered, review, reworks, lock, isDryRun,
          mode, queue, skipped, results, halted, pc, ctx, told>>
plans == <<marker, files>>
tickets == <<delivered, review, reworks>>
batch == <<isDryRun, mode, queue, skipped>>
outcome == <<results, halted>>

Result == {"completed", "resumed", "dry-run", "aborted", "error"}
PC == {"idle", "next", "preflight", "rework", "ticket", "dryRun", "feasibility", "branch",
       "invoke", "deliver", "report"}
NoContext == [ticket |-> Nobody, rework |-> Nobody, token |-> FALSE]
Lock == {"none", "live", "dead"}

TypeOK ==
  /\ marker \subseteq Plan
  /\ files \in [Plan -> Key \union {NoKey}]
  /\ delivered \subseteq Key /\ review \subseteq delivered
  /\ reworks \in [Key -> Nat] /\ lock \in Lock /\ isDryRun \in BOOLEAN
  /\ mode \in {"single", "batch"} /\ queue \in Seq(Plan) /\ skipped \subseteq Plan
  /\ results \in Seq(Result) /\ Len(results) <= Len(queue)
  /\ halted \in BOOLEAN /\ pc \in PC
  /\ ctx \in [ticket : Key \union {Nobody}, rework : Key \union {Nobody}, token : BOOLEAN]
  /\ told \subseteq Plan \X Key

Init ==
  /\ marker \in SUBSET Plan
  /\ files \in {f \in [Plan -> Key] : \A p \in Plan : f[p] \in {p} \union Other}
  /\ delivered = Other /\ review = {} /\ reworks = [k \in Key |-> 0]
  /\ lock = "none" /\ isDryRun = FALSE
  /\ mode = "batch" /\ queue = <<>> /\ skipped = {} /\ results = <<>> /\ halted = FALSE
  /\ pc = "idle" /\ ctx = NoContext /\ told = {}

-----------------------------------------------------------------------------
(* main *)

Begin(kind, chosen) ==
  /\ pc = "idle"
  /\ mode' = kind /\ queue' = chosen
  /\ pc' = IF chosen = <<>> THEN "report" ELSE "next"
  /\ isDryRun' \in BOOLEAN   \* --dry-run
  /\ UNCHANGED <<plans, tickets, lock, outcome, ctx, told>>

(* In their natural order.  Whether a plan was edited after its approval   *)
(* is not looked at.                                                       *)
InOrder(chosen) == \A i, j \in DOMAIN chosen : i < j => chosen[i] < chosen[j]

listPlanFiles ==
  /\ \E chosen \in [1..Cardinality(marker) -> marker] :
       InOrder(chosen) /\ Begin("batch", chosen)
  /\ skipped' = Plan \ marker

(* Of one plan, not even whether it is approved. *)
runImplement(p) == Begin("single", <<p>>) /\ skipped' = {}

(* A directory without --afk is refused. *)
main(isDirectory, isAfk) ==
  \/ isDirectory /\ isAfk /\ listPlanFiles
  \/ ~isDirectory /\ \E p \in Plan : runImplement(p)

-----------------------------------------------------------------------------
(* runImplementBatch *)

batchHalt_onErrorsOnly(result) == result = "error"

batchHalt(result) == result \notin {"completed", "resumed", "dry-run"}

(* runOnePlan returns; a run of the pipeline has removed its own lock. *)
Return(result) ==
  /\ results' = Append(results, result)
  /\ halted' = batchHalt(result)
  /\ pc' = IF batchHalt(result) \/ Len(results') = Len(queue) THEN "report" ELSE "next"
  /\ ctx' = NoContext

plan == queue[Len(results) + 1]

(* The process ends, and what it knew with it. *)
Exit ==
  /\ pc' = "idle" /\ mode' = "batch" /\ isDryRun' = FALSE /\ queue' = <<>> /\ skipped' = {}
  /\ results' = <<>> /\ halted' = FALSE /\ ctx' = NoContext /\ told' = {}
  /\ UNCHANGED <<plans, tickets>>

Reported(kind) == pc = "report" /\ mode = kind /\ Exit /\ UNCHANGED lock

reportOutcome == Reported("batch")
displayResult == Reported("single")

processed == Len(results) - IF halted THEN 1 ELSE 0
remaining == Len(queue) - Len(results)

-----------------------------------------------------------------------------
(* runPipeline on one plan *)

(* A lock whose process is dead is removed and its work, if it has any and *)
(* it can be pushed, delivered: that was this plan's run.                  *)
lockCheck ==
  /\ pc = "next"
  /\ \/ lock = "live" /\ Return("aborted") /\ UNCHANGED lock
     \/ lock = "dead" /\ Return("resumed") /\ lock' = "none"
     \/ lock # "live" /\ pc' = "preflight" /\ lock' = "none" /\ UNCHANGED <<outcome, ctx>>
  /\ UNCHANGED <<plans, tickets, batch, told>>

(* A git repository is asked for and nothing else.  The board answers      *)
(* nothing and accepts everything; the tokens of the git platforms are     *)
(* taken over from .env, so that reviews are found as on any run.          *)
runLocalPreflight ==
  /\ pc = "preflight" /\ pc' = "rework"
  /\ \E b \in BOOLEAN : ctx' = [ctx EXCEPT !.token = b]
  /\ UNCHANGED <<plans, tickets, lock, batch, outcome, told>>

preflightFails ==
  /\ pc = "preflight" /\ Return("aborted")
  /\ UNCHANGED <<plans, tickets, lock, batch, told>>

reworkDetection ==
  /\ pc = "rework"
  /\ \/ /\ ctx.token
        /\ \E k \in review : ctx' = [ctx EXCEPT !.ticket = k, !.rework = k]
     \/ UNCHANGED ctx   \* none, or an error
  /\ pc' = "ticket"
  /\ UNCHANGED <<plans, tickets, lock, batch, outcome, told>>

(* The header names a board ticket, or the file's own name is the key.  *)
parsePlanFile(p) ==
  IF files[p] \in Key THEN [ok |-> TRUE, key |-> files[p]] ELSE [ok |-> FALSE, key |-> Nobody]

(* localTicketSeed puts the plan's ticket in the place of the one under    *)
(* review; that the run is a rework, and of what, stays.                   *)
localTicketSeed == [ctx EXCEPT !.ticket = parsePlanFile(plan).key]

(* A line that says that the run failed makes the ticket's pull request no *)
(* candidate for rework any more.                                          *)
Dropped(k) == delivered' = delivered \ {k} /\ review' = review \ {k}

(* The guard counts the reworks of the plan's key, whoever was reviewed. *)
applyMaxReworkGuard(k) == ctx.rework # Nobody /\ reworks[k] >= MaxRework

(* A file without the header of a plan is refused, one that is gone throws. *)
runTicketFetch ==
  LET k == parsePlanFile(plan).key IN
  /\ pc = "ticket"
  /\ \/ /\ parsePlanFile(plan).ok /\ ~applyMaxReworkGuard(k)
        /\ ctx' = localTicketSeed /\ pc' = "dryRun" /\ UNCHANGED <<tickets, outcome>>
     \/ /\ parsePlanFile(plan).ok /\ applyMaxReworkGuard(k)
        /\ Return("aborted") /\ Dropped(k) /\ UNCHANGED reworks
     \/ /\ ~parsePlanFile(plan).ok /\ (Return("aborted") \/ Return("error"))
        /\ UNCHANGED tickets
  /\ UNCHANGED <<plans, lock, batch, told>>

dryRun ==
  /\ pc = "dryRun"
  /\ IF isDryRun THEN Return("dry-run")
     ELSE pc' = "feasibility" /\ UNCHANGED <<outcome, ctx>>
  /\ UNCHANGED <<plans, tickets, lock, batch, told>>

Goto(from, to) ==
  /\ pc = from /\ pc' = to
  /\ UNCHANGED <<plans, tickets, batch, outcome, ctx, told>>

feasibility == Goto("feasibility", "branch") /\ UNCHANGED lock

(* branchSetup writes the lock, over another one if there is one. *)
branchSetup == Goto("branch", "invoke") /\ lock' = "live"

PhaseFails ==
  /\ pc \in {"feasibility", "branch", "invoke", "deliver"}
  /\ Return("aborted") \/ Return("error")
  /\ \/ pc \in {"feasibility", "deliver"} /\ Dropped(ctx.ticket)
     \/ UNCHANGED <<delivered, review>>
  /\ lock' = IF pc \in {"invoke", "deliver"} THEN "none" ELSE lock
  /\ UNCHANGED <<plans, reworks, batch, told>>

invoke ==
  /\ pc = "invoke" /\ pc' = "deliver"
  /\ told' = told \union {<<plan, ctx.ticket>>}
  /\ UNCHANGED <<plans, tickets, lock, batch, outcome, ctx>>

(* The line of a rework is logged for the plan's key: the review it was    *)
(* started by is found again unless it was the plan's own, or GitLab's,    *)
(* whose discussions are resolved.                                         *)
deliver ==
  /\ pc = "deliver"
  /\ delivered' = delivered \union {ctx.ticket}
  /\ review' \in {review \ {ctx.ticket}, review \ {ctx.ticket, ctx.rework}}
  /\ reworks' = IF ctx.rework = Nobody THEN reworks
                ELSE [reworks EXCEPT ![ctx.ticket] = @ + 1]
  /\ lock' = "none" /\ Return("completed")
  /\ UNCHANGED <<plans, batch, told>>

(* Killed: the lock stays from branch setup on. *)
Crash ==
  /\ pc \notin {"idle", "report"} /\ Exit
  /\ lock' = IF pc \in {"invoke", "deliver"} THEN "dead" ELSE lock

-----------------------------------------------------------------------------
(* Others: a reviewer, the planner, another session of the project.  Each  *)
(* acts before the step that looks: acting earlier makes no difference.    *)

Review(k) ==
  /\ pc = "rework" /\ k \in delivered \ review /\ review' = review \union {k}
  /\ UNCHANGED <<plans, delivered, reworks, lock, batch, outcome, pc, ctx, told>>

Approve(p) ==
  /\ pc \in {"idle", "ticket"} /\ p \notin marker /\ marker' = marker \union {p}
  /\ files' = IF files[p] \in Key THEN files ELSE [files EXCEPT ![p] = p]
  /\ UNCHANGED <<tickets, lock, batch, outcome, pc, ctx, told>>

(* A plan is moved away or loses its header; that it is only edited, after *)
(* its approval, makes no difference to the batch.                         *)
BreakPlan(p) ==
  /\ pc = "ticket" /\ files[p] \in Key /\ files' = [files EXCEPT ![p] = NoKey]
  /\ UNCHANGED <<marker, tickets, lock, batch, outcome, pc, ctx, told>>

OtherSession ==
  /\ pc = "next"
  /\ \/ lock = "none" /\ lock' = "live"
     \/ lock = "live" /\ lock' \in {"none", "dead"}
  /\ UNCHANGED <<plans, tickets, batch, outcome, pc, ctx, told>>

-----------------------------------------------------------------------------
Next ==
  \/ \E isDirectory, isAfk \in BOOLEAN : main(isDirectory, isAfk)
  \/ reportOutcome \/ displayResult
  \/ lockCheck \/ runLocalPreflight \/ preflightFails \/ reworkDetection \/ runTicketFetch
  \/ dryRun \/ feasibility \/ branchSetup \/ PhaseFails \/ invoke \/ deliver \/ Crash
  \/ \E k \in Key : Review(k)
  \/ \E p \in Plan : Approve(p) \/ BreakPlan(p)
  \/ OtherSession

Spec == Init /\ [][Next]_vars

-----------------------------------------------------------------------------
Had(result) == {queue[i] : i \in {j \in DOMAIN results : results[j] = result}}
Worked == {s[1] : s \in told}

Asked == IF mode = "batch" THEN MaxPlan ELSE 1

(* What is shown at the end is true: a plan that counts as implemented has *)
(* had its session and its key is delivered, unless its turn went to the   *)
(* work of a crashed run, or it was a dry run; a later plan of the same    *)
(* board ticket that fails stops the batch and takes the delivery from     *)
(* sight.  The batch stopped at the first plan that failed, and no plan    *)
(* that was skipped or remains was touched.                                *)
BatchSummaryHolds ==
  pc = "report" =>
    /\ processed = Cardinality(Had("completed") \union Had("resumed") \union Had("dry-run"))
    /\ processed + remaining + Cardinality(skipped) = Asked - IF halted THEN 1 ELSE 0
    /\ Had("completed") \subseteq Worked
    /\ \A s \in told : s[1] \in Had("completed") =>
         s[2] \in delivered \/ (halted /\ s[2] \in Other)
    /\ Worked \intersect (Had("resumed") \union Had("dry-run")) = {}
    /\ Worked \intersect skipped = {}
    /\ \A i \in DOMAIN queue : i > Len(results) => queue[i] \notin Worked
    /\ isDryRun => Worked = {}

=============================================================================
