------------------------------- MODULE Tools -------------------------------
(***************************************************************************)
(* What surrounds the runs on one machine: the installers, the session's   *)
(* records and report, the batch over plan files, the hooks, and what the  *)
(* design canvas keeps.  They share no state: a behaviour is one of any of *)
(* them.                                                                   *)
(***************************************************************************)
EXTENDS Naturals, Sequences

CONSTANTS
  Name, MaxVersion, MaxEdits,                     \* Installer
  Ships, Carries, Owner, Roles, Fingerprint,
  Ticket, Ambiguous, PerMinute, FirstTime,        \* SessionLedger
  MaxTime, MaxRuns,
  MaxPlan, Other, MaxRework,                      \* ImplementBatch
  Hook, DEBOUNCE_CALLS, MaxSilent,                \* SessionHooks
  MaxRows,                                        \* DesignLogs
  Id, MaxRound,                                   \* DesignVariants
  Tag, MaxSiblings, Pages, VariantId, MaxPosts    \* CanvasPick

VARIABLES
  tool,
  pc, told,
  disk, manifest, patches, settings, isGlobal, who, version, roles,
  modified, todo, read,
  edits, owed, unrecorded, mistaken,
  now, progress, costs, quality, tmp, run, loop, report, counted,
  begun, overlapped,
  marker, files, delivered, review, reworks, lock, isDryRun, mode, queue,
  skipped, results, halted, ctx,
  bridge, time, debounce, flag, versions, hook, silent, late, lost, drifts,
  kind, rows, ends, said, acked, glued,
  round, generated, writing, file, written, accepting, marking, exhausted,
  tags, inner, slots, frames, handled, picking, modes, posts, active

ofInstall == <<disk, manifest, patches, settings, isGlobal, who,
               version, roles, modified, todo, read, edits, owed,
               unrecorded, mistaken>>
ofLedger == <<now, progress, costs, quality, tmp, run, loop,
              report, counted, begun, overlapped>>
ofBatch == <<marker, files, delivered, review, reworks, lock, isDryRun,
             mode, queue, skipped, results, halted, ctx>>
ofHooks == <<bridge, time, debounce, flag, versions, hook, silent, late,
             lost, drifts>>
ofLogs == <<kind, rows, ends, said, acked, glued>>
ofVariants == <<round, generated, writing, file, written, accepting, marking,
                exhausted>>
ofPick == <<tags, inner, slots, frames, handled, picking, modes, posts, active>>
ofDesign == <<ofLogs, ofVariants, ofPick>>
vars == <<tool, pc, told, ofInstall, ofLedger, ofBatch, ofHooks, ofDesign>>

Install == INSTANCE Installer
Ledger == INSTANCE SessionLedger
Batch == INSTANCE ImplementBatch
Hooks == INSTANCE SessionHooks
Logs == INSTANCE DesignLogs
Variants == INSTANCE DesignVariants WITH marker <- marking
Pick == INSTANCE CanvasPick

ASSUME ToolBounds ==
  /\ Install!PackageAssumption /\ Ledger!LedgerBounds
  /\ Batch!BatchBounds /\ Batch!OthersAreNotPlans /\ Hooks!HookBounds
  /\ Logs!LogBounds /\ Variants!RoundBound /\ Pick!PickBounds

NoInstall ==
  /\ disk = 0 /\ manifest = 0 /\ patches = 0 /\ settings = 0
  /\ isGlobal = 0 /\ who = 0 /\ version = 0 /\ roles = 0
  /\ modified = 0 /\ todo = 0 /\ read = 0 /\ edits = 0
  /\ owed = 0 /\ unrecorded = 0 /\ mistaken = 0
NoLedger ==
  /\ now = 0 /\ progress = 0 /\ costs = 0 /\ quality = 0
  /\ tmp = 0 /\ run = 0 /\ loop = 0 /\ report = 0 /\ counted = 0
  /\ begun = 0 /\ overlapped = 0
NoBatch ==
  /\ marker = 0 /\ files = 0 /\ delivered = 0 /\ review = 0
  /\ reworks = 0 /\ lock = 0 /\ isDryRun = 0 /\ mode = 0 /\ queue = 0 /\ skipped = 0
  /\ results = 0 /\ halted = 0 /\ ctx = 0
NoHooks ==
  /\ bridge = 0 /\ time = 0 /\ debounce = 0 /\ flag = 0 /\ versions = 0
  /\ hook = 0 /\ silent = 0 /\ late = 0 /\ lost = 0 /\ drifts = 0
NoLogs ==
  /\ kind = 0 /\ rows = 0 /\ ends = 0 /\ said = 0 /\ acked = 0 /\ glued = 0
NoVariants ==
  /\ round = 0 /\ generated = 0 /\ writing = 0 /\ file = 0 /\ written = 0 /\ accepting = 0
  /\ marking = 0 /\ exhausted = 0
NoPick ==
  /\ tags = 0 /\ inner = 0 /\ slots = 0 /\ frames = 0 /\ handled = 0
  /\ picking = 0 /\ modes = 0 /\ posts = 0 /\ active = 0
NoDesign == NoLogs /\ NoVariants /\ NoPick

Init ==
  \/ /\ tool = "install" /\ Install!Init /\ told = 0
     /\ NoLedger /\ NoBatch /\ NoHooks /\ NoDesign
  \/ /\ tool = "ledger" /\ Ledger!Init /\ pc = 0 /\ told = 0
     /\ NoInstall /\ NoBatch /\ NoHooks /\ NoDesign
  \/ /\ tool = "batch" /\ Batch!Init
     /\ NoInstall /\ NoLedger /\ NoHooks /\ NoDesign
  \/ /\ tool = "hooks" /\ Hooks!Init /\ pc = 0
     /\ NoInstall /\ NoLedger /\ NoBatch /\ NoDesign
  \/ /\ pc = 0 /\ told = 0
     /\ NoInstall /\ NoLedger /\ NoBatch /\ NoHooks
     /\ \/ tool = "logs" /\ Logs!Init /\ NoVariants /\ NoPick
        \/ tool = "variants" /\ Variants!Init /\ NoLogs /\ NoPick
        \/ tool = "pick" /\ Pick!Init /\ NoLogs /\ NoVariants

Next ==
  /\ UNCHANGED tool
  /\ \/ /\ tool = "install" /\ Install!Next
        /\ UNCHANGED <<told, ofLedger, ofBatch, ofHooks, ofDesign>>
     \/ /\ tool = "ledger" /\ Ledger!Next
        /\ UNCHANGED <<pc, told, ofInstall, ofBatch, ofHooks, ofDesign>>
     \/ /\ tool = "batch" /\ Batch!Next
        /\ UNCHANGED <<ofInstall, ofLedger, ofHooks, ofDesign>>
     \/ /\ tool = "hooks" /\ Hooks!Next
        /\ UNCHANGED <<pc, ofInstall, ofLedger, ofBatch, ofDesign>>
     \/ /\ UNCHANGED <<pc, told, ofInstall, ofLedger, ofBatch, ofHooks>>
        /\ \/ tool = "logs" /\ Logs!Next /\ UNCHANGED <<ofVariants, ofPick>>
           \/ tool = "variants" /\ Variants!Next /\ UNCHANGED <<ofLogs, ofPick>>
           \/ tool = "pick" /\ Pick!Next /\ UNCHANGED <<ofLogs, ofVariants>>

Spec == Init /\ [][Next]_vars

-----------------------------------------------------------------------------
(* The state of the tool at hand has its type.                             *)
TypeOK ==
  CASE tool = "install" -> Install!TypeOK
    [] tool = "ledger" -> Ledger!TypeOK
    [] tool = "batch" -> Batch!TypeOK
    [] tool = "hooks" -> Hooks!TypeOK
    [] tool = "logs" -> Logs!TypeOK
    [] tool = "variants" -> Variants!TypeOK
    [] tool = "pick" -> Pick!TypeOK

(* The installers keep an edit of an installed file, unless a later update *)
(* takes for one what a half-finished one or another package left in its   *)
(* place, and backs that up over it (manifest.ts).                         *)
EditsSurvive == tool = "install" => Install!EditsSurvive

(* The report of a session has the session's own deliveries.               *)
OwnWorkReported == tool = "ledger" => Ledger!OwnWorkReported

(* quality.json keeps what was recorded, unless two sessions overlap.      *)
QualityKept == tool = "ledger" => Ledger!QualityKept

(* The summary of `implement --from <directory> --afk` is true.            *)
BatchSummaryHolds == tool = "batch" => Batch!BatchSummaryHolds

(* A breach of the context or time limit is not passed over in silence.    *)
WarnedInTime == tool = "hooks" => Hooks!WarnedInTime

(* What the design session has stored is what it reads back (storage).     *)
StoredIsReadBack ==
  /\ tool = "logs" => Logs!LogReadBack
  /\ tool = "variants" => Variants!BodiesKept

(* The anchor of a comment finds the element that was picked, or misses it *)
(* for an earlier one of the same name where their numbers differ          *)
(* (overlay).                                                              *)
PickResolves == tool = "pick" => Pick!PickResolves

=============================================================================
