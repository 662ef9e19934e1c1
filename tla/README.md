# Clancy in TLA+

Clancy takes tickets from a board, lets a Claude session implement each one on
a git branch of its own, and delivers the branch as a pull request. It runs
unattended for hours, in one process after another, over state that outlives
every process: a lock file, git branches, a progress log, pull requests, the
board. This directory models that system in TLA+, checks it with TLC and proves
the properties that matter most with TLAPS. Paths below are relative to
`src/packages/` unless they start with `src/`.

## 1. The system

| Component | Code | State it keeps | Operations | Hard because |
|---|---|---|---|---|
| Session lock | `dev/src/lifecycle/lock.ts`, `pipeline/phases/lock-check.ts` | `.clancy/lock.json` | check, reclaim a stale one, write after branch setup, delete in `finally` | several processes, late write, pid reuse, deaths |
| Pipeline runner | `dev/src/pipeline/run-pipeline.ts`, `context.ts` | `RunContext` (one run) | sixteen phases in order, each with its aborts | a crash between any two phases; the world keeps what the phases did |
| Crash resume | `dev/src/lifecycle/resume/resume.ts` | branches, log | detect, commit, push, log | the lock is deleted before it starts |
| PR retry | `dev/src/pipeline/phases/pr-retry.ts` | log, pull requests | retry each PUSHED entry | concurrent answers, repeated attempts |
| Rework | `dev/src/lifecycle/rework/rework.ts`, `rework-detection.ts`, `ticket-fetch.ts` | log, review state | find a ticket under review with feedback; bound its cycles | feedback filtered by the age of a log entry |
| Branch setup, git | `dev/src/pipeline/phases/branch-setup.ts`, `core/src/shared/git-ops.ts` | HEAD, working tree, branches | fetch, checkout, `checkout -B`, push | what an earlier run left behind |
| Delivery | `dev/src/lifecycle/deliver-ticket/`, `outcome.ts`, `pipeline/phases/deliver-phase.ts` | remote, pull requests, log, board | push, create a PR, log, unlabel | order of effects, partial failure |
| Progress log | `dev/src/lifecycle/progress.ts`, `core/src/types/progress.ts` | `.clancy/progress.txt` | append; last entry of a ticket; entries with a status | read by resume, retry, rework and the report as the truth |
| Work queue | `dev/src/queue.ts`, `stop-condition.ts` | loop index | iterate with cap, quiet hours, stop condition | windows past midnight, termination |
| Dev loop, autopilot | `dev/src/entrypoints/`, `execute/single.ts`, `terminal/src/entrypoints/autopilot.ts` | queue, verdicts, partial report | fetch, grade, filter, gate, run | duplicates, truncation, `--resume` of a killed batch |
| Epic delivery | `dev/src/lifecycle/epic.ts`, `deliver-epic/`, `pipeline/phases/branch-setup.ts`, `epic-completion.ts` | epic branches, parents in the log | ensure the epic branch, cut a child from it, deliver the child to it, deliver the epic to the base | decisions taken from the board at one time and from the log at another |
| Pull-request platforms | `dev/src/lifecycle/pull-request/` (five) | pull request, comments, threads | create, find, read reviews and comments, reply, resolve | comments selected by the age of a log entry, failed requests, pages |
| Boards | `core/src/board/` (six), `core/src/shared/label-helpers.ts` | labels, statuses, caches | fetch the queue, blockers, children; transition; label | whole-list writes, ids that outlive their label, pages cut before filters |
| HTTP | `core/src/shared/http/`, `cache.ts` | caches | retry with backoff | a request applied twice |
| Session report, quality, cost | `terminal/src/runner/session-report.ts`, `dev/src/lifecycle/quality/`, `cost/` | `costs.log`, `quality.json` | record, replace, report | two clocks, one temporary file |
| Implement runner | `terminal/src/runner/implement/`, `entrypoints/implement.ts` | approval markers, the batch | one plan, or every approved plan of a directory | the phases of every run in front of a plan |
| Claude Code hooks | `terminal/src/hooks/` | debounce, bridge and flag files | warn, guard, report | hooks of parallel tool calls |
| Installers | `terminal/src/installer/`, `dev`, `brief`, `plan` | commands, workflows, manifests, `settings.json`, `local-patches` | install, update, back up, merge | edits of the user between and during updates, failure half-way |
| Design canvas lock | `design/src/canvas/server/lock.ts`, `createServer.ts` | `.clancy/design/.lock` | exclusive create, probe, take over a stale one, release by signal and by close | several processes, check and removal in two steps |
| Design storage, generation | `design/src/storage/`, `generate/` | variant bodies, approval marker, JSON-lines logs | generate a round, write once, approve, append, read back | overlapping rounds, torn appends |
| Design canvas | rest of `design/src/canvas/` | frames, pick mode | pick an element, serve | messages between frames |
| Artifacts | `dev/src/artifacts/` | JSON and Markdown files | checkpoint, rotate, write | a loop killed while grading |
| Prompts, schemas | `brief`, `plan`, `scan`, `chief-clancy`, schemas | none | Markdown for a model, shapes of data | nothing to model |

How they interact. A *session* is a process: `dev`, the dev loop or autopilot.
The loops (WorkLoop) call the pipeline (Pipeline) once per iteration. A run
begins by reading the lock; if it finds a dead session's lock it deletes it and
tries to resume that session's branch. It then retries pull requests that could
not be created before, looks for review feedback, fetches a ticket, checks it
is feasible, sets up the branch, writes the lock, moves the ticket on the
board, runs Claude, pushes, creates the pull request, appends to the log and
removes the ticket's label. The next run reads all that back. Reviewers and the
operator act at any time. The implement runner puts the same phases behind each
plan file of a directory, with a board that does nothing. Hooks run inside the
Claude session, the installers put them there, and the design canvas is a
server of its own that shares only the `.clancy` directory.

What makes each part correct:

- *lock*: two live runs are not past branch setup together, a run's lock is
  there while it works and only it removes it, and no lock bars a project for good;
- *resume*: a lock leads to a branch, and the work on it is not lost;
- *delivery and log*: the log never says more than has happened, and what was
  pushed without a pull request gets one;
- *rework*: it happens a bounded number of times, a comment is lost only in the
  ways that are known, and none is worked on twice;
- *epics*: no sibling's work reaches the base branch before the epic does, and
  a child starts from everything that was merged;
- *boards*: the last edit of a label stands, an empty queue means that nothing
  is in reach, an epic said to be complete has no open child;
- *records*: report, quality counters and batch summary agree with what happened;
- *installers*: an edit of the user is on disk or backed up, except after the one
  sequence of updates that is a finding;
- *hooks*: no threshold is passed in silence;
- *design*: what was stored is read back, an anchor finds what was picked, or
  nothing of another kind;
- *branches*: Claude's commits land on the ticket's own branch;
- *loops*: they end, respect quiet hours, run only what was graded green, and kills
  cost one grade at most.

## 2. Modules

| Module | What it is |
|---|---|
| `SessionLock` | any number of processes over one lock file |
| `DeliveryLedger` | abstract: what `progress.txt` promises about the world |
| `Pipeline` | one pipeline run after another over git, log, pull requests and board; refines `DeliveryLedger` |
| `Epics` | the children of one epic: epic branch, targets, parents in the log, completion |
| `PullRequests` | one ticket's pull request and its comments on five platforms, run after run |
| `BoardLabels`, `BoardQueue`, `BoardAnswers` | the six boards: label edits with caches; the queue; blockers, children, transitions |
| `QuietHours` | the quiet-hours arithmetic, no state |
| `WorkLoop` | autopilot and the dev loop around the pipeline; extends `QuietHours` |
| `ImplementBatch` | `implement --from`, one plan or a directory, through the pipeline |
| `SessionLedger` | progress and cost lines, `quality.json`, and the session report made of them |
| `SessionHooks` | the context monitor and drift detector under parallel tool calls |
| `Installer` | four installers over one `.claude` directory |
| `CanvasLock` | any number of design canvas servers over one lock file |
| `DesignVariants`, `DesignLogs`, `CanvasPick` | bodies and approval; the append-only logs; picking an element |
| `Services` | a behaviour of any of the three board modules or `PullRequests` |
| `Tools` | a behaviour of any of `Installer`, `SessionLedger`, `ImplementBatch`, `SessionHooks`, `DesignLogs`, `DesignVariants`, `CanvasPick` |
| `MCPipeline`, `MCWorkLoop`, `MCCanvasLock`, `MCEpics`, `MCServices`, `MCTools`, `MCInstaller` | symmetry, queues, pages and versions for TLC |
| `SessionLock_proofs`, `Pipeline_proofs`, `WorkLoop_proofs`, `CanvasLock_proofs`, `Epics_proofs`, `DesignVariants_proofs`, `Services_proofs`, `Tools_proofs` | theorems |

`Services` and `Tools` put modules side by side that share no state: the
first variable says which one a behaviour is of, and every property is that of
one module.

`PROJECT.json` maps every definition to the lines it models. An operator named
`X_y` that stands before `X` is a mutated form of `X`: a plausible bug that a
property is shown to catch.

### SessionLock

`pc[s]` is where process `s` is, `owner` its `ctx.lockOwner`, `lockFile` the
file: absent, unparsable (`Garbled`: created and not yet filled), or a lock with
a pid and whether its `startedAt` is over 24 hours old. Each file operation is
one step. `CheckFindsNone`, `CheckAborts`, `CheckFindsStale` are the outcomes of
`lockCheck`; `Reclaim`/`ReclaimFails` its deletion (a throwing deletion ends the
process: `lockCheck` is outside `runPipeline`'s `try`); `BeginWriteLock`,
`EndWriteLock`, `WriteLockFails` are `writeLockSafe`; `EndWorking` is
`cleanupLock`. Processes start, die at any point, and their pids are reused.

`exposed` is a history variable: it becomes TRUE when the protocol leaves its
protection (a session passes its check while another is between check and
write; a lock write fails; a live run's lock turns 24 hours old).
`DoubleRunNeedsExposure` says that nothing else leads to a double run.
`LockPreventsDoubleRun` is what the file is there for, said of runs that have
each written their lock without an error; it does not hold of the code (a
finding): a second session whose check comes before the first one's lock can be
read writes its own lock over it, and both work.

### Pipeline and DeliveryLedger

`pc` is the phase of the run under way, `idle` between runs. `ticket`,
`isRework`, `lockOwner`, `original` are fields of `RunContext`. A branch is the
set of commits it holds: `Trunk` and numbered pieces of work; `{}` is no branch.
`dirty` is the working tree's uncommitted work, which follows HEAD through
checkouts or makes git refuse them. `latest`, `order`, `reworks` are what
readers extract from `progress.txt`. `feedback` is what `checkPrReviewState`
would see: comments `fresh` or `stale` relative to the ticket's last log entry
(the code's `since` filter), those a rework run has `taken`, or a formal change
request, which does not age. `Crash` may strike anywhere and drops the context
and nothing else. Phases map one to one to actions, grouped as `Resuming`,
`Retrying`, `Choosing`, `Working`, `Delivering`.

`DeliveryLedger` gives every ticket a level in the world (nothing, pushed, has
had a pull request) and a level in the log, lets the world move up only, and
lets the log record at most what is true. `ImplementsLedger` is the refinement:
`TruthOf` reads the remote and the pull requests, `ClaimOf` a status.
`PR_CREATED` claims a pull request only where the platform is recognised from
the URL: elsewhere `handleUnsupportedRemote` writes it to say "do not retry", and
the ticket is left to the operator. `host` says what `origin` is, one of `Hosts`
and the same in all runs.

Simplifications, all in `Pipeline`: runs are serial (SessionLock has the
overlapping ones); tickets have no parent (Epics has those with one); only Clancy
pushes to ticket branches, nobody deletes them on the remote, and Claude stays
on its branch; a remote-tracking ref equals the remote; `--from` is in
ImplementBatch; quality, cost, notification and verify-attempt files are best-effort
records no phase reads; retries still in flight when one append throws finish
before the next phase; while the process of a run lives whose lock could not be
deleted, its further runs abort at the check, with no effect; an error deleting
a stale lock ends the process (in SessionLock).

### QuietHours and WorkLoop

`QuietHours` transcribes `isInQuietWindow`, `minutesUntilEnd` and
`getQuietSleepMs` over a clock of minutes and milliseconds; `InQuietHours` is
the independent, circular definition they are held against. `WorkLoop` has the
loop's `phase`, the fetched `queue`, the verdicts `graded`, the checkpoint
`partial`, the iteration `index` and the `executed` tickets. The pipeline is
its result: any `PipelineResult`. `Grade` is the return of one grade,
`Checkpoint` the write of `readiness-report.partial.json` after it, a step of its
own, so that a kill may come between. `paid` are the tickets a grade has come
back for in a batch, over the run that began it and those that resumed it;
`OneGradeAtStake` says that however often it is killed, the checkpoint lacks one
of them at most.
Waiting between iterations, grading and pipeline runs advance the clock
arbitrarily; a quiet-hours sleep lasts exactly as long as asked.

### CanvasLock

The design canvas has a lock of its own, built better than the session lock: it
is taken first and by an exclusive create (`wx`), and whoever removes it reads
its text again before. `pc[p]` is where process `p` is, `mine` the text of its
lock (pid and `startedAt`), `seen` the text it found stale, `file` the lock
file: absent, or created for a text that is written (`filled`) or not yet.
`CreateOpens`, `Fill`, `CreateExists` are `writeLockFile`; `ProbeAbsent` and
`ProbeStale` are `probeLockStatus`; `CompareSame`, `CompareAbsent`, `Remove`
are `removeMatchingLock`; `Signal`, `SignalUnlink` are the synchronous release
of a signal handler, which comes before the server is closed; `Close`,
`ReleaseReads`, `ReleaseUnlinks`, `ReleaseLeaves` are `close()`. Everything that
makes `acquireCanvasLock` throw is `Refused`: a lock that looks active, one
that changed, one created concurrently, an I/O error. A process that dies
between create and fill leaves an empty file, which counts as active until
somebody deletes it, as the error message says.

`exposed` again records that the protocol has left its protection, in three
ways: two takeovers are both past their second look at the stale file (each
then removes whatever is there, also the other's new lock, although the
comment in `lock.ts` lines 84-85 means the second look to prevent that);
a server is started more than 24 hours after one that still runs, whose lock
then counts as stale; a second signal arrives during a release, so that two
releases run side by side. `NoTwoServers` does fail after the first.

### Epics

The git of `Pipeline` for the children of one epic: `local` and `remote` are
branches as sets of commits, `head` the one checked out. `checkSingleChild`
asks the board, as it is wired, for the children of the ticket itself (not of
its parent) and decides by the answer whether the epic branch is skipped.
`EnsureByFetch`, `EnsureFetchFails`, `EnsureLocalOnly`, `CreateEpic`,
`PushEpic`, `PushEpicFails` are the paths of `ensureEpicBranch`; `FreshBranch`,
`ReworkFetched`, `ReworkNotFetched` the setup of the child's branch; then a
session, delivery, a crash before or after the lock is written, resume and PR
retry, which reads the parent from the log. `DeliverEpic` is epic completion.
It looks for entries with the status `DONE`, which no run writes: the action
`MarkDone` stands for a line put there by hand. The board may add children,
reviewers merge and ask for changes, in any order. The working tree is clean
here; dirty trees are in `Pipeline`.

A delivery is five steps: push, create the pull request, append the entry, check
the target branch out, clean up. Rework, and a pull request that could not be
created, are logged by the phase after the checkout, the others by the delivery
itself before it (`logsLast`). A run may be killed between any two, so that a
pull request may be open of which the log knows nothing.

`sentTo` is a history variable: the branches a child was pushed or logged for. The
board may count a child's children differently for two of its runs: one takes it
to the epic branch and another, which skips that branch, leaves an entry without
parent, even if its own push is refused. When a reviewer asks for changes, the
rework fetches the branch, which was cut from the epic branch and has siblings'
work, and opens a pull request onto the base. `SiblingsStayInEpic` excepts the
children that were sent to both branches, whether or not the run that sent them
lived to say so in the log.

### Boards and pull requests

`BoardLabels` has one ticket's labels and two client processes with the caches
each board's client keeps (Linear a name to id map, Shortcut the whole list).
GitHub adds or removes one label in one request; the others read, change and
write the list. `excused` holds the labels whose last edit is not promised to
stand: somebody edited between a client's read and its write, or the client
used an id of a label since deleted and defined anew.

`BoardQueue` is `fetchTickets` of each board: which conditions are in the query
and which are applied to the page that comes back, and where the page is cut.
`EmptyMeansNothingInReach` states for each board exactly when an empty answer
may be given although an eligible ticket exists.

`BoardAnswers` is `fetchBlockerStatus`, `fetchChildrenStatus` and
`transitionTicket`. A request that fails is an answer like any other, so the
property lists the answers that are wrong: half of the links made by the other
convention, an open child behind the first page, a list of which a part could
not be read, a Notion database of more than the ten pages that are read
(`tooLong`: no request fails then), a child that GitHub's search index does not
have yet or has as it was (`index`, which catches up when it likes).

`PullRequests` follows one ticket on each of the five platforms through
delivery, PR retry, review, rework runs, failed pushes, crashes and resume.
Time is the minute of `progress.txt`, which is what comments are compared with.
`late` collects the comments that no run is sure to see, one way of getting
there per action; `OnlyKnownLosses` says that everything else is seen or still
visible to the next run.

### ImplementBatch, SessionLedger, SessionHooks, Installer

`ImplementBatch`: `main` builds the batch from the files and approval markers,
then each plan goes through the phases of `runPipeline` with a board that does
nothing; the lock check, resume and rework detection remain those of every run.
The reviewer, the planner and the other session act only right before the step
that reads what they change: earlier they could not be told apart.

`SessionLedger`: two processes append to `progress.txt` and `costs.log` and
replace `quality.json` through its temporary file, each file operation a step;
`buildSessionReport` reads the three at the end of the loop. `Ambiguous` tickets
have a title that reads as a status (`parseProgressLine` takes the first
segment that does). The lines and entries of the two logs are known by their
numbers, and what was paid is the number of entries that count.

`SessionHooks`: `Monitor` reads the debounce file and decides, `persistDebounce`
writes it back, for parallel hooks; `lost` records that an update was
overwritten. The levels of context and time go up and down as they like.

`Installer`: the terminal installer's steps (detect, ask, back up, copy, inline,
two manifests, project files, settings), each of which may be the last, and the
brief, plan and dev installers, which copy over the same names without a
manifest. `owed` are the edits the manifests promise to keep. `unrecorded` says
that files have been copied since manifests were last written; while it does, an
update may take such a file for an edit, and its backup may replace that of a
real one: `mistaken` are the edits that happened to. `EditsSurvive` says that
there is no other way to lose one. `EditsCanBeReapplied`, which promises it
without exception as the troubleshooting guide does, fails (a finding): an update
backs an edit up, copies its own file over it and is killed before the
manifests, and the retry backs that file up over the edit.

### DesignVariants, DesignLogs, CanvasPick

The storage and generation functions of the design package are not yet called
from its server: what is modelled is their own contract, under any overlap of
their callers. `DesignVariants`: rounds of generation reuse the same ids; each
`writeVariantHtml` is an exclusive create, a write and, on failure, a removal.
`approveVariant` takes any body that was generated, written or not: it does not
look, and `BodiesKept` says when marker and file then disagree.
`DesignLogs`: chat, threads and comments, appends that are cut short.
`CanvasPick`: a page two levels deep, the overlay's selector and the message to
the canvas that shows the frame. The overlay counts an element among the siblings
of its name and writes the number into `:nth-child`, which counts all siblings.
`PickResolves` has both sides: where the two counts agree on every level the
selector finds the element and no other; where they differ it finds nothing or
elements of the same names earlier on the page.

## 3. What the runs check

| Run | Instance | Shows |
|---|---|---|
| `session_lock` | 3 processes | `DoubleRunNeedsExposure`, `OneActive`, `WorkingRunIsLocked`; under fairness `ProjectNotShutOut` |
| `pipeline` | 2 interchangeable tickets, AFK, known platform, 1 piece of work, 1 review, 1 rework, 1 crash | `ReworkBounded`, `LockFindsItsBranch`, `SessionOnItsBranch`, `ImplementsLedger` |
| `pipeline_hosts` | 1 ticket, three modes, a platform told from the URL or by `CLANCY_GIT_PLATFORM` only, 2 pieces of work, 1 review, 1 rework, 1 crash, 1 requeue; its pull request may be closed | `LogNeverLeads`; under fairness `PushedGetsPr` |
| `work_loop` | 3 tickets, a queue with a duplicate that is longer than a batch, wrapping windows, 1 crash | `OnlyGreenRuns`, `OneGradeAtStake`, `QuietRespected`, `LoopEnds` |
| `canvas_lock` | 3 processes, 2 timestamps each, symmetric | `TwoServersNeedExposure`, `HolderHasLock` |
| `epics` | 2 symmetric children, 3 sessions, any crashes and failures | `SiblingsStayInEpic`, `ChildHasMergedSiblings` |
| `services` | labels: 2 clients, 2 labels, each defined twice; queue: 4 tickets, pages of 1 to 3; answers: 2 blockers, 2 children, pages of 1; reviews: 2 comments, 2 minutes | `LastEditStands`, `QueueRead`, `AnswersHold`, `OnlyKnownLosses`, `NotWorkedOnTwice` |
| `tools` | installers: 2 versions, 2 files, 2 edits; ledger: 2 processes, 2 tickets, 2 runs; batch: 2 plans and a board ticket; hooks: 2 at once; logs: 4 records; variants: 2 ids, 3 rounds; pages of 3 siblings | `EditsSurvive`, `OwnWorkReported`, `QualityKept`, `BatchSummaryHolds`, `WarnedInTime`, `StoredIsReadBack`, `PickResolves` |
| `session_double_run` | 2 processes | `LockPreventsDoubleRun` fails: two runs work, each with its lock written |
| `epic_second_child` | 2 children | `EpicCanBeFetched` fails: the epic branch cannot be fetched while it is checked out, as a killed run or a delivery leaves it |
| `update_retried` | 1 command, 1 workflow, 2 versions, 1 edit | `EditsCanBeReapplied` fails: the retry of a killed update replaces the backup of an edit |
| `pr_comment_lost` | 2 comments | `InlineCommentsPickedUp` fails: an inline comment may never be picked up |

The last four are expected to be violated: each states what a comment or
document of the repository says and shows a behaviour of the code that
contradicts it. `PROJECT.json` quotes the lines.

Why the bounds are enough. The lock's races need a victim, an intruder and a
third process that comes upon what the two left: 3 processes, for either lock;
two timestamps tell a process's lock from the one its pid left behind. A ticket's history
has at most a handful of distinguishable stages: delivered, reviewed and
reworked, crashed and resumed, failed and requeued. One crash per behaviour is
enough to leave every intermediate state as the start of a later run.
`MaxRework = 1` reaches the guard in two rounds. Two runs share the pipeline's
space: in `pipeline` a second ticket makes HEAD, `dirty`, `lock` and `order`
interact across tickets and lets PR retries overlap, of which one has work to
open a pull request for; in `pipeline_hosts` one
ticket goes through every mode and a requeue, and two pieces of work let the
remote and the local branch each hold something the other does not. Both kinds of
variety at once, and retries that each open a pull request, are left to
*Pipeline_proofs*, which covers any number.

An epic needs a child whose work is merged, one that is cut afterwards, and a
session for the rework of the first: three in all; *Epics_proofs* covers any
number. A label edit is
lost between two clients, or a client and a person; a label defined twice has an
id that is stale. In the queue, limits of 1 and 2 and a page of 3 put an
unsuitable ticket before the cut and an eligible one behind it with 4 tickets.
Two comments are enough for one to be seen, the other not, or one to answer the
other; the second minute separates a comment from the entry that hides it. An
edit survives one update and must survive the next: 2 versions with a file the
second one drops, and two edits, of one file or of two with the same name. The session's clock
starts in the last tick of a minute and crosses into the next: both what a
minute cuts off and what lies before it. A third record shows a log that is
damaged twice. Two hooks, with a debounce of 2 calls, reach the loss of an
update and the message after it. Three siblings of two names have every
relation of index among all to index among equals. Each of these modules was
also explored with its bounds raised by one or more, exhaustively where that
ends and by simulation where it does not, with the same result.

Deadlock is checked in `session_lock`, the `pipeline` runs, `work_loop`,
`canvas_lock` and `services`: there a system at rest can always go on. `epics`,
`tools` and the runs of their modules stop at the bound of their counters (sessions; edits, records,
rounds and ticks).

Known behaviours that the properties leave room for, each visible in the models:
a rework run whose fetch is refused resets the branch to the base
(`Pipeline!BranchFromBase`); an interactive run deletes a crashed session's lock
and its unpushed commits go with the next `checkout -B` (`NoLock`, `StaleLock`);
rework detection takes a run that was started for another ticket; a dev loop
with `--afk` and `--bypass-readiness` has no gate (`WorkLoop!HasGate`); a
`RESUMED` entry gets no pull request, because PR retry reads `PUSHED` ones only;
an infeasible ticket is offered again by the next queue; where the platform of the
remote is not recognised PR retry logs `PR_CREATED` without a pull request
(`RetryUnsupported`); a child of an epic sent to both targets takes siblings' work
to the base (`Epics!sentTo`); the canvas overlay's selector misses elements on a
page whose siblings are of several names (`overlay.client.ts:86`,
`CanvasPick!PlacesAgree`); verification gates that differ in their first 100
characters accumulate in `settings.json` (`Installer!hasAgentPrompt`); a run killed
between the rotation of an artifact and its writing leaves none.

## 4. Fairness

`SessionLock!FairSpec`: time passes (`LockAges`), and a process that reaches its
lock check again and again gets through it: the check is straight-line
synchronous code. Nothing is assumed of the operator, of runs or of deaths;
`ProjectNotShutOut` is conditional on sessions being started.

`Pipeline!FairSpec`: another run is started after a run (what autopilot or the
operator does).
It does not say that a run ends: the Claude session has no time limit (the hook
that knows `CLANCY_TIME_LIMIT` only warns), nor have most requests. `PushedGetsPr` is
conditional on it instead: *if* the pipeline is idle again and again, each run
having ended or been killed, a ticket pushed without a pull request gets one, or a
run for the ticket itself has logged a status that PR retry does not look at. It
speaks of platforms told from the URL; on the others PR retry gives up.
Strong fairness of `PreflightOk`, `RetryCreates` and `RetryLogs` is an assumption on
the outside: git, platform and disk do not fail for ever whenever they are asked.
Without it nothing could be promised.

`WorkLoop!FairSpec`: the loop's own steps end, a sleep included. A grade, a round
of the gate and a run of the pipeline are calls of Claude without a time limit and
need not end: `LoopEnds` is conditional on none of them going on for ever. Nobody
must start a loop.

The other modules have safety properties only. What happens in them is caused
by people, failures and answers of other machines, none of which the code can
count on.

## 5. What is proved

For all values of the constants (any number of processes, tickets, children,
crashes, reviews, rounds; any day length), from the ASSUMEs of the modules only.

*SessionLock_proofs.* Neither `DoubleRunNeedsExposure` nor `WorkingRunIsLocked`
is inductive: from a state with two sessions before their write both could
reach `working`. `IInv` adds `OneActive`: while nothing was exposed, at most one
session is past its check at all. A session passing its check either finds no
other active one, or finds one that is still unlocked (exposed), or finds one
working, whose lock is then on disk, its pid alive and the lock young, so that
the check aborts: the last case is where `WorkingRunIsLocked` feeds
`OneActive`.

*Pipeline_proofs.* `IInv` collects what each phase may rely on: on which branch
HEAD is, which branch exists, what a pending PR retry knows (its ticket is on
the remote), what a delivery has done so far (between push and log the ticket's
branch is on the remote; if the outcome is a created or existing pull request
there is one), that a rework is chosen only for an open pull request and below
the bound, and that a local branch never goes back to nothing. `LogNeverLeads`
needs the delivery facts, `ReworkBounded` those of the choice, the refinement
both. `Inductive` is proved action by action. `ImplementsLedgerAlways` shows
that each step is `Advance`, `Record` or a stutter of the ledger.
`LedgerNeverLeads` is about `DeliveryLedger` itself: what every implementation
inherits.

*WorkLoop_proofs.* About `QuietHours`: `WindowIsCircular` (three comparisons
decide membership in a circular interval), `SleepEndsOnTheMinute`,
`WakesOutside`; from them `QuietRespected`. `LoopInv` adds to the types which
iteration a phase may be in (`Iterating`), that the queue of an AFK loop with a
gate is what the batch graded green (`Screened`), and the checkpoint
(`Checkpointed`): grades are asked for in the order of the queue, so that a paid
grade the checkpoint lacks is that of the first ticket it lacks, of which there is
one. `OnlyGreenRuns` rests on the filtered queue being tickets that
were kept: `Filtered` is written as places in the queue, not with the recursive
`SelectSeq`, so that it can be reasoned about.

*CanvasLock_proofs.* `IInv` adds to `HolderHasLock` what makes it inductive:
`Texts` (a lock carries the pid of its process, so that two processes never have
the same text; without it not even the types are inductive), `StaleIsAbandoned`
(no text that somebody found stale, or holds to be aged, is that of a process
that lives) and `OneRemoves` (the one takeover about to remove has the stale
file before it). A removal then hits either the remover's own lock or one nobody
lives to rely on; two servers at once would each have its own text in the one
file.

*Epics_proofs.* `SiblingsStayInEpic` speaks of open pull requests onto the base; a
rework reads its target from the log, PR retry too, resume from the lock. `IInv`
ties them together: `OneTarget` (whatever names a target for a child, be it a pull
request, an entry, a rework or the run at hand after its push, `sentTo` has it) and `Purity` (the branch of a child never sent to the epic branch
is the child's own: on the remote, in the run, and where a lock leads to it).
`Numbered` and `Checkouts` carry what these rely on. `EpicAsMerged` gives
`ChildHasMergedSiblings`.

*DesignVariants_proofs.* `BodiesKept` needs that a call past its exclusive create
has the torn beginning of its own body in the file (`TornIsMine`) and that no two
calls are for one body (`OneCallEach`): the cleanup of a failed write then
removes what this call made, and an id whose open failed otherwise is the
exception the property names.

*Services_proofs.* Each service has an invariant of its own; `ServicesInv` puts
the four together.

- Reviews: `InSight` says of every comment that is neither worked on nor late nor
  `Excused` (the known losses) that the run at hand has it, or that it is not older
  than the ticket's line between runs. With `AddressedBefore` (what was worked on
  is not newer than that line) it gives `OnlyKnownLosses` and `NotWorkedOnTwice`;
  `Threads` and `Feedback` are what a run may rely on meanwhile.
- Labels: `Sound` says of a client between its read and its write that the list it
  holds agrees with the ticket's but for the label it changes and those in
  `excused`; `Definitions` and the caches bound which ids there are. The write
  that follows then leaves every other label's last edit in place:
  `LastEditStands`.
- Queue: what is at the front of a page is characterised by positions
  (`FirstAtMost`, `FirstOfAny`, `BehindTheFirst`, by a least counterexample);
  `QueueHeld` adds that Azure DevOps' ids are those of the first waiting tickets
  unless one was moved since.
- Answers: `Pending` says that children that were counted are still there.

*Tools_proofs.* One invariant for each tool again.

- Hooks: `OnRecord`: while no update was lost, one hook at most is about to write,
  and what the next monitor goes by (the file, or what that hook holds) has each
  guard's last message and has counted every breach since. `ReportsOnce`: the flag
  file lets one hook compare the versions.
- Installer: `OwedIsKnown`: an edit that is owed is among the backups, or can still
  be told from what the manifest has, and from the moment the user is asked is on
  the list of what will be backed up, or its backup has been taken by a file that
  was copied and not recorded. `Recorded`: after a whole update only an edit differs
  from its entry, so that only an edit takes the place of another. `ToDo` types the
  rest.
- `quality.json`: `OneAtATime`: unless two processes have overlapped, one at most is
  between reading and renaming, and holds the counters plus its own work.
  `NoneInvented`: the counters, their temporary file and every copy are short of
  each rework that has begun and not read them yet.
- Session report: `Chronicle`: the lines of `progress.txt` are in the order of their
  times; `SinceItBegan`: those after the loop's start are of its time. The latest
  line in the session's minutes is then the latest the session has logged.
- Batch: `Turns`, `Halts`, `Sessions` and `Delivered`: each plan has one turn or was
  skipped, only the last result stops the batch, every session belongs to a turn
  that is over or delivers now, and a completed turn delivered its key.
- Picking: where the place among a name is the place among all, a selector made of
  both matches one element of the page; where it is not, the place written is
  smaller, and what it matches comes earlier.
- Storage: an acknowledged record is on a line of its own, or the log is `Damaged`,
  which takes an append to a torn tail. The bodies are *DesignVariants_proofs*'.

With these, every safety invariant and action property of a passing run is a
theorem. Only model-checked is what is temporal: `ProjectNotShutOut`,
`PushedGetsPr`, `LoopEnds`. Liveness under fairness is outside the proof system's
reach. Where a proof needs the first or the last of some numbers it takes a least
counterexample by well-foundedness of `<` on the naturals (`Least`); what a
recursive definition computes cannot be proved, which is why the models filter and
search by sets of positions where a proof depends on it.

## 6. Plan

Done, in this order: `SessionLock`, `DeliveryLedger` and `Pipeline`,
`QuietHours` and `WorkLoop`, `CanvasLock`, and their proofs; `Epics`; boards and
pull requests; installers, report and records, batch, hooks; design storage and
picking; the proofs about `Epics` and `DesignVariants`; the proofs about
`Services` and `Tools`, and the rest of `WorkLoop`'s.

Left, most important first: a refinement of `Pipeline`'s one-valued `feedback` by
`PullRequests`; abstract specifications of the two locks (who may work) that
`SessionLock` and `CanvasLock` implement until they are exposed.

## 7. Not modelled, and why

Readiness agents, schemas and prompts: calls of a language model, shapes of
data, and Markdown. Grading, feasibility and implementation are nondeterministic
results where the control depends on them.

Of parts modelled in part: the formatting of commits, comments, pull-request
bodies, reports and notifications; branch and credential guards, statusline and
update check, which answer one event from its text and keep nothing the others
read; board ping, credential validation and the parsing of descriptions;
Retry-After and backoff, which only delay; HTTP serving of the canvas; token
detection and document writing of the design package; rotation of artifacts.
Starvation by `MAX_CANDIDATES` (five) needs more tickets than an exhaustive run
can have.
