---------------------------- MODULE SessionLedger ----------------------------
(***************************************************************************)
(* What is kept of a session: a line of progress.txt and one of costs.log  *)
(* for each ticket, the counters of quality.json, and the report that the  *)
(* autopilot derives from the three at its end.  progress.txt knows        *)
(* minutes, costs.log milliseconds; quality.json is replaced as a whole    *)
(* through one temporary file.  A run started by hand may share the files, *)
(* and each process may be killed between two file operations.             *)
(***************************************************************************)
EXTENDS Naturals, Sequences, FiniteSets, FiniteSetsExt

CONSTANTS
  Ticket,
  Ambiguous,   \* tickets with a summary like "A | PLAN", that reads as a status
  PerMinute,   \* ticks in a minute
  FirstTime,   \* the tick a behaviour begins in
  MaxTime,     \* bound: the last tick
  MaxRuns      \* bound: runs that come to deliver

LedgerBounds ==
  /\ IsFiniteSet(Ticket) /\ Ambiguous \subseteq Ticket
  /\ PerMinute \in Nat \ {0} /\ MaxTime \in Nat /\ FirstTime \in 0..MaxTime
  /\ MaxRuns \in Nat

Runner == {"loop", "other"}
Status == {"PR_CREATED", "REWORK", "PUSH_FAILED"}
Minute(time) == time \div PerMinute

VARIABLES
  now,
  progress,       \* progress.txt; at: when, to the tick
  costs,          \* costs.log
  quality, tmp,   \* quality.json and quality.json.tmp
  run,            \* what each process is doing
  loop,           \* the autopilot session: its start, and how long the logs were
  report,         \* session-report.md, in the state it is written in
  counted,        \* counted: replacements of quality.json that succeeded
  begun,          \* begun: runs, and those with a rework, per ticket
  overlapped      \* overlapped: two processes have been at quality.json at once

vars == <<now, progress, costs, quality, tmp, run, loop, report,
          counted, begun, overlapped>>
logs == <<progress, costs>>
disk == <<quality, tmp>>
ghosts == <<counted, begun, overlapped>>

Entry == [reworks : Nat, delivered : BOOLEAN]
NoEntry == [reworks |-> 0, delivered |-> FALSE]
emptyData == [t \in Ticket |-> NoEntry]
Data == [Ticket -> Entry]
File == [is : {"absent", "torn", "whole"}, data : Data]
Absent == [is |-> "absent", data |-> emptyData]
Torn == [is |-> "torn", data |-> emptyData]
Whole(data) == [is |-> "whole", data |-> data]

Idle == [pc |-> "idle"]
PC == {"append", "read", "open", "write", "rename", "cost"}
Line == [key : Ticket, status : Status, at : 0..MaxTime]
NoLoop == [on |-> FALSE]
NoReport == [made |-> FALSE]
COMPLETED_STATUSES == {"PR_CREATED"}   \* those of the model
FAILED_STATUSES == {"PUSH_FAILED"}
Shown == [status : Status \union {"PLAN"}, pr : BOOLEAN]
NotShown == [status |-> "absent", pr |-> FALSE]

TypeOK ==
  /\ now \in 0..MaxTime
  /\ progress \in Seq(Line)
  /\ costs \in Seq([key : Ticket, at : 0..MaxTime])
  /\ quality \in File /\ tmp \in File
  /\ run \in [Runner -> {Idle} \union
       [pc : PC, key : Ticket, outcome : Status, data : Data,
        file : {"none", "tmp", "quality", "gone"}]]
  /\ loop \in {NoLoop} \union [on : {TRUE}, start : 0..MaxTime, lines : Nat, paid : Nat]
  /\ report \in {NoReport} \union
       [made : {TRUE}, start : 0..MaxTime, tickets : [Ticket -> Shown \union {NotShown}],
        summary : [completed : Nat, failed : Nat, paid : Nat],
        cost : [Ticket -> Nat], ticked : SUBSET Ticket,
        next : [review : SUBSET Ticket, intervene : SUBSET Ticket],
        quality : Data, from : Nat, paidFrom : Nat]
  /\ counted \in Data /\ overlapped \in BOOLEAN
  /\ begun \in [Ticket -> [all : Nat, reworks : Nat]]

Init ==
  /\ now = FirstTime
  /\ progress = <<>> /\ costs = <<>> /\ quality = Absent /\ tmp = Absent
  /\ run = [r \in Runner |-> Idle] /\ loop = NoLoop /\ report = NoReport
  /\ counted = emptyData /\ overlapped = FALSE
  /\ begun = [t \in Ticket |-> [all |-> 0, reworks |-> 0]]

-----------------------------------------------------------------------------
(* A run, from the delivery on *)

Runs == FoldSet(LAMBDA t, n : begun[t].all + n, 0, Ticket)
NoneWritten == report' = NoReport
Goto(r, pc) == run' = [run EXCEPT ![r].pc = pc]
End(r) == run' = [run EXCEPT ![r] = Idle]

Deliver(r, t, outcome) ==
  /\ run[r] = Idle /\ (r = "loop" => loop.on)
  /\ run' = [run EXCEPT ![r] = [pc |-> "append", key |-> t, outcome |-> outcome,
                                data |-> emptyData, file |-> "none"]]
  /\ begun' = [begun EXCEPT ![t].all = @ + 1,
                            ![t].reworks = IF outcome = "REWORK" THEN @ + 1 ELSE @]
  /\ UNCHANGED <<now, logs, disk, loop, counted, overlapped>> /\ NoneWritten

(* A delivery that failed ends the pipeline before quality and cost. *)
appendProgress(r) ==
  /\ run[r].pc = "append"
  /\ progress' = Append(progress, [key |-> run[r].key, status |-> run[r].outcome,
                                   at |-> now])
  /\ IF run[r].outcome = "PUSH_FAILED" THEN End(r) ELSE Goto(r, "read")
  /\ UNCHANGED <<now, costs, disk, loop, ghosts>> /\ NoneWritten

(* A file that is missing or is no JSON is taken for an empty one. *)
readQualityData == quality.data

AtQuality(r) == run[r].pc \in {"open", "write", "rename"}

(* recordRework or recordDelivery *)
RecordQuality(r) ==
  LET t == run[r].key
      updated == IF run[r].outcome = "REWORK"
                 THEN [readQualityData EXCEPT ![t].reworks = @ + 1]
                 ELSE [readQualityData EXCEPT ![t].delivered = TRUE]
  IN /\ run[r].pc = "read"
     /\ run' = [run EXCEPT ![r].data = updated, ![r].pc = "open"]
     /\ overlapped' = (overlapped \/ \E q \in Runner \ {r} : AtQuality(q))
     /\ UNCHANGED <<now, logs, disk, loop, counted, begun>> /\ NoneWritten

(* writeQualityData truncates the file it opens, fills it and renames it.  *)
(* A process that has it open keeps it under its new name.                 *)
OpenTmp_inPlace(r) ==
  /\ run[r].pc = "open"
  /\ quality' = Torn
  /\ run' = [run EXCEPT ![r].pc = "write", ![r].file = "quality"]
  /\ UNCHANGED <<now, logs, tmp, loop, ghosts>> /\ NoneWritten

OpenTmp(r) ==
  /\ run[r].pc = "open"
  /\ tmp' = Torn
  /\ run' = [run EXCEPT ![r].pc = "write", ![r].file = "tmp"]
  /\ UNCHANGED <<now, logs, quality, loop, ghosts>> /\ NoneWritten

WriteTmp(r) ==
  /\ run[r].pc = "write"
  /\ tmp' = IF run[r].file = "tmp" THEN Whole(run[r].data) ELSE tmp
  /\ quality' = IF run[r].file = "quality" THEN Whole(run[r].data) ELSE quality
  /\ run' = [run EXCEPT ![r].pc = "rename", ![r].file = "none"]
  /\ UNCHANGED <<now, logs, loop, ghosts>> /\ NoneWritten

Moved(file) == CASE file = "tmp" -> "quality" [] file = "quality" -> "gone"
                 [] OTHER -> file

RenameTmp(r) ==
  LET t == run[r].key IN
  /\ run[r].pc = "rename" /\ tmp # Absent
  /\ quality' = tmp /\ tmp' = Absent
  /\ run' = [q \in Runner |->
       IF q = r THEN [run[q] EXCEPT !.pc = "cost"]
       ELSE IF run[q] = Idle THEN Idle ELSE [run[q] EXCEPT !.file = Moved(@)]]
  /\ counted' = IF run[r].outcome = "REWORK"
                THEN [counted EXCEPT ![t].reworks = @ + 1]
                ELSE [counted EXCEPT ![t].delivered = TRUE]
  /\ UNCHANGED <<now, logs, loop, begun, overlapped>> /\ NoneWritten

(* Every error of the three is swallowed: a full disk, or a temporary file *)
(* that another process has renamed.                                       *)
QualityFails(r) ==
  /\ AtQuality(r)
  /\ run' = [run EXCEPT ![r].pc = "cost", ![r].file = "none"]
  /\ UNCHANGED <<now, logs, disk, loop, ghosts>> /\ NoneWritten

(* costPhase takes the start of the run from the lock. *)
appendCostEntry(r) ==
  /\ run[r].pc = "cost"
  /\ \/ costs' = Append(costs, [key |-> run[r].key, at |-> now])
     \/ UNCHANGED costs   \* there is no lock, or the file cannot be written
  /\ End(r)
  /\ UNCHANGED <<now, progress, disk, loop, ghosts>> /\ NoneWritten

(* The process of the loop takes the session with it. *)
Crash(r) ==
  /\ run[r] # Idle /\ End(r)
  /\ loop' = IF r = "loop" THEN NoLoop ELSE loop
  /\ UNCHANGED <<now, logs, disk, ghosts>> /\ NoneWritten

-----------------------------------------------------------------------------
(* The autopilot session *)

StartLoop ==
  /\ ~loop.on
  /\ loop' = [on |-> TRUE, start |-> now, lines |-> Len(progress), paid |-> Len(costs)]
  /\ NoneWritten
  /\ UNCHANGED <<now, logs, disk, run, ghosts>>

(* parseLine: the first segment that is a status counts; the pull request  *)
(* is found by its own form.                                               *)
StatusRead(line) ==
  [status |-> IF line.key \in Ambiguous THEN "PLAN" ELSE line.status,
   pr |-> line.status # "PUSH_FAILED"]

isInSessionWindow_exactStart(line, start) == Minute(line.at) * PerMinute >= start

isInSessionWindow(line, start) == Minute(line.at) >= Minute(start)

(* The latest line of each key; lines are known by their numbers. *)
enrichTickets(start) ==
  [t \in Ticket |->
     LET own == {i \in DOMAIN progress : /\ progress[i].key = t
                                         /\ isInSessionWindow(progress[i], start)}
     IN IF own = {} THEN NotShown ELSE StatusRead(progress[Max(own)])]

parseCostsLog(start) == {i \in DOMAIN costs : costs[i].at >= start}

(* A ticket is shown with the latest of its entries, if it has one. *)
attachCost(entries) ==
  [t \in Ticket |->
     LET own == {i \in entries : costs[i].key = t} IN IF own = {} THEN 0 ELSE Max(own)]

(* What follows is made of the tickets: status and pull request of each. *)
Reported(tickets) == {t \in Ticket : tickets[t] # NotShown}
Completed(tickets) == {t \in Reported(tickets) : tickets[t].status \in COMPLETED_STATUSES}
Failed(tickets) == {t \in Reported(tickets) : tickets[t].status \in FAILED_STATUSES}

(* The tokens are summed over the entries of costs.log: here, each is one. *)
buildSummary(tickets, entries) ==
  [completed |-> Cardinality(Completed(tickets)), failed |-> Cardinality(Failed(tickets)),
   paid |-> Cardinality(entries)]

(* The icon; a rework is in neither set of statuses. *)
formatTicket(tickets, t) == IF t \in Completed(tickets) THEN "tick" ELSE "cross"

buildNextSteps_completedOnly(tickets) ==
  [review |-> {t \in Completed(tickets) : tickets[t].pr}, intervene |-> Failed(tickets)]

buildNextSteps(tickets) ==
  [review |-> {t \in Reported(tickets) : tickets[t].pr}, intervene |-> Failed(tickets)]

buildQualitySection == readQualityData

generateSessionReport(tickets, entries) ==
  [made |-> TRUE, start |-> loop.start, tickets |-> tickets,
   summary |-> buildSummary(tickets, entries), cost |-> attachCost(entries),
   ticked |-> {t \in Reported(tickets) : formatTicket(tickets, t) = "tick"},
   next |-> buildNextSteps(tickets), quality |-> buildQualitySection,
   from |-> loop.lines, paidFrom |-> loop.paid]

buildSessionReport ==
  /\ loop.on /\ run["loop"] = Idle
  /\ report' = generateSessionReport(enrichTickets(loop.start), parseCostsLog(loop.start))
  /\ loop' = NoLoop
  /\ UNCHANGED <<now, logs, disk, run, ghosts>>

Tick ==
  /\ now < MaxTime /\ now' = now + 1
  /\ UNCHANGED <<logs, disk, run, loop, ghosts>> /\ NoneWritten

-----------------------------------------------------------------------------
Next ==
  \/ /\ Runs < MaxRuns
     /\ \E r \in Runner, t \in Ticket, s \in Status : Deliver(r, t, s)
  \/ \E r \in Runner :
       \/ appendProgress(r) \/ RecordQuality(r)
       \/ OpenTmp(r) \/ WriteTmp(r) \/ RenameTmp(r) \/ QualityFails(r)
       \/ appendCostEntry(r) \/ Crash(r)
  \/ StartLoop \/ buildSessionReport \/ Tick

Spec == Init /\ [][Next]_vars

-----------------------------------------------------------------------------
Logged(t, from) == {i \in DOMAIN progress : i > from /\ progress[i].key = t}
Paid(t, from) == {i \in DOMAIN costs : i > from /\ costs[i].key = t}

(* The report of an autopilot session has every ticket the session has     *)
(* logged, with the status logged last unless the summary reads as one,    *)
(* and with its last entry of costs.log; besides these it has nothing from *)
(* before the minute the session started in.  Two clocks are compared: a   *)
(* minute, cut off, for progress.txt, and the millisecond for costs.log.   *)
(* What to do next agrees with it: every pull request the session left for *)
(* review is named, every ticket it failed to push too, and none as both;  *)
(* a rework that was delivered counts neither as completed nor as failed.  *)
OwnWorkReported ==
  report.made =>
    /\ \A t \in Ticket :
         LET since == Logged(t, report.from)
             last == progress[Max(since)]
             paid == Paid(t, report.paidFrom)
         IN /\ since # {} /\ t \notin Ambiguous =>
                  /\ report.tickets[t].status = last.status
                  /\ (t \in report.next.intervene) = (last.status = "PUSH_FAILED")
            /\ since # {} => (t \in report.next.review) = (last.status # "PUSH_FAILED")
            /\ report.tickets[t] # NotShown =>
                  Minute(progress[Max(Logged(t, 0))].at) >= Minute(report.start)
            /\ paid # {} => report.cost[t] = Max(paid)
    /\ report.summary.paid >= Len(costs) - report.paidFrom
    /\ report.next.review \intersect report.next.intervene = {}
    /\ report.summary.completed = Cardinality(report.ticked)
    /\ report.summary.completed + report.summary.failed =
         Cardinality({t \in Ticket \ Ambiguous :
                        report.tickets[t].status \in Status \ {"REWORK"}})

(* The counters of quality.json survive crashes, full disks and restarts:  *)
(* every rework and delivery that was written is still counted, as long as *)
(* no two processes were between reading and replacing the file at once;   *)
(* and even then no rework is counted that never began.                    *)
QualityKept ==
  /\ ~overlapped => readQualityData = counted
  /\ \A t \in Ticket : readQualityData[t].reworks <= begun[t].reworks

=============================================================================
