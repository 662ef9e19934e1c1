---------------------------- MODULE SessionHooks ----------------------------
(***************************************************************************)
(* The hooks of one Claude Code session.  The statusline leaves the state  *)
(* of the context in a bridge file; after every tool call the context      *)
(* monitor reads it, and the start time in lock.json, and warns, not more  *)
(* often than its debounce file lets it; the drift detector warns once.    *)
(* Tool calls run in parallel, and so do their hooks.                      *)
(***************************************************************************)
EXTENDS Naturals

CONSTANTS
  Hook,            \* tool calls that may be in their hooks at once
  DEBOUNCE_CALLS,  \* (code: 5)
  MaxSilent        \* bound: breaching calls that are counted

HookBounds == DEBOUNCE_CALLS \in Nat \ {0} /\ MaxSilent \in Nat

Guard == {"context", "time"}
Level == {"none", "warning", "critical"}
EMPTY_GUARD == [callsSinceWarn |-> 0, lastLevel |-> "none"]
EMPTY_DEBOUNCE == [g \in Guard |-> EMPTY_GUARD]
Debounce == [Guard -> [callsSinceWarn : 0..(DEBOUNCE_CALLS - 1), lastLevel : Level]]

VARIABLES
  bridge,     \* the context by the statusline's last word, none when that is stale
  time,       \* of the ticket in lock.json, against CLANCY_TIME_LIMIT
  debounce,   \* the debounce file
  flag,       \* the drift flag file exists
  versions,   \* .clancy/version.json and the commands' VERSION agree
  hook,       \* each running hook, and what it will write
  silent,     \* silent: breaching calls since the last message of each guard
  told,       \* told: level of that message
  late,       \* late: guards silent about a change from warning to critical
  lost,       \* lost: an update of the debounce file has been lost
  drifts      \* drifts: drift warnings of the session

vars == <<bridge, time, debounce, flag, versions, hook, silent, told,
          late, lost, drifts>>
session == <<bridge, time, versions>>
ghosts == <<silent, told, late, lost>>

Idle == [pc |-> "idle"]

TypeOK ==
  /\ bridge \in Level /\ time \in Level
  /\ debounce \in Debounce /\ flag \in BOOLEAN /\ versions \in BOOLEAN
  /\ hook \in [Hook -> {Idle, [pc |-> "drift"]} \union
                 [pc : {"persist"}, next : Debounce]]
  /\ silent \in [Guard -> 0..MaxSilent] /\ told \in [Guard -> Level]
  /\ late \subseteq Guard /\ lost \in BOOLEAN /\ drifts \in Nat

Init ==
  /\ bridge = "none" /\ time = "none" /\ debounce = EMPTY_DEBOUNCE
  /\ flag = FALSE /\ versions = TRUE
  /\ hook = [h \in Hook |-> Idle]
  /\ silent = [g \in Guard |-> 0] /\ told = [g \in Guard |-> "none"]
  /\ late = {} /\ lost = FALSE /\ drifts = 0

-----------------------------------------------------------------------------
(* The context monitor *)

Escalated(level, last) == level = "critical" /\ last = "warning"

shouldFireWarning_neverAgain(level, d) ==
  d.lastLevel = "none" \/ Escalated(level, d.lastLevel)

shouldFireWarning(level, d) ==
  \/ d.lastLevel = "none"
  \/ d.callsSinceWarn + 1 >= DEBOUNCE_CALLS
  \/ Escalated(level, d.lastLevel)

(* runContextGuard and runTimeGuard: a message, and the guard's debounce. *)
Fires(level, d) == level # "none" /\ shouldFireWarning(level, d)

Debounced_callsKept(level, d) ==
  IF Fires(level, d) THEN [callsSinceWarn |-> 0, lastLevel |-> level] ELSE d

Debounced(level, d) ==
  IF level = "none" THEN d
  ELSE IF Fires(level, d) THEN [callsSinceWarn |-> 0, lastLevel |-> level]
  ELSE [d EXCEPT !.callsSinceWarn = @ + 1]

Levels == [g \in Guard |-> IF g = "time" THEN time ELSE bridge]

(* A debounce file that is being written is taken for an empty one. *)
safeReadDebounce ==
  {debounce} \union (IF \E h \in Hook : hook[h].pc = "persist" THEN {EMPTY_DEBOUNCE} ELSE {})

(* After a lost update nothing is promised, and nothing counted. *)
ForgetCounts ==
  silent' = [g \in Guard |-> 0] /\ told' = [g \in Guard |-> "none"] /\ late' = {}

(* The files are read; what is to be said is said at the end all the same. *)
Monitor(h) ==
  /\ hook[h] = Idle
  /\ \E d \in safeReadDebounce :
       LET next == [g \in Guard |-> Debounced(Levels[g], d[g])]
           fired == {g \in Guard : Fires(Levels[g], d[g])}
           breach == {g \in Guard : Levels[g] # "none"}
       IN /\ hook' = IF next = d THEN hook
                     ELSE [hook EXCEPT ![h] = [pc |-> "persist", next |-> next]]
          /\ lost' = (lost \/ \E k \in Hook : hook[k].pc = "persist")
          /\ IF lost' THEN ForgetCounts ELSE
               /\ silent' = [g \in Guard |->
                    IF g \in fired THEN 0
                    ELSE IF g \in breach /\ silent[g] < MaxSilent THEN silent[g] + 1
                    ELSE silent[g]]
               /\ told' = [g \in Guard |-> IF g \in fired THEN Levels[g] ELSE told[g]]
               /\ late' = late \union {g \in Guard \ fired : Escalated(Levels[g], told[g])}
  /\ UNCHANGED <<session, debounce, flag, drifts>>

(* persistDebounce writes both guards, over what was written since. *)
persistDebounce(h) ==
  /\ hook[h].pc = "persist"
  /\ debounce' = hook[h].next
  /\ hook' = [hook EXCEPT ![h] = Idle]
  /\ UNCHANGED <<session, flag, ghosts, drifts>>

PersistFails(h) ==
  /\ hook[h].pc = "persist"
  /\ hook' = [hook EXCEPT ![h] = Idle]
  /\ lost' = TRUE /\ ForgetCounts
  /\ UNCHANGED <<session, debounce, flag, drifts>>

-----------------------------------------------------------------------------
(* The drift detector: the flag is created exclusively, then the versions  *)
(* are compared.                                                           *)
DriftFlag(h) ==
  /\ hook[h] = Idle /\ ~flag
  /\ flag' = TRUE /\ hook' = [hook EXCEPT ![h] = [pc |-> "drift"]]
  /\ UNCHANGED <<session, debounce, ghosts, drifts>>

CompareVersions(h) ==
  /\ hook[h].pc = "drift"
  /\ drifts' = IF versions THEN drifts ELSE drifts + 1
  /\ hook' = [hook EXCEPT ![h] = Idle]
  /\ UNCHANGED <<session, debounce, flag, ghosts>>

-----------------------------------------------------------------------------
(* The session *)

(* writeBridge: the context fills up, compacting it empties it again.  A   *)
(* minute without a statusline makes it stale.                             *)
Statusline(level) ==
  /\ bridge' = level
  /\ UNCHANGED <<time, versions, debounce, flag, hook, ghosts, drifts>>

(* The time of a ticket runs out; the lock goes, and comes for another.    *)
Time ==
  /\ time' \in CASE time = "none" -> {"warning"} [] time = "warning" -> {"critical", "none"}
                 [] time = "critical" -> {"none"}
  /\ UNCHANGED <<bridge, versions, debounce, flag, hook, ghosts, drifts>>

(* Either version changes while a hook is about to compare the two: before *)
(* that nothing looks at them.                                             *)
Update ==
  /\ \E h \in Hook : hook[h].pc = "drift"
  /\ versions' = ~versions
  /\ UNCHANGED <<bridge, time, debounce, flag, hook, ghosts, drifts>>

Next ==
  \/ \E h \in Hook :
       \/ Monitor(h) \/ persistDebounce(h) \/ PersistFails(h)
       \/ DriftFlag(h) \/ CompareVersions(h)
  \/ \E l \in Level : Statusline(l)
  \/ Time \/ Update

Spec == Init /\ [][Next]_vars

-----------------------------------------------------------------------------
(* As long as no debounce update is lost, to a parallel hook or a failed   *)
(* write, fewer than DEBOUNCE_CALLS tool calls past a threshold go by      *)
(* without a message, however context and time go up and down in between,  *)
(* and none of them once it is critical and the last message was only a    *)
(* warning.  Drift is reported at most once, lost updates or not.          *)
WarnedInTime ==
  /\ ~lost => late = {} /\ \A g \in Guard : silent[g] < DEBOUNCE_CALLS
  /\ drifts <= 1

=============================================================================
