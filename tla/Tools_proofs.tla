---------------------------- MODULE Tools_proofs ----------------------------
(***************************************************************************)
(* Proofs about what surrounds the runs on one machine, for every number   *)
(* of hooks, files, edits, plans and sessions.  The tools share no state:  *)
(* each has an inductive invariant of its own.                             *)
(***************************************************************************)
EXTENDS Tools, Integers, FiniteSetTheorems, SequenceTheorems, WellFoundedInduction, TLAPS

-----------------------------------------------------------------------------
(* The hooks of a session *)

(* What the next context monitor goes by: what a hook is about to write,   *)
(* or else the debounce file.                                              *)
Persisting == {h \in Hook : hook[h].pc = "persist"}

GoesBy(d) ==
  IF Persisting = {} THEN d = debounce ELSE \A h \in Persisting : d = hook[h].next

(* As long as no update is lost, the last message of each guard is on      *)
(* record, and no more breaches went by than the record has counted.       *)
OnRecord ==
  ~lost =>
    /\ \A h, k \in Persisting : h = k
    /\ late = {}
    /\ \A d \in Hooks!Debounce : GoesBy(d) =>
         \A g \in Hooks!Guard : /\ told[g] = d[g].lastLevel
                                /\ silent[g] <= d[g].callsSinceWarn

(* One hook creates the flag, and only that one compares the versions.     *)
Comparing == {h \in Hook : hook[h].pc = "drift"}

ReportsOnce ==
  /\ ~flag => Comparing = {} /\ drifts = 0
  /\ Comparing # {} => drifts = 0
  /\ \A h, k \in Comparing : h = k
  /\ drifts \in {0, 1}

HooksInv == Hooks!TypeOK /\ OnRecord /\ ReportsOnce

LEMMA KnownHooks ==
  ASSUME Hooks!TypeOK
  PROVE  /\ DEBOUNCE_CALLS \in Nat /\ DEBOUNCE_CALLS > 0 /\ MaxSilent \in Nat
         /\ \A h \in Hook : \/ hook[h] = Hooks!Idle
                            \/ hook[h] = [pc |-> "drift"]
                            \/ hook[h].pc = "persist" /\ hook[h].next \in Hooks!Debounce
         /\ Hooks!Idle.pc = "idle"
BY ToolBounds DEF Hooks!TypeOK, Hooks!HookBounds, Hooks!Idle

LEMMA HooksBegin == Hooks!Init => HooksInv
<1> SUFFICES ASSUME Hooks!Init PROVE HooksInv
  OBVIOUS
<1>1. DEBOUNCE_CALLS \in Nat /\ DEBOUNCE_CALLS > 0 /\ MaxSilent \in Nat
  BY ToolBounds DEF Hooks!HookBounds
<1>2. Persisting = {} /\ Comparing = {}
  BY DEF Hooks!Init, Persisting, Comparing, Hooks!Idle
<1>3. debounce \in Hooks!Debounce /\ \A g \in Hooks!Guard : debounce[g] = Hooks!EMPTY_GUARD
  BY <1>1 DEF Hooks!Init, Hooks!EMPTY_DEBOUNCE, Hooks!Debounce, Hooks!EMPTY_GUARD, Hooks!Level
<1>4. Hooks!TypeOK
  <2>1. 0 \in 0..MaxSilent
    BY <1>1
  <2> QED
    BY <1>3, <2>1 DEF Hooks!Init, Hooks!TypeOK, Hooks!Level
<1>5. OnRecord
  BY <1>2, <1>3 DEF Hooks!Init, OnRecord, GoesBy, Hooks!EMPTY_GUARD
<1>6. ReportsOnce
  BY <1>2 DEF Hooks!Init, ReportsOnce
<1> QED
  BY <1>4, <1>5, <1>6 DEF HooksInv

(* A guard's debounce after one more call, and what it says of the call.   *)
LEMMA DebouncedOnce ==
  ASSUME NEW l \in Hooks!Level, Hooks!HookBounds,
         NEW d \in [callsSinceWarn : 0..(DEBOUNCE_CALLS - 1), lastLevel : Hooks!Level]
  PROVE  /\ Hooks!Debounced(l, d) \in
              [callsSinceWarn : 0..(DEBOUNCE_CALLS - 1), lastLevel : Hooks!Level]
         /\ Hooks!Fires(l, d) =>
              /\ Hooks!Debounced(l, d).lastLevel = l
              /\ Hooks!Debounced(l, d).callsSinceWarn = 0
         /\ ~Hooks!Fires(l, d) =>
              /\ Hooks!Debounced(l, d).lastLevel = d.lastLevel
              /\ ~Hooks!Escalated(l, d.lastLevel)
              /\ l = "none" => Hooks!Debounced(l, d).callsSinceWarn = d.callsSinceWarn
              /\ l # "none" => Hooks!Debounced(l, d).callsSinceWarn = d.callsSinceWarn + 1
<1>1. DEBOUNCE_CALLS \in Nat /\ DEBOUNCE_CALLS > 0
  BY DEF Hooks!HookBounds
<1>2. /\ d = [callsSinceWarn |-> d.callsSinceWarn, lastLevel |-> d.lastLevel]
      /\ d.callsSinceWarn \in Nat /\ d.callsSinceWarn <= DEBOUNCE_CALLS - 1
      /\ d.lastLevel \in Hooks!Level
  BY <1>1
<1>3. CASE Hooks!Fires(l, d)
  <2>1. Hooks!Debounced(l, d) = [callsSinceWarn |-> 0, lastLevel |-> l]
    BY <1>3 DEF Hooks!Debounced, Hooks!Fires
  <2> QED
    BY <1>1, <1>3, <2>1
<1>4. CASE l = "none"
  <2>1. Hooks!Debounced(l, d) = d /\ ~Hooks!Fires(l, d)
    BY <1>4 DEF Hooks!Debounced, Hooks!Fires
  <2> QED
    BY <1>2, <1>4, <2>1 DEF Hooks!Escalated
<1>5. CASE ~Hooks!Fires(l, d) /\ l # "none"
  <2>1. Hooks!Debounced(l, d) = [d EXCEPT !.callsSinceWarn = @ + 1]
    BY <1>5 DEF Hooks!Debounced
  <2>2. /\ Hooks!Debounced(l, d).lastLevel = d.lastLevel
        /\ Hooks!Debounced(l, d).callsSinceWarn = d.callsSinceWarn + 1
        /\ Hooks!Debounced(l, d) =
             [callsSinceWarn |-> d.callsSinceWarn + 1, lastLevel |-> d.lastLevel]
    BY <1>2, <2>1
  <2>3. d.callsSinceWarn + 1 < DEBOUNCE_CALLS /\ ~Hooks!Escalated(l, d.lastLevel)
    BY <1>1, <1>2, <1>5 DEF Hooks!Fires, Hooks!shouldFireWarning
  <2> QED
    BY <1>1, <1>2, <1>5, <2>2, <2>3
<1> QED
  BY <1>3, <1>4, <1>5

LEMMA MonitorKeeps ==
  ASSUME HooksInv, NEW h \in Hook, Hooks!Monitor(h)
  PROVE  HooksInv'
<1>1. Hooks!HookBounds /\ Hooks!TypeOK /\ OnRecord /\ ReportsOnce
  BY ToolBounds DEF HooksInv
<1>2. PICK d \in Hooks!safeReadDebounce :
        LET next == [g \in Hooks!Guard |-> Hooks!Debounced(Hooks!Levels[g], d[g])]
            fired == {g \in Hooks!Guard : Hooks!Fires(Hooks!Levels[g], d[g])}
            breach == {g \in Hooks!Guard : Hooks!Levels[g] # "none"}
        IN /\ hook' = IF next = d THEN hook
                      ELSE [hook EXCEPT ![h] = [pc |-> "persist", next |-> next]]
           /\ lost' = (lost \/ \E k \in Hook : hook[k].pc = "persist")
           /\ IF lost' THEN Hooks!ForgetCounts ELSE
                /\ silent' = [g \in Hooks!Guard |->
                     IF g \in fired THEN 0
                     ELSE IF g \in breach /\ silent[g] < MaxSilent THEN silent[g] + 1
                     ELSE silent[g]]
                /\ told' = [g \in Hooks!Guard |->
                     IF g \in fired THEN Hooks!Levels[g] ELSE told[g]]
                /\ late' = late \union {g \in Hooks!Guard \ fired :
                                         Hooks!Escalated(Hooks!Levels[g], told[g])}
  BY DEF Hooks!Monitor
<1>3. hook[h] = Hooks!Idle /\ UNCHANGED <<bridge, time, versions, debounce, flag, drifts>>
  BY DEF Hooks!Monitor, Hooks!session
<1>4. PICK next : next = [g \in Hooks!Guard |-> Hooks!Debounced(Hooks!Levels[g], d[g])]
  OBVIOUS
<1>5. \A g \in Hooks!Guard : Hooks!Levels[g] \in Hooks!Level
  BY <1>1 DEF Hooks!Levels, Hooks!TypeOK
<1>6. d \in Hooks!Debounce
  <2>1. Hooks!EMPTY_DEBOUNCE \in Hooks!Debounce
    BY <1>1 DEF Hooks!EMPTY_DEBOUNCE, Hooks!EMPTY_GUARD, Hooks!Debounce, Hooks!HookBounds,
                Hooks!Level
  <2> QED
    BY <1>1, <2>1 DEF Hooks!safeReadDebounce, Hooks!TypeOK
<1>7. \A g \in Hooks!Guard :
        d[g] \in [callsSinceWarn : 0..(DEBOUNCE_CALLS - 1), lastLevel : Hooks!Level]
  BY <1>6 DEF Hooks!Debounce
<1>8. next \in Hooks!Debounce
  BY <1>1, <1>4, <1>5, <1>7, DebouncedOnce DEF Hooks!Debounce
<1>9. /\ hook' \in {hook, [hook EXCEPT ![h] = [pc |-> "persist", next |-> next]]}
      /\ next # d => hook' = [hook EXCEPT ![h] = [pc |-> "persist", next |-> next]]
  BY <1>2, <1>4
<1>10. /\ \A k \in Hook : k # h => hook'[k] = hook[k]
       /\ \/ next = d /\ hook'[h] = Hooks!Idle
          \/ hook'[h] = [pc |-> "persist", next |-> next]
       /\ hook' \in [Hook -> {Hooks!Idle, [pc |-> "drift"]} \union
                                [pc : {"persist"}, next : Hooks!Debounce]]
  BY <1>1, <1>2, <1>3, <1>4, <1>8, <1>9 DEF Hooks!TypeOK
<1>11. lost' \in BOOLEAN
  BY <1>1, <1>2 DEF Hooks!TypeOK
<1>12. CASE lost'
  <2>1. Hooks!ForgetCounts
    BY <1>2, <1>12
  <2>2. 0 \in 0..MaxSilent
    BY <1>1 DEF Hooks!HookBounds
  <2>3. Hooks!TypeOK'
    BY <1>1, <1>3, <1>10, <1>11, <2>1, <2>2 DEF Hooks!TypeOK, Hooks!ForgetCounts, Hooks!Level
  <2>4. ReportsOnce'
    BY <1>1, <1>3, <1>10 DEF ReportsOnce, Comparing, Hooks!Idle
  <2> QED
    BY <1>12, <2>3, <2>4 DEF HooksInv, OnRecord
<1>13. CASE ~lost'
  <2> DEFINE fired == {g \in Hooks!Guard : Hooks!Fires(Hooks!Levels[g], d[g])}
             breach == {g \in Hooks!Guard : Hooks!Levels[g] # "none"}
  <2>1. /\ ~lost /\ Persisting = {}
        /\ silent' = [g \in Hooks!Guard |->
             IF g \in fired THEN 0
             ELSE IF g \in breach /\ silent[g] < MaxSilent THEN silent[g] + 1
             ELSE silent[g]]
        /\ told' = [g \in Hooks!Guard |->
             IF g \in fired THEN Hooks!Levels[g] ELSE told[g]]
        /\ late' = late \union {g \in Hooks!Guard \ fired :
                                 Hooks!Escalated(Hooks!Levels[g], told[g])}
    BY <1>2, <1>13 DEF Persisting
  <2>2. d = debounce
    BY <2>1 DEF Hooks!safeReadDebounce, Persisting
  <2>3. /\ late = {}
        /\ \A g \in Hooks!Guard : told[g] = d[g].lastLevel /\ silent[g] <= d[g].callsSinceWarn
    BY <1>1, <1>6, <2>1, <2>2 DEF OnRecord, GoesBy
  <2>4. /\ silent \in [Hooks!Guard -> 0..MaxSilent] /\ told \in [Hooks!Guard -> Hooks!Level]
        /\ MaxSilent \in Nat
    BY <1>1 DEF Hooks!TypeOK, Hooks!HookBounds
  <2>5. \A g \in Hooks!Guard :
          /\ told'[g] = next[g].lastLevel /\ silent'[g] <= next[g].callsSinceWarn
          /\ silent'[g] \in 0..MaxSilent /\ told'[g] \in Hooks!Level
          /\ g \notin late'
    <3> TAKE g \in Hooks!Guard
    <3>1. /\ g \in fired <=> Hooks!Fires(Hooks!Levels[g], d[g])
          /\ g \in breach <=> Hooks!Levels[g] # "none"
          /\ next[g] = Hooks!Debounced(Hooks!Levels[g], d[g])
      BY <1>4
    <3> HIDE DEF fired, breach
    <3>2. /\ g \in fired => /\ next[g].lastLevel = Hooks!Levels[g]
                            /\ next[g].callsSinceWarn = 0
          /\ g \notin fired =>
               /\ next[g].lastLevel = d[g].lastLevel
               /\ ~Hooks!Escalated(Hooks!Levels[g], d[g].lastLevel)
               /\ g \notin breach => next[g].callsSinceWarn = d[g].callsSinceWarn
               /\ g \in breach => next[g].callsSinceWarn = d[g].callsSinceWarn + 1
      <4>1. PICK l \in Hooks!Level : l = Hooks!Levels[g]
        BY <1>5
      <4>2. PICK e \in [callsSinceWarn : 0..(DEBOUNCE_CALLS - 1), lastLevel : Hooks!Level] :
              e = d[g]
        BY <1>7
      <4>3. Hooks!HookBounds
        BY <1>1
      <4>4. /\ Hooks!Fires(l, e) =>
                 /\ Hooks!Debounced(l, e).lastLevel = l
                 /\ Hooks!Debounced(l, e).callsSinceWarn = 0
            /\ ~Hooks!Fires(l, e) =>
                 /\ Hooks!Debounced(l, e).lastLevel = e.lastLevel
                 /\ ~Hooks!Escalated(l, e.lastLevel)
                 /\ l = "none" => Hooks!Debounced(l, e).callsSinceWarn = e.callsSinceWarn
                 /\ l # "none" => Hooks!Debounced(l, e).callsSinceWarn = e.callsSinceWarn + 1
        BY <4>3, DebouncedOnce
      <4> QED
        BY <3>1, <4>1, <4>2, <4>4
    <3>3. silent[g] \in 0..MaxSilent /\ d[g].callsSinceWarn \in Nat
      BY <1>1, <1>7, <2>4 DEF Hooks!HookBounds
    <3>4. CASE g \in fired
      <4>1. silent'[g] = 0 /\ told'[g] = Hooks!Levels[g] /\ g \notin late'
        BY <2>1, <2>3, <3>4
      <4> QED
        BY <1>5, <2>4, <3>2, <3>4, <4>1
    <3>5. CASE g \notin fired
      <4>1. /\ next[g].lastLevel = d[g].lastLevel
            /\ ~Hooks!Escalated(Hooks!Levels[g], told[g])
            /\ g \notin breach => next[g].callsSinceWarn = d[g].callsSinceWarn
            /\ g \in breach => next[g].callsSinceWarn = d[g].callsSinceWarn + 1
        BY <2>3, <3>2, <3>5
      <4>2. /\ silent'[g] = IF g \in breach /\ silent[g] < MaxSilent THEN silent[g] + 1
                            ELSE silent[g]
            /\ told'[g] = told[g] /\ g \notin late'
        BY <2>1, <2>3, <3>5, <4>1
      <4> QED
        BY <2>3, <2>4, <3>3, <4>1, <4>2
    <3> QED
      BY <3>4, <3>5
  <2>6. late' = {} /\ late' \subseteq Hooks!Guard
    BY <2>1, <2>3, <2>5
  <2>7. Hooks!TypeOK'
    BY <1>1, <1>3, <1>10, <1>11, <2>1, <2>5, <2>6 DEF Hooks!TypeOK
  <2>8. /\ Persisting' = {} => debounce' = next
        /\ \A k \in Persisting' : k = h /\ hook'[k].next = next
    BY <1>3, <1>10, <2>1, <2>2 DEF Persisting
  <2>9. OnRecord'
    BY <2>5, <2>6, <2>8 DEF OnRecord, GoesBy
  <2>10. ReportsOnce'
    BY <1>1, <1>3, <1>10 DEF ReportsOnce, Comparing, Hooks!Idle
  <2> QED
    BY <2>7, <2>9, <2>10 DEF HooksInv
<1> QED
  BY <1>12, <1>13

LEMMA PersistKeeps ==
  ASSUME HooksInv, NEW h \in Hook, Hooks!persistDebounce(h) \/ Hooks!PersistFails(h)
  PROVE  HooksInv'
<1>1. Hooks!TypeOK /\ OnRecord /\ ReportsOnce /\ MaxSilent \in Nat
  BY KnownHooks DEF HooksInv
<1>2. /\ hook' = [hook EXCEPT ![h] = Hooks!Idle] /\ hook[h].pc = "persist"
      /\ UNCHANGED <<bridge, time, versions, flag, drifts>>
  BY DEF Hooks!persistDebounce, Hooks!PersistFails, Hooks!session
<1>3. /\ hook'[h] = Hooks!Idle /\ \A k \in Hook : k # h => hook'[k] = hook[k]
      /\ hook' \in [Hook -> {Hooks!Idle, [pc |-> "drift"]} \union
                               [pc : {"persist"}, next : Hooks!Debounce]]
      /\ hook[h].next \in Hooks!Debounce /\ Hooks!Idle.pc = "idle"
  BY <1>1, <1>2, KnownHooks DEF Hooks!TypeOK
<1>4. ReportsOnce'
  BY <1>1, <1>2, <1>3 DEF ReportsOnce, Comparing
<1>5. CASE Hooks!persistDebounce(h)
  <2>1. debounce' = hook[h].next /\ UNCHANGED <<silent, told, late, lost>>
    BY <1>5 DEF Hooks!persistDebounce, Hooks!ghosts
  <2>2. Hooks!TypeOK'
    BY <1>1, <1>2, <1>3, <2>1 DEF Hooks!TypeOK
  <2>3. h \in Persisting
    BY <1>2 DEF Persisting
  <2>4. ~lost => Persisting' = {} /\ GoesBy(debounce')
    BY <1>1, <1>3, <2>1, <2>3 DEF Persisting, OnRecord, GoesBy
  <2>5. OnRecord'
    BY <1>1, <1>3, <2>1, <2>4 DEF OnRecord, GoesBy
  <2> QED
    BY <1>4, <2>2, <2>5 DEF HooksInv
<1>6. CASE Hooks!PersistFails(h)
  <2>1. lost' = TRUE /\ Hooks!ForgetCounts /\ debounce' = debounce
    BY <1>6 DEF Hooks!PersistFails
  <2>2. 0 \in 0..MaxSilent /\ lost' \in BOOLEAN
    BY <1>1, <2>1
  <2>3. Hooks!TypeOK'
    BY <1>1, <1>2, <1>3, <2>1, <2>2 DEF Hooks!TypeOK, Hooks!ForgetCounts, Hooks!Level
  <2>4. OnRecord'
    BY <2>1 DEF OnRecord
  <2> QED
    BY <1>4, <2>3, <2>4 DEF HooksInv
<1> QED
  BY <1>5, <1>6

LEMMA DriftKeeps ==
  ASSUME HooksInv, NEW h \in Hook, Hooks!DriftFlag(h) \/ Hooks!CompareVersions(h)
  PROVE  HooksInv'
<1>1. Hooks!TypeOK /\ OnRecord /\ ReportsOnce
  BY DEF HooksInv
<1>2. /\ UNCHANGED <<bridge, time, versions, debounce, silent, told, late, lost>>
      /\ hook[h].pc # "persist" /\ hook[h].pc \in {"idle", "drift"}
      /\ hook' \in {[hook EXCEPT ![h] = Hooks!Idle], [hook EXCEPT ![h] = [pc |-> "drift"]]}
  BY KnownHooks, <1>1 DEF Hooks!DriftFlag, Hooks!CompareVersions, Hooks!session, Hooks!ghosts
<1>3. /\ \A k \in Hook : k # h => hook'[k] = hook[k]
      /\ hook'[h] \in {Hooks!Idle, [pc |-> "drift"]} /\ Hooks!Idle.pc = "idle"
      /\ hook' \in [Hook -> {Hooks!Idle, [pc |-> "drift"]} \union
                               [pc : {"persist"}, next : Hooks!Debounce]]
  BY <1>1, <1>2, KnownHooks DEF Hooks!TypeOK
<1>4. hook'[h].pc # "persist"
  BY <1>3
<1>5. Persisting' = Persisting /\ \A k \in Persisting : hook'[k] = hook[k]
  BY <1>2, <1>3, <1>4 DEF Persisting
<1>6. OnRecord'
  BY <1>1, <1>2, <1>5 DEF OnRecord, GoesBy
<1>7. CASE Hooks!DriftFlag(h)
  <2>1. ~flag /\ flag' = TRUE /\ drifts' = drifts
    BY <1>7 DEF Hooks!DriftFlag
  <2>2. Comparing = {} /\ drifts = 0
    BY <1>1, <2>1 DEF ReportsOnce
  <2>3. Comparing' \subseteq {h}
    BY <1>3, <2>2 DEF Comparing
  <2>4. flag' \in BOOLEAN
    BY <2>1
  <2>5. Hooks!TypeOK' /\ ReportsOnce'
    BY <1>1, <1>2, <1>3, <2>1, <2>2, <2>3, <2>4 DEF Hooks!TypeOK, ReportsOnce
  <2> QED
    BY <1>6, <2>5 DEF HooksInv
<1>8. CASE Hooks!CompareVersions(h)
  <2>1. /\ flag' = flag /\ drifts' = (IF versions THEN drifts ELSE drifts + 1)
        /\ hook' = [hook EXCEPT ![h] = Hooks!Idle] /\ h \in Comparing
    BY <1>8 DEF Hooks!CompareVersions, Comparing
  <2>2. hook'[h] = Hooks!Idle
    BY <1>1, <2>1 DEF Hooks!TypeOK
  <2>3. Comparing' = {} /\ drifts = 0 /\ flag
    BY <1>1, <1>3, <2>1, <2>2 DEF Comparing, ReportsOnce
  <2>4. drifts' \in {0, 1}
    BY <2>1, <2>3
  <2>5. Hooks!TypeOK' /\ ReportsOnce'
    BY <1>1, <1>2, <1>3, <2>1, <2>3, <2>4 DEF Hooks!TypeOK, ReportsOnce
  <2> QED
    BY <1>6, <2>5 DEF HooksInv
<1> QED
  BY <1>7, <1>8

LEMMA SessionKeeps ==
  ASSUME HooksInv,
         (\E l \in Hooks!Level : Hooks!Statusline(l)) \/ Hooks!Time \/ Hooks!Update
  PROVE  HooksInv'
<1>1. /\ UNCHANGED <<debounce, flag, hook, silent, told, late, lost, drifts>>
      /\ bridge' \in Hooks!Level /\ time' \in Hooks!Level /\ versions' \in BOOLEAN
  BY DEF HooksInv, Hooks!TypeOK, Hooks!Statusline, Hooks!Time, Hooks!Update, Hooks!ghosts,
         Hooks!Level
<1> QED
  BY <1>1 DEF HooksInv, Hooks!TypeOK, OnRecord, GoesBy, Persisting, ReportsOnce, Comparing

LEMMA HooksKeep == HooksInv /\ [Hooks!Next]_(Hooks!vars) => HooksInv'
<1> SUFFICES ASSUME HooksInv, [Hooks!Next]_(Hooks!vars) PROVE HooksInv'
  OBVIOUS
<1>1. ASSUME NEW h \in Hook,
             \/ Hooks!Monitor(h) \/ Hooks!persistDebounce(h) \/ Hooks!PersistFails(h)
             \/ Hooks!DriftFlag(h) \/ Hooks!CompareVersions(h)
      PROVE  HooksInv'
  BY <1>1, MonitorKeeps, PersistKeeps, DriftKeeps
<1>2. CASE (\E l \in Hooks!Level : Hooks!Statusline(l)) \/ Hooks!Time \/ Hooks!Update
  BY <1>2, SessionKeeps
<1>3. CASE UNCHANGED Hooks!vars
  BY <1>3 DEF Hooks!vars, HooksInv, Hooks!TypeOK, OnRecord, GoesBy, Persisting,
              ReportsOnce, Comparing
<1> QED
  BY <1>1, <1>2, <1>3 DEF Hooks!Next

LEMMA HooksAlways == Spec => [](tool = "hooks" => HooksInv)
<1> DEFINE Inv == tool = "hooks" => HooksInv
<1>1. Init => Inv
  BY HooksBegin DEF Init
<1>2. Inv /\ [Next]_vars => Inv'
  <2> SUFFICES ASSUME Inv, [Next]_vars, tool' = "hooks" PROVE HooksInv'
    OBVIOUS
  <2>1. tool = "hooks" /\ HooksInv
    BY DEF Next, vars
  <2>2. [Hooks!Next]_(Hooks!vars)
    BY <2>1 DEF Next, vars, ofHooks, Hooks!vars
  <2> QED
    BY <2>1, <2>2, HooksKeep
<1> QED
  BY <1>1, <1>2, PTL DEF Spec

(* A breach of the context or time limit is not passed over by the context *)
(* monitor, unless an update of its debounce file was lost, for any number *)
(* of calls in parallel; and drift is reported at most once.               *)
THEOREM WarnedAlways == Spec => []WarnedInTime
<1>1. (tool = "hooks" => HooksInv) => WarnedInTime
  <2> SUFFICES ASSUME HooksInv, tool = "hooks" PROVE Hooks!WarnedInTime
    BY DEF WarnedInTime
  <2>1. drifts <= 1
    BY DEF HooksInv, ReportsOnce
  <2>2. ASSUME ~lost PROVE late = {} /\ \A g \in Hooks!Guard : silent[g] < DEBOUNCE_CALLS
    <3>1. PICK d \in Hooks!Debounce : GoesBy(d)
      <4>1. CASE Persisting = {}
        BY <4>1 DEF HooksInv, Hooks!TypeOK, GoesBy
      <4>2. CASE Persisting # {}
        <5>1. PICK h \in Persisting : TRUE
          BY <4>2
        <5>2. hook[h].next \in Hooks!Debounce /\ \A k \in Persisting : k = h
          BY <2>2, <5>1, KnownHooks DEF HooksInv, OnRecord, Persisting
        <5> QED
          BY <4>2, <5>2 DEF GoesBy
      <4> QED
        BY <4>1, <4>2
    <3>2. \A g \in Hooks!Guard : /\ silent[g] <= d[g].callsSinceWarn
                                 /\ d[g].callsSinceWarn \in 0..(DEBOUNCE_CALLS - 1)
                                 /\ silent[g] \in 0..MaxSilent
      BY <2>2, <3>1 DEF HooksInv, OnRecord, Hooks!Debounce, Hooks!TypeOK
    <3>3. late = {}
      BY <2>2 DEF HooksInv, OnRecord
    <3> QED
      BY <3>2, <3>3, KnownHooks DEF HooksInv
  <2> QED
    BY <2>1, <2>2 DEF Hooks!WarnedInTime
<1> QED
  BY <1>1, HooksAlways, PTL

-----------------------------------------------------------------------------
(* The installers *)

(* Where an install is, and who runs it.                                   *)
Stages ==
  /\ isGlobal \in BOOLEAN /\ unrecorded \in BOOLEAN /\ roles \subseteq Roles
  /\ pc \in {"idle", "existing", "copy", "inline", "manifests", "runtime", "hooks",
             "settings"}
  /\ who \in {"none", "terminal", "package"}
  /\ pc # "idle" => version \in Install!Version
  /\ pc = "idle" => who = "none"
  /\ pc \in {"manifests", "runtime", "hooks", "settings"} => who = "terminal"

SettingsTyped == settings \in Install!Settings /\ read \in Install!Settings

(* What there is so far, of contents and of edits.                         *)
Made == {c \in Install!Content : c >= -edits}

Contents ==
  /\ edits \in 0..MaxEdits
  /\ disk \in [Install!Path -> Made] /\ manifest \in [Install!Tracked -> Made]
  /\ patches \in [Name -> Made]
  /\ owed \subseteq {c \in Made : Install!IsEdit(c)}
  /\ mistaken \subseteq {c \in Made : Install!IsEdit(c)}

(* Until an update has backed it up, an edit that is owed can still be     *)
(* told from what the manifest has; while the user is asked, it is among   *)
(* the files that will be backed up.                                       *)
Safe(e) == e \in mistaken \/ \E n \in Name : patches[n] = e

Told(e, p) ==
  /\ disk[p] = e /\ manifest[p] \notin {Install!None, e}
  /\ pc = "existing" => p \in modified

OwedIsKnown ==
  \A e \in owed :
    Safe(e) \/ ((who # "terminal" \/ pc = "existing") /\ \E p \in Install!Tracked : Told(e, p))

(* What differs from its entry since the last whole update is an edit, so  *)
(* that only an edit takes the place of another in the backups.            *)
Recorded ==
  /\ ~unrecorded =>
       /\ \A p \in Install!Tracked :
            manifest[p] # Install!None =>
              disk[p] \in {Install!None, manifest[p]} \/ Install!IsEdit(disk[p])
       /\ pc = "existing" => \A p \in modified : Install!IsEdit(disk[p])
  /\ pc = "manifests" =>
       \A p \in Install!Tracked : p[1] = "commands" => manifest[p] = disk[p]

InstallInv == Stages /\ SettingsTyped /\ Contents /\ Recorded /\ OwedIsKnown

LEMMA Sizes ==
  /\ MaxVersion \in Nat /\ MaxEdits \in Nat
  /\ Install!Version \subseteq Install!Content /\ Install!None \in Install!Content
  /\ Install!Content \subseteq Int
  /\ \A v \in Install!Version : v > 0
  /\ Install!Tracked \subseteq Install!Path
BY ToolBounds
DEF Install!PackageAssumption, Install!Version, Install!Content, Install!None,
    Install!Tracked, Install!Path, Install!Dir

LEMMA InstallBegins == Install!Init => InstallInv
<1> SUFFICES ASSUME Install!Init PROVE InstallInv
  OBVIOUS
<1>1. Stages
  BY DEF Install!Init, Stages
<1>2. SettingsTyped
  BY DEF Install!Init, SettingsTyped, Install!NoSettings, Install!Settings
<1>3. edits \in 0..MaxEdits /\ Install!None \in Made
  BY Sizes DEF Install!Init, Made, Install!None
<1>4. Contents /\ OwedIsKnown
  BY <1>3 DEF Install!Init, Contents, OwedIsKnown
<1>5. Recorded
  BY DEF Install!Init, Recorded
<1> QED
  BY <1>1, <1>2, <1>4, <1>5 DEF InstallInv

LEMMA StagesKeep == Stages /\ [Install!Next]_(Install!vars) => Stages'
<1> SUFFICES ASSUME Stages, [Install!Next]_(Install!vars) PROVE Stages'
  OBVIOUS
<1> USE DEF Stages, Install!install, Install!promise
<1>1. ASSUME NEW v \in Install!Version, NEW r \in SUBSET Roles, Install!Start(v, r)
      PROVE  Stages'
  BY <1>1 DEF Install!Start
<1>2. ASSUME NEW v \in Install!Version,
             Install!runBriefInstall(v) \/ Install!runPlanInstall(v) \/ Install!runDevInstall(v)
      PROVE  Stages'
  BY <1>2 DEF Install!runBriefInstall, Install!runPlanInstall, Install!runDevInstall,
              Install!StartPackage
<1>3. CASE Install!Overwrite \/ Install!CopyFile \/ Install!ToInline \/ Install!InlineFile
  BY <1>3 DEF Install!Overwrite, Install!Copying, Install!CopyFile, Install!ToInline,
              Install!InlineFile
<1>4. CASE Install!WriteManifests \/ Install!WriteWorkflowsManifest
           \/ Install!SetupProjectRuntime \/ Install!ReadSettings
  BY <1>4 DEF Install!WriteManifests, Install!WriteWorkflowsManifest, Install!AllCopied,
              Install!SetupProjectRuntime, Install!ReadSettings
<1>5. CASE Install!Decline \/ Install!PackageDone \/ Install!WriteSettings \/ Install!Killed
  BY <1>5 DEF Install!Decline, Install!PackageDone, Install!WriteSettings, Install!Killed,
              Install!Finish
<1>6. ASSUME NEW p, Install!Edit(p)
      PROVE  Stages'
  BY <1>6 DEF Install!Edit
<1>7. CASE Install!RepairSettings
  BY <1>7 DEF Install!RepairSettings
<1>8. CASE UNCHANGED Install!vars
  BY <1>8 DEF Install!vars
<1> QED
  BY <1>1, <1>2, <1>3, <1>4, <1>5, <1>6, <1>7, <1>8 DEF Install!Next

LEMMA Merged ==
  ASSUME Stages, SettingsTyped, pc = "settings"
  PROVE  Install!mergeSettings \in Install!Settings
<1>1. PICK gates : gates = IF Install!hasAgentPrompt(read.gates, version) THEN read.gates
                           ELSE read.gates \union {version}
  OBVIOUS
<1>2. read \in Install!Settings /\ gates \subseteq Install!Version
  BY <1>1 DEF SettingsTyped, Install!Settings, Stages
<1>3. Install!mergeSettings = [read EXCEPT !.hooks = TRUE, !.gates = gates]
  BY <1>1 DEF Install!mergeSettings
<1> QED
  BY <1>2, <1>3 DEF Install!Settings

LEMMA SettingsKeep ==
  Stages /\ SettingsTyped /\ [Install!Next]_(Install!vars) => SettingsTyped'
<1> SUFFICES ASSUME Stages, SettingsTyped, [Install!Next]_(Install!vars) PROVE SettingsTyped'
  OBVIOUS
<1>1. Install!NoSettings \in Install!Settings
  BY DEF Install!NoSettings, Install!Settings
<1>2. CASE Install!WriteSettings
  BY <1>1, <1>2, Merged DEF Install!WriteSettings, SettingsTyped
<1>3. CASE Install!ReadSettings
  BY <1>1, <1>3 DEF Install!ReadSettings, SettingsTyped
<1>4. CASE Install!Killed
  <2>1. read' = Install!NoSettings
        /\ settings' \in {settings, [Install!NoSettings EXCEPT !.valid = FALSE]}
    BY <1>4 DEF Install!Killed
  <2>2. [Install!NoSettings EXCEPT !.valid = FALSE] \in Install!Settings
    BY DEF Install!NoSettings, Install!Settings
  <2> QED
    BY <1>1, <2>1, <2>2 DEF SettingsTyped
<1>5. CASE Install!RepairSettings
  BY <1>5 DEF Install!RepairSettings, SettingsTyped, Install!Settings
<1>6. ASSUME \/ \E v \in Install!Version, r \in SUBSET Roles : Install!Start(v, r)
             \/ \E v \in Install!Version : \/ Install!runBriefInstall(v)
                                           \/ Install!runPlanInstall(v)
                                           \/ Install!runDevInstall(v)
             \/ Install!Overwrite \/ Install!Decline \/ Install!CopyFile \/ Install!ToInline
             \/ Install!InlineFile \/ Install!PackageDone \/ Install!WriteManifests
             \/ Install!WriteWorkflowsManifest \/ Install!SetupProjectRuntime
             \/ \E p : Install!Edit(p)
             \/ UNCHANGED Install!vars
      PROVE  SettingsTyped'
  <2>1. UNCHANGED <<settings, read>>
    BY <1>6
    DEF Install!Start, Install!runBriefInstall, Install!runPlanInstall, Install!runDevInstall,
        Install!StartPackage, Install!Overwrite, Install!Decline, Install!CopyFile,
        Install!ToInline, Install!InlineFile, Install!PackageDone, Install!WriteManifests,
        Install!WriteWorkflowsManifest, Install!SetupProjectRuntime, Install!Edit, Install!vars
  <2> QED
    BY <2>1 DEF SettingsTyped
<1> QED
  BY <1>2, <1>3, <1>4, <1>5, <1>6 DEF Install!Next

(* The contents an install makes are no edits.                             *)
LEMMA Installed ==
  ASSUME Stages, Contents, pc # "idle"
  PROVE  /\ version \in Made /\ Install!None \in Made
         /\ ~Install!IsEdit(version) /\ ~Install!IsEdit(Install!None)
         /\ \A p : Install!installContent(p) \in {version, Install!None}
<1>1. version \in Install!Version /\ edits \in Nat
  BY Sizes DEF Stages, Contents
<1>2. version > 0 /\ version \in Int /\ Install!None = 0 /\ -edits <= 0 /\ -edits \in Int
  BY <1>1, Sizes DEF Install!Version, Install!None
<1>3. version \in Install!Content /\ Install!None \in Install!Content
  BY <1>1, Sizes
<1>4. /\ version \in Made /\ Install!None \in Made
      /\ ~Install!IsEdit(version) /\ ~Install!IsEdit(Install!None)
  BY <1>2, <1>3 DEF Made, Install!IsEdit
<1>5. ASSUME NEW p
      PROVE  Install!installContent(p) \in {version, Install!None}
  BY DEF Install!installContent, Install!handleBriefContent, Install!handlePlanContent,
         Install!handleScanContent, Install!copyRoleFiles
<1> QED
  BY <1>4, <1>5

(* Steps that touch no file.                                               *)
Untouched == UNCHANGED <<disk, manifest, patches, edits, owed, mistaken>>

LEMMA ElsewhereKeeps ==
  ASSUME Stages, Contents, OwedIsKnown,
         \/ \E v \in Install!Version, r \in SUBSET Roles : Install!Start(v, r)
         \/ \E v \in Install!Version : \/ Install!runBriefInstall(v)
                                       \/ Install!runPlanInstall(v)
                                       \/ Install!runDevInstall(v)
         \/ Install!Decline \/ Install!ToInline \/ Install!PackageDone
         \/ Install!SetupProjectRuntime \/ Install!ReadSettings
         \/ Install!WriteSettings \/ Install!RepairSettings \/ UNCHANGED Install!vars
  PROVE  Contents' /\ OwedIsKnown'
<1> USE DEF Install!install, Install!files, Install!promise
<1>1. Untouched
  BY DEF Untouched, Install!Start, Install!runBriefInstall, Install!runPlanInstall,
         Install!runDevInstall, Install!StartPackage, Install!Decline, Install!ToInline,
         Install!PackageDone, Install!SetupProjectRuntime, Install!ReadSettings,
         Install!WriteSettings, Install!RepairSettings, Install!vars
<1>2. Contents'
  BY <1>1 DEF Untouched, Contents, Made
<1>3. \A e \in owed : Safe(e) => Safe(e)'
  BY <1>1 DEF Untouched, Safe
<1>4. CASE \E v \in Install!Version, r \in SUBSET Roles : Install!Start(v, r)
  <2>1. /\ pc = "idle" /\ pc' = "existing"
        /\ modified' = IF Install!hasExisting THEN Install!detectModifiedFiles ELSE {}
    BY <1>4 DEF Install!Start
  <2>2. ASSUME NEW e \in owed, NEW p \in Install!Tracked, Told(e, p)
        PROVE  Told(e, p)'
    <3>1. disk[p] = e /\ manifest[p] \notin {Install!None, e} /\ e # Install!None
      BY <2>2, Sizes DEF Told, Contents, Made, Install!IsEdit, Install!None
    <3>2. p \in modified'
      BY <2>1, <3>1 DEF Install!hasExisting, Install!detectModifiedFiles
    <3> QED
      BY <1>1, <3>1, <3>2 DEF Told, Untouched
  <2>3. ASSUME NEW e \in owed', ~Safe(e)'
        PROVE  \E p \in Install!Tracked : Told(e, p)'
    <3>1. e \in owed /\ ~Safe(e)
      BY <1>1, <1>3, <2>3 DEF Untouched
    <3>2. PICK p \in Install!Tracked : Told(e, p)
      BY <3>1 DEF OwedIsKnown
    <3> QED
      BY <2>2, <3>1, <3>2
  <2>4. OwedIsKnown'
    BY <2>1, <2>3 DEF OwedIsKnown
  <2> QED
    BY <1>2, <2>4
<1>5. ASSUME /\ pc' # "existing" \/ (pc' = pc /\ modified' = modified)
             /\ \/ who' # "terminal" \/ (pc' = pc /\ who' = who)
                \/ pc \notin {"idle", "existing"} /\ who = "terminal"
      PROVE  OwedIsKnown'
  <2>1. \A e \in owed : \A p \in Install!Tracked : Told(e, p) => Told(e, p)'
    BY <1>1, <1>5 DEF Told, Untouched
  <2>2. owed' = owed
    BY <1>1 DEF Untouched
  <2>3. ASSUME NEW e \in owed, ~Safe(e)
        PROVE  /\ who' # "terminal" \/ pc' = "existing"
               /\ \E p \in Install!Tracked : Told(e, p)'
    BY <1>5, <2>1, <2>3 DEF OwedIsKnown
  <2> QED
    BY <1>3, <2>2, <2>3 DEF OwedIsKnown
<1>6. CASE ~\E v \in Install!Version, r \in SUBSET Roles : Install!Start(v, r)
  <2>1. /\ pc' # "existing" \/ (pc' = pc /\ modified' = modified)
        /\ \/ who' # "terminal" \/ (pc' = pc /\ who' = who)
           \/ pc \notin {"idle", "existing"} /\ who = "terminal"
    BY <1>6
    DEF Stages, Install!runBriefInstall, Install!runPlanInstall, Install!runDevInstall,
        Install!StartPackage, Install!Decline, Install!ToInline, Install!PackageDone,
        Install!SetupProjectRuntime, Install!ReadSettings, Install!WriteSettings,
        Install!RepairSettings, Install!Finish, Install!vars
  <2> QED
    BY <1>2, <1>5, <2>1
<1> QED
  BY <1>4, <1>6

(* What a backup writes over was an edit's place only if it is one itself, *)
(* or if files have been copied and not recorded.                          *)
LEMMA OverwriteKeeps ==
  ASSUME Stages, Contents, Recorded, OwedIsKnown, Install!Overwrite
  PROVE  Contents' /\ OwedIsKnown'
<1>1. /\ pc = "existing" /\ pc' = "copy"
      /\ patches' = [n \in Name |-> Install!Saved(n)]
      /\ owed' = owed \ Install!Replaced(TRUE)
      /\ mistaken' = mistaken \union
           (IF unrecorded THEN owed \intersect Install!Replaced(FALSE) ELSE {})
      /\ UNCHANGED <<disk, manifest, edits>>
  BY DEF Install!Overwrite, Install!Backup, Install!Copying
<1>2. \A n \in Name : /\ <<"commands", n>> \in Install!Tracked
                      /\ <<"workflows", n>> \in Install!Tracked
  BY DEF Install!Tracked
<1>3. patches' \in [Name -> Made]
  BY <1>1, <1>2, Sizes DEF Contents, Install!Saved
<1>4. Contents'
  BY <1>1, <1>3 DEF Contents, Made
<1>5. ASSUME NEW e \in owed', NEW n \in Name, e \in Install!WrittenOver(n)
      PROVE  Safe(e)'
  <2>1. CASE Install!Saved(n) = e
    BY <1>1, <2>1 DEF Safe
  <2>2. CASE Install!Saved(n) # e
    <3>1. e \in owed /\ e \notin Install!Replaced(TRUE)
      BY <1>1, <1>5
    <3>2. ~Install!IsEdit(Install!Saved(n))
      BY <1>5, <2>2, <3>1 DEF Install!Replaced
    <3>3. e \in Install!Replaced(FALSE)
      BY <1>5, <2>2, <3>2 DEF Install!Replaced, Install!IsEdit
    <3>4. PICK p \in modified : Install!Saved(n) = disk[p]
      BY <1>5, <2>2 DEF Install!Saved, Install!WrittenOver
    <3>5. unrecorded
      BY <1>1, <3>2, <3>4 DEF Recorded
    <3> QED
      BY <1>1, <3>1, <3>3, <3>5 DEF Safe
  <2> QED
    BY <2>1, <2>2
<1>6. ASSUME NEW e \in owed'
      PROVE  Safe(e)'
  <2>1. e \in owed
    BY <1>1, <1>6
  <2>2. CASE e \in mistaken
    BY <1>1, <2>2 DEF Safe
  <2>3. CASE \E n \in Name : patches[n] = e
    BY <1>5, <1>6, <2>3 DEF Install!WrittenOver
  <2>4. CASE ~Safe(e)
    <3>1. PICK p \in Install!Tracked : disk[p] = e /\ p \in modified
      BY <1>1, <2>1, <2>4 DEF OwedIsKnown, Told
    <3>2. PICK d \in {"commands", "workflows"}, n \in Name : p = <<d, n>>
      BY DEF Install!Tracked
    <3>3. CASE d = "workflows"
      BY <1>1, <3>1, <3>2, <3>3 DEF Safe, Install!Saved
    <3>4. CASE d = "commands"
      <4>1. e \in Install!WrittenOver(n)
        BY <3>1, <3>2, <3>4 DEF Install!WrittenOver
      <4> QED
        BY <1>5, <1>6, <4>1
    <3> QED
      BY <3>3, <3>4
  <2> QED
    BY <2>2, <2>3, <2>4 DEF Safe
<1> QED
  BY <1>4, <1>6 DEF OwedIsKnown

LEMMA CopyKeeps ==
  ASSUME Stages, Contents, OwedIsKnown, Install!CopyFile
  PROVE  Contents' /\ OwedIsKnown'
<1>1. /\ pc = "copy" /\ UNCHANGED <<manifest, patches, edits, pc, who, modified, mistaken>>
      /\ LET p == Head(todo) IN
         \/ /\ who = "terminal"
            /\ disk' = [disk EXCEPT ![p] = Install!installContent(p)]
            /\ owed' = owed
         \/ /\ who = "package"
            /\ disk' = [disk EXCEPT ![p] = version]
            /\ owed' = owed \ ({disk[p]} \ {patches[n] : n \in Name})
  BY DEF Install!CopyFile, Install!install
<1>2. PICK p : p = Head(todo)
  OBVIOUS
<1>3. PICK c \in {version, Install!None} : disk' = [disk EXCEPT ![p] = c]
  BY <1>1, <1>2, Installed
<1>4. c \in Made
  BY <1>1, Installed
<1>5. disk' \in [Install!Path -> Made] /\ \A q \in Install!Path : q # p => disk'[q] = disk[q]
  BY <1>3, <1>4 DEF Contents
<1>6. owed' \subseteq owed
  BY <1>1
<1>7. Contents'
  BY <1>1, <1>5, <1>6 DEF Contents, Made
<1>8. \A e \in owed : Safe(e) => Safe(e)'
  BY <1>1 DEF Safe
<1>9. CASE who = "terminal"
  <2>1. \A e \in owed : Safe(e)
    BY <1>1, <1>9 DEF OwedIsKnown
  <2> QED
    BY <1>6, <1>7, <1>8, <2>1 DEF OwedIsKnown
<1>10. CASE who = "package"
  <2>1. ASSUME NEW e \in owed', ~Safe(e)
        PROVE  \E q \in Install!Tracked : Told(e, q)'
    <3>1. e \in owed /\ (e = disk[p] => e \in {patches[n] : n \in Name})
      BY <1>1, <1>2, <1>10, <2>1
    <3>2. e # disk[p]
      BY <2>1, <3>1 DEF Safe
    <3>3. PICK q \in Install!Tracked : Told(e, q)
      BY <2>1, <3>1 DEF OwedIsKnown
    <3>4. disk'[q] = disk[q]
      BY <1>5, <3>2, <3>3, Sizes DEF Told
    <3> QED
      BY <1>1, <3>3, <3>4 DEF Told
  <2>2. who' # "terminal"
    BY <1>1, <1>10
  <2> QED
    BY <1>6, <1>7, <1>8, <2>1, <2>2 DEF OwedIsKnown
<1> QED
  BY <1>1, <1>9, <1>10

LEMMA InlineKeeps ==
  ASSUME Stages, Contents, OwedIsKnown, Install!InlineFile
  PROVE  Contents' /\ OwedIsKnown'
<1>1. /\ pc = "inline" /\ UNCHANGED <<manifest, patches, edits, owed, mistaken, pc, who, modified>>
  BY DEF Install!InlineFile, Install!install
<1>2. PICK p, w : /\ p = Head(todo) /\ w = disk[<<"workflows", p[2]>>]
                  /\ disk' = [disk EXCEPT ![p] =
                       IF disk[p] = version /\ w # Install!None THEN w ELSE @]
  BY DEF Install!InlineFile
<1>3. disk' \in [Install!Path -> Made]
  <2>1. CASE p \notin Install!Path
    BY <1>2, <2>1 DEF Contents
  <2>2. CASE p \in Install!Path
    <3>1. w \in Made
      BY <1>2, <2>2 DEF Contents, Install!Path, Install!Dir
    <3> QED
      BY <1>2, <2>2, <3>1 DEF Contents
  <2> QED
    BY <2>1, <2>2
<1>4. \A q \in Install!Path : disk[q] # version => disk'[q] = disk[q]
  BY <1>2 DEF Contents
<1>5. Contents'
  BY <1>1, <1>3 DEF Contents, Made
<1>6. ASSUME NEW e \in owed, NEW q \in Install!Tracked, Told(e, q)
      PROVE  Told(e, q)'
  <2>1. e # version
    BY <1>1, Installed DEF Contents
  <2>2. disk'[q] = disk[q]
    BY <1>4, <1>6, <2>1, Sizes DEF Told
  <2> QED
    BY <1>1, <1>6, <2>2 DEF Told
<1>7. \A e \in owed : Safe(e) => Safe(e)'
  BY <1>1 DEF Safe
<1> QED
  BY <1>1, <1>5, <1>6, <1>7 DEF OwedIsKnown

(* Manifests are written by a terminal that has backed up, or are cut      *)
(* short by one that is killed.                                            *)
LEMMA ManifestsKeep ==
  ASSUME Stages, Contents, OwedIsKnown,
         Install!WriteManifests \/ Install!WriteWorkflowsManifest
  PROVE  Contents' /\ OwedIsKnown'
<1>1. /\ pc \notin {"idle", "existing"} /\ who = "terminal"
      /\ UNCHANGED <<disk, patches, edits, owed, mistaken>>
      /\ manifest' \in [Install!Tracked -> Made]
  BY Sizes
  DEF Install!promise, Install!WriteManifests, Install!WriteWorkflowsManifest, Install!AllCopied, Stages,
      Contents
<1>2. \A e \in owed : Safe(e)'
  BY <1>1 DEF OwedIsKnown, Safe
<1> QED
  BY <1>1, <1>2 DEF OwedIsKnown, Contents, Made

LEMMA KilledKeeps ==
  ASSUME Stages, Contents, OwedIsKnown, Install!Killed
  PROVE  Contents' /\ OwedIsKnown'
<1>1. /\ pc \notin {"idle", "existing"} /\ pc' = "idle" /\ who' = "none"
      /\ UNCHANGED <<disk, patches, edits, owed, mistaken>>
  BY DEF Install!Killed, Install!Finish, Install!promise
<1>2. \/ manifest' = manifest
      \/ /\ who = "terminal"
         /\ manifest' = [p \in Install!Tracked |->
              IF p[1] = (IF pc = "manifests" THEN "workflows" ELSE "commands")
              THEN Install!None ELSE manifest[p]]
  BY DEF Install!Killed
<1>3. Contents'
  <2>1. manifest' \in [Install!Tracked -> Made]
    BY <1>1, <1>2, Installed DEF Contents
  <2> QED
    BY <1>1, <2>1 DEF Contents, Made
<1>4. \A e \in owed : Safe(e) => Safe(e)'
  BY <1>1 DEF Safe
<1>5. CASE who = "terminal"
  BY <1>1, <1>3, <1>4, <1>5 DEF OwedIsKnown
<1>6. CASE who # "terminal"
  <2>1. manifest' = manifest
    BY <1>2, <1>6
  <2>2. \A e \in owed : \A p \in Install!Tracked : Told(e, p) => Told(e, p)'
    BY <1>1, <2>1 DEF Told
  <2> QED
    BY <1>1, <1>3, <1>4, <2>2 DEF OwedIsKnown
<1> QED
  BY <1>5, <1>6

(* The user's next edit is another than all there are.                     *)
LEMMA EditKeeps ==
  ASSUME Stages, Contents, OwedIsKnown, NEW p, Install!Edit(p)
  PROVE  Contents' /\ OwedIsKnown'
<1>1. /\ pc \in {"idle", "existing"} /\ edits < MaxEdits /\ edits' = edits + 1
      /\ disk' = [disk EXCEPT ![p] = -edits']
      /\ UNCHANGED <<manifest, patches, mistaken, pc, who, modified>>
  BY DEF Install!Edit, Install!install
<1>2. PICK new \in {{}, {-edits'}} :
        /\ owed' = (owed \ {disk[p]}) \union new
        /\ new # {} => /\ p \in Install!Tracked /\ manifest[p] # Install!None
                       /\ pc = "idle" \/ p \in modified
  BY DEF Install!Edit
<1>3. PICK x : x = -edits'
  OBVIOUS
<1>4. /\ edits \in Nat /\ edits' \in 0..MaxEdits /\ x \in Int
      /\ x < -edits /\ x < 0 /\ x >= -MaxEdits /\ x >= -edits'
  BY <1>1, <1>3, Sizes DEF Contents
<1>5. x \in Made' /\ Made \subseteq Made' /\ x \notin Made
  <2>1. x \in Install!Content
    BY <1>4, Sizes DEF Install!Content
  <2>2. \A c \in Install!Content : c >= -edits => c >= -edits'
    BY <1>1, <1>4, Sizes
  <2>3. ~(x >= -edits)
    BY <1>4
  <2> QED
    BY <1>4, <2>1, <2>2, <2>3 DEF Made
<1>6. disk' \in [Install!Path -> Made'] /\ \A q \in Install!Path : q # p => disk'[q] = disk[q]
  BY <1>1, <1>3, <1>5 DEF Contents
<1>7. owed' \subseteq {c \in Made' : Install!IsEdit(c)}
  BY <1>2, <1>3, <1>4, <1>5 DEF Contents, Install!IsEdit
<1>8. Contents'
  <2>1. manifest' \in [Install!Tracked -> Made'] /\ patches' \in [Name -> Made']
    BY <1>1, <1>5 DEF Contents
  <2> QED
    BY <1>1, <1>4, <1>5, <1>6, <1>7, <2>1 DEF Contents
<1>9. ASSUME NEW e \in owed'
      PROVE  \/ Safe(e)'
             \/ /\ who' # "terminal" \/ pc' = "existing"
                /\ \E q \in Install!Tracked : Told(e, q)'
  <2>1. CASE e \in new
    <3>1. e = x /\ p \in Install!Tracked /\ manifest[p] # Install!None
          /\ (pc = "existing" => p \in modified)
      BY <1>2, <1>3, <2>1
    <3>2. disk'[p] = e /\ manifest[p] # e
      BY <1>1, <1>3, <1>5, <3>1, Sizes DEF Contents
    <3>3. Told(e, p)'
      BY <1>1, <3>1, <3>2 DEF Told
    <3> QED
      BY <1>1, <3>1, <3>3 DEF Stages
  <2>2. CASE e \in owed /\ e # disk[p]
    <3>1. CASE Safe(e)
      BY <1>1, <3>1 DEF Safe
    <3>2. CASE ~Safe(e)
      <4>1. PICK q \in Install!Tracked : Told(e, q)
        BY <2>2, <3>2 DEF OwedIsKnown
      <4>2. disk'[q] = disk[q]
        BY <1>6, <2>2, <4>1, Sizes DEF Told
      <4>3. Told(e, q)'
        BY <1>1, <4>1, <4>2 DEF Told
      <4> QED
        BY <1>1, <2>2, <3>2, <4>3 DEF OwedIsKnown
    <3> QED
      BY <3>1, <3>2
  <2> QED
    BY <1>2, <2>1, <2>2
<1> QED
  BY <1>8, <1>9 DEF OwedIsKnown

LEMMA RecordedKeeps ==
  ASSUME Stages, Contents, Recorded, [Install!Next]_(Install!vars)
  PROVE  Recorded'
<1> USE DEF Install!install, Install!files, Install!promise
<1>1. ASSUME NEW v \in Install!Version, NEW r \in SUBSET Roles, Install!Start(v, r)
      PROVE  Recorded'
  BY <1>1 DEF Install!Start, Install!detectModifiedFiles, Recorded
<1>2. CASE Install!CopyFile \/ Install!InlineFile
  BY <1>2 DEF Install!CopyFile, Install!InlineFile, Recorded
<1>3. CASE Install!WriteManifests
  <2>1. /\ pc' = "manifests" /\ UNCHANGED <<disk, unrecorded>>
        /\ \A p \in Install!Tracked :
             manifest'[p] = IF p[1] = "commands" THEN disk[p] ELSE manifest[p]
    BY <1>3 DEF Install!WriteManifests
  <2> QED
    BY <2>1 DEF Recorded
<1>4. CASE Install!WriteWorkflowsManifest
  <2>1. /\ pc = "manifests" /\ pc' = "runtime" /\ UNCHANGED disk
        /\ \A p \in Install!Tracked :
             manifest'[p] = IF p[1] = "workflows" THEN disk[p] ELSE manifest[p]
    BY <1>4 DEF Install!WriteWorkflowsManifest
  <2>2. \A p \in Install!Tracked : p[1] = "commands" \/ p[1] = "workflows"
    BY DEF Install!Tracked
  <2>3. \A p \in Install!Tracked : manifest'[p] = disk'[p]
    BY <2>1, <2>2 DEF Recorded
  <2> QED
    BY <2>1, <2>3 DEF Recorded
<1>5. CASE Install!Killed
  <2>1. /\ pc' = "idle" /\ UNCHANGED <<disk, unrecorded>>
        /\ \A p \in Install!Tracked : manifest'[p] \in {manifest[p], Install!None}
    BY <1>5 DEF Install!Killed, Install!Finish
  <2> QED
    BY <2>1 DEF Recorded
<1>6. ASSUME NEW p, Install!Edit(p)
      PROVE  Recorded'
  <2>1. PICK x : x = -edits'
    OBVIOUS
  <2>2. Install!IsEdit(x)
    BY <1>6, <2>1, Sizes DEF Install!Edit, Install!IsEdit, Contents
  <2>3. /\ pc \in {"idle", "existing"} /\ UNCHANGED <<manifest, pc, modified, unrecorded>>
        /\ \A q \in Install!Path : disk'[q] = IF q = p THEN x ELSE disk[q]
    BY <1>6, <2>1 DEF Install!Edit, Contents
  <2>4. \A q \in Install!Tracked : disk'[q] = disk[q] \/ Install!IsEdit(disk'[q])
    BY <2>2, <2>3, Sizes
  <2>5. \A q \in modified : disk'[q] = disk[q] \/ Install!IsEdit(disk'[q])
    BY <1>6, <2>1, <2>2 DEF Install!Edit, Contents
  <2> QED
    BY <2>3, <2>4, <2>5 DEF Recorded
<1>7. ASSUME UNCHANGED <<disk, manifest, unrecorded>>,
             pc' \notin {"existing", "manifests"} \/ UNCHANGED <<pc, modified>>
      PROVE  Recorded'
  BY <1>7 DEF Recorded
<1>8. CASE Install!Overwrite \/ Install!Decline \/ Install!ToInline \/ Install!PackageDone
           \/ Install!SetupProjectRuntime \/ Install!ReadSettings \/ Install!WriteSettings
           \/ Install!RepairSettings \/ UNCHANGED Install!vars
  BY <1>7, <1>8
  DEF Install!Overwrite, Install!Copying, Install!Decline, Install!ToInline,
      Install!PackageDone, Install!SetupProjectRuntime, Install!ReadSettings,
      Install!WriteSettings, Install!RepairSettings, Install!Finish, Install!vars
<1>9. ASSUME NEW v \in Install!Version,
             Install!runBriefInstall(v) \/ Install!runPlanInstall(v) \/ Install!runDevInstall(v)
      PROVE  Recorded'
  BY <1>7, <1>9 DEF Install!runBriefInstall, Install!runPlanInstall, Install!runDevInstall,
                    Install!StartPackage
<1> QED
  BY <1>1, <1>2, <1>3, <1>4, <1>5, <1>6, <1>8, <1>9 DEF Install!Next

LEMMA InstallKeeps == InstallInv /\ [Install!Next]_(Install!vars) => InstallInv'
<1> SUFFICES ASSUME InstallInv, [Install!Next]_(Install!vars) PROVE InstallInv'
  OBVIOUS
<1>1. Stages /\ SettingsTyped /\ Contents /\ Recorded /\ OwedIsKnown
  BY DEF InstallInv
<1>2. Stages' /\ SettingsTyped' /\ Recorded'
  BY <1>1, StagesKeep, SettingsKeep, RecordedKeeps
<1>3. CASE Install!Overwrite \/ Install!CopyFile \/ Install!InlineFile
           \/ Install!WriteManifests \/ Install!WriteWorkflowsManifest \/ Install!Killed
  BY <1>1, <1>2, <1>3, OverwriteKeeps, CopyKeeps, InlineKeeps, ManifestsKeep, KilledKeeps
     DEF InstallInv
<1>4. ASSUME NEW p, Install!Edit(p)
      PROVE  InstallInv'
  BY <1>1, <1>2, <1>4, EditKeeps DEF InstallInv
<1>5. ASSUME \/ \E v \in Install!Version, r \in SUBSET Roles : Install!Start(v, r)
             \/ \E v \in Install!Version : \/ Install!runBriefInstall(v)
                                           \/ Install!runPlanInstall(v)
                                           \/ Install!runDevInstall(v)
             \/ Install!Decline \/ Install!ToInline \/ Install!PackageDone
             \/ Install!SetupProjectRuntime \/ Install!ReadSettings
             \/ Install!WriteSettings \/ Install!RepairSettings \/ UNCHANGED Install!vars
      PROVE  InstallInv'
  BY <1>1, <1>2, <1>5, ElsewhereKeeps DEF InstallInv
<1> QED
  BY <1>3, <1>4, <1>5 DEF Install!Next

(* The rest of the type of an install's state: what is still to be done.   *)
ToDo ==
  /\ version \in Install!Version \union {Install!None} /\ modified \subseteq Install!Tracked
  /\ todo \in Seq(Install!Path) /\ (todo # <<>> => pc \in {"copy", "inline"})

LEMMA PathsInOrder ==
  ASSUME NEW S \in SUBSET Install!Path
  PROVE  Install!SetToSeq(S) \in Seq(Install!Path)
<1>1. IsFiniteSet(S)
  <2>1. PICK names : names = Name /\ IsFiniteSet(names)
    BY ToolBounds DEF Install!PackageAssumption, Install!IsFiniteSet, IsFiniteSet
  <2>2. PICK dirs : dirs = Install!Dir /\ IsFiniteSet(dirs)
    <3>1. IsFiniteSet({}) /\ \A T, x : IsFiniteSet(T) => IsFiniteSet(T \union {x})
      BY FS_EmptySet, FS_AddElement
    <3>2. IsFiniteSet((({} \union {"commands"}) \union {"workflows"}) \union {"agents"})
      BY <3>1
    <3> QED
      BY <3>2 DEF Install!Dir
  <2>3. IsFiniteSet(dirs \X names)
    BY <2>1, <2>2, FS_Product
  <2> QED
    BY <2>1, <2>2, <2>3, FS_Subset DEF Install!Path
<1>2. PICK n \in Nat : n = Cardinality(S) /\ n = Install!Cardinality(S)
  BY <1>1, FS_CardinalityType DEF Cardinality, Install!Cardinality
<1>3. ExistsBijection(1..n, S)
  BY <1>1, <1>2, FS_CardinalityType
<1>4. \E f \in [1..n -> S] : Install!IsInjective(f)
  BY <1>3 DEF ExistsBijection, Bijection, Injection, IsInjective, Install!IsInjective
<1>5. Install!SetToSeq(S) \in [1..n -> S]
  BY <1>2, <1>4 DEF Install!SetToSeq
<1>6. Install!SetToSeq(S) \in [1..n -> Install!Path]
  BY <1>5
<1> QED
  BY <1>6

LEMMA ToDoKeeps ==
  ASSUME Stages, ToDo, [Install!Next]_(Install!vars)
  PROVE  ToDo'
<1> USE DEF ToDo, Install!install
<1>1. /\ \A v \in Install!Version : Ships[v] \in Seq(Install!Path)
      /\ \A pkg \in Install!Package : Carries[pkg] \in Seq(Install!Path)
      /\ Install!Package = {"brief", "plan", "dev"}
  BY ToolBounds DEF Install!PackageAssumption, Install!Package
<1>2. ASSUME NEW v \in Install!Version, NEW r \in SUBSET Roles, Install!Start(v, r)
      PROVE  ToDo'
  BY <1>2 DEF Install!Start, Install!detectModifiedFiles
<1>3. ASSUME NEW v \in Install!Version,
             Install!runBriefInstall(v) \/ Install!runPlanInstall(v) \/ Install!runDevInstall(v)
      PROVE  ToDo'
  BY <1>1, <1>3 DEF Install!runBriefInstall, Install!runPlanInstall, Install!runDevInstall,
                    Install!StartPackage
<1>4. CASE Install!Overwrite
  BY <1>1, <1>4 DEF Install!Overwrite, Install!Copying, Stages
<1>5. CASE Install!CopyFile \/ Install!InlineFile
  <2>1. /\ todo # <<>> /\ todo' = Tail(todo) /\ pc \in {"copy", "inline"}
        /\ UNCHANGED <<pc, version, modified>>
    BY <1>5 DEF Install!CopyFile, Install!InlineFile
  <2>2. todo' \in Seq(Install!Path)
    BY <2>1
  <2> QED
    BY <2>1, <2>2
<1>6. CASE Install!ToInline
  <2>1. PICK S \in SUBSET Install!Path : todo' = Install!SetToSeq(S)
    BY <1>6 DEF Install!ToInline
  <2> QED
    BY <1>6, <2>1, PathsInOrder DEF Install!ToInline
<1>7. ASSUME Install!Finish, UNCHANGED todo, todo = <<>> PROVE ToDo'
  BY <1>7 DEF Install!Finish
<1>8. CASE Install!Decline \/ Install!PackageDone
  BY <1>8, <1>7 DEF Install!Decline, Install!PackageDone, Install!AllCopied
<1>9. CASE Install!WriteManifests \/ Install!WriteWorkflowsManifest
           \/ Install!SetupProjectRuntime \/ Install!ReadSettings
  BY <1>9 DEF Install!WriteManifests, Install!AllCopied, Install!WriteWorkflowsManifest,
              Install!SetupProjectRuntime, Install!ReadSettings
<1>10. CASE Install!WriteSettings
  BY <1>10, <1>7 DEF Install!WriteSettings
<1>11. CASE Install!Killed
  BY <1>11 DEF Install!Killed, Install!Finish
<1>12. ASSUME NEW p, Install!Edit(p) PROVE ToDo'
  BY <1>12 DEF Install!Edit
<1>13. CASE Install!RepairSettings \/ UNCHANGED Install!vars
  BY <1>13 DEF Install!RepairSettings, Install!vars
<1> QED
  BY <1>2, <1>3, <1>4, <1>5, <1>6, <1>8, <1>9, <1>10, <1>11, <1>12, <1>13
  DEF Install!Next

LEMMA ToDoBegins == Install!Init => ToDo
BY DEF Install!Init, ToDo

LEMMA InstallAlways == Spec => [](tool = "install" => InstallInv /\ ToDo)
<1> DEFINE Inv == tool = "install" => InstallInv /\ ToDo
<1>1. Init => Inv
  BY InstallBegins, ToDoBegins DEF Init
<1>2. Inv /\ [Next]_vars => Inv'
  <2> SUFFICES ASSUME Inv, [Next]_vars, tool' = "install" PROVE InstallInv' /\ ToDo'
    OBVIOUS
  <2>1. tool = "install" /\ InstallInv /\ ToDo
    BY DEF Next, vars
  <2>2. [Install!Next]_(Install!vars)
    BY <2>1 DEF Next, vars, ofInstall, Install!vars, Install!files, Install!install,
                   Install!promise
  <2> QED
    BY <2>1, <2>2, InstallKeeps, ToDoKeeps DEF InstallInv
<1> QED
  BY <1>1, <1>2, PTL DEF Spec

(* An edit of a file that the manifests name is backed up before an update *)
(* overwrites it, for any files, versions and edits, wherever installs of  *)
(* the terminal and the packages stop half-way; a backup is replaced by    *)
(* what is no edit only where files have been copied since the last whole  *)
(* update (installContent and backupModifiedFiles).                        *)
THEOREM EditsAlwaysSurvive == Spec => []EditsSurvive
<1>1. (tool = "install" => InstallInv /\ ToDo) => EditsSurvive
  BY Sizes DEF InstallInv, OwedIsKnown, Safe, Told, EditsSurvive, Install!EditsSurvive,
               Install!Kept
<1> QED
  BY <1>1, InstallAlways, PTL

-----------------------------------------------------------------------------
(* quality.json *)

Counters == [Ticket -> [reworks : Nat, delivered : BOOLEAN]]
Copy == [is : {"absent", "torn", "whole"}, data : Counters]
Job == [pc : Ledger!PC, key : Ticket, outcome : Ledger!Status, data : Counters,
        file : {"none", "tmp", "quality", "gone"}]

Files ==
  /\ quality \in Copy /\ tmp \in Copy /\ counted \in Counters /\ overlapped \in BOOLEAN
  /\ run \in [Ledger!Runner -> {Ledger!Idle} \union Job]
  /\ begun \in [Ticket -> [all : Nat, reworks : Nat]]

(* What a run makes of the counters.                                       *)
Updated(data, job) ==
  IF job.outcome = "REWORK" THEN [data EXCEPT ![job.key].reworks = @ + 1]
  ELSE [data EXCEPT ![job.key].delivered = TRUE]

(* Alone, a process replaces the file by what it read and its own work.    *)
OneAtATime ==
  ~overlapped =>
    /\ \A r, q \in Ledger!Runner : Ledger!AtQuality(r) /\ Ledger!AtQuality(q) => r = q
    /\ quality.data = counted
    /\ \A r \in Ledger!Runner : Ledger!AtQuality(r) =>
         /\ run[r].data = Updated(counted, run[r])
         /\ run[r].pc = "write" => run[r].file = "tmp"
         /\ run[r].pc = "rename" => tmp = Ledger!Whole(run[r].data)

(* A rework that began and has not read the counters yet is one they, and  *)
(* all copies of them, are short of.                                       *)
Uncounted(job, t) ==
  IF job.pc \in {"append", "read"} /\ job.key = t /\ job.outcome = "REWORK" THEN 1 ELSE 0

Short(data, t) ==
  data[t].reworks + Uncounted(run["loop"], t) + Uncounted(run["other"], t) <= begun[t].reworks

NoneInvented ==
  \A t \in Ticket :
    /\ Short(quality.data, t) /\ Short(tmp.data, t)
    /\ \A r \in Ledger!Runner : Ledger!AtQuality(r) => Short(run[r].data, t)

LedgerInv == Files /\ OneAtATime /\ NoneInvented

LEMMA NoCounts ==
  /\ Ledger!emptyData \in Counters /\ \A t \in Ticket : Ledger!emptyData[t].reworks = 0
  /\ Ledger!Torn \in Copy /\ Ledger!Absent \in Copy
  /\ Ledger!Torn.data = Ledger!emptyData /\ Ledger!Absent.data = Ledger!emptyData
  /\ Ledger!Idle.pc = "idle" /\ \A t : Uncounted(Ledger!Idle, t) = 0
  /\ \A data \in Counters : Ledger!Whole(data) \in Copy /\ Ledger!Whole(data).data = data
BY DEF Ledger!emptyData, Ledger!NoEntry, Counters, Ledger!Torn, Ledger!Absent, Copy,
       Ledger!Idle, Uncounted, Ledger!Whole

LEMMA JobCounts ==
  ASSUME NEW job \in {Ledger!Idle} \union Job, NEW t \in Ticket
  PROVE  Uncounted(job, t) \in {0, 1}
BY DEF Uncounted

LEMMA UpdatedCounts ==
  ASSUME NEW data \in Counters, NEW job \in Job
  PROVE  /\ Updated(data, job) \in Counters
         /\ \A t \in Ticket : Updated(data, job)[t].reworks =
              data[t].reworks + IF job.outcome = "REWORK" /\ job.key = t THEN 1 ELSE 0
<1>1. job.key \in Ticket
  BY DEF Job
<1>2. CASE job.outcome = "REWORK"
  <2>1. Updated(data, job) = [data EXCEPT ![job.key].reworks = @ + 1]
    BY <1>2 DEF Updated
  <2> QED
    BY <1>1, <1>2, <2>1 DEF Counters
<1>3. CASE job.outcome # "REWORK"
  <2>1. Updated(data, job) = [data EXCEPT ![job.key].delivered = TRUE]
    BY <1>3 DEF Updated
  <2>2. PICK k \in Ticket : k = job.key
    BY <1>1
  <2>3. PICK new : new = [data EXCEPT ![k].delivered = TRUE]
    OBVIOUS
  <2>4. new \in Counters
    BY <2>3 DEF Counters
  <2>5. \A t \in Ticket : new[t].reworks = data[t].reworks /\ data[t].reworks \in Nat
    BY <2>3 DEF Counters
  <2> QED
    BY <1>3, <2>1, <2>2, <2>3, <2>4, <2>5
<1> QED
  BY <1>2, <1>3

LEMMA LedgerBegins == Ledger!Init => LedgerInv
<1> SUFFICES ASSUME Ledger!Init PROVE LedgerInv
  OBVIOUS
<1>1. Files
  BY NoCounts DEF Ledger!Init, Files
<1>2. \A r \in Ledger!Runner : run[r] = Ledger!Idle
  BY DEF Ledger!Init
<1>3. \A r \in Ledger!Runner : ~Ledger!AtQuality(r)
  BY <1>2, NoCounts DEF Ledger!AtQuality
<1>4. OneAtATime
  BY <1>3, NoCounts DEF Ledger!Init, OneAtATime
<1>5. NoneInvented
  BY <1>2, <1>3, NoCounts DEF Ledger!Init, NoneInvented, Short, Ledger!Runner
<1> QED
  BY <1>1, <1>4, <1>5 DEF LedgerInv

(* What one process becomes; the other stays.                              *)
LEMMA OnlyOne ==
  ASSUME Files, NEW r \in Ledger!Runner, NEW job \in {Ledger!Idle} \union Job,
         run' = [run EXCEPT ![r] = job]
  PROVE  /\ run' \in [Ledger!Runner -> {Ledger!Idle} \union Job] /\ run'[r] = job
         /\ \A q \in Ledger!Runner : q # r => run'[q] = run[q]
BY DEF Files

LEMMA ShortStays ==
  ASSUME Files, run' \in [Ledger!Runner -> {Ledger!Idle} \union Job], begun' = begun,
         NEW data \in Counters, NEW t \in Ticket, Short(data, t),
         \A q \in Ledger!Runner : Uncounted(run'[q], t) <= Uncounted(run[q], t)
  PROVE  Short(data, t)'
<1>1. /\ Uncounted(run["loop"], t) \in {0, 1} /\ Uncounted(run["other"], t) \in {0, 1}
      /\ Uncounted(run'["loop"], t) \in {0, 1} /\ Uncounted(run'["other"], t) \in {0, 1}
  BY JobCounts DEF Files, Ledger!Runner
<1>2. /\ Uncounted(run'["loop"], t) <= Uncounted(run["loop"], t)
      /\ Uncounted(run'["other"], t) <= Uncounted(run["other"], t)
  BY DEF Ledger!Runner
<1>3. data[t].reworks \in Nat /\ begun[t].reworks \in Nat
  BY DEF Counters, Files
<1> QED
  BY <1>1, <1>2, <1>3 DEF Short

(* Steps outside quality.json: a run that is short of a rework no longer   *)
(* is only short of less.                                                  *)
LEMMA OutsideKeeps ==
  ASSUME LedgerInv, NEW r \in Ledger!Runner, NEW job \in {Ledger!Idle} \union Job,
         run' = [run EXCEPT ![r] = job], job.pc \notin {"open", "write", "rename"},
         \A t \in Ticket : Uncounted(job, t) <= Uncounted(run[r], t),
         UNCHANGED <<quality, tmp, counted, begun, overlapped>>
  PROVE  LedgerInv'
<1>1. Files /\ OneAtATime /\ NoneInvented
  BY DEF LedgerInv
<1>2. /\ run' \in [Ledger!Runner -> {Ledger!Idle} \union Job] /\ run'[r] = job
      /\ \A q \in Ledger!Runner : q # r => run'[q] = run[q]
  BY <1>1, OnlyOne
<1>3. \A q \in Ledger!Runner :
        Ledger!AtQuality(q)' => q # r /\ Ledger!AtQuality(q) /\ run'[q] = run[q]
  BY <1>2 DEF Ledger!AtQuality
<1>4. Files'
  BY <1>1, <1>2 DEF Files
<1>5. OneAtATime'
  BY <1>1, <1>3 DEF OneAtATime
<1>6. ASSUME NEW data \in Counters, NEW t \in Ticket, Short(data, t)
      PROVE  Short(data, t)'
  <2>1. \A q \in Ledger!Runner : Uncounted(run'[q], t) <= Uncounted(run[q], t)
    BY <1>1, <1>2, JobCounts DEF Files
  <2> QED
    BY <1>1, <1>2, <1>6, <2>1, ShortStays
<1>7. NoneInvented'
  <2>1. /\ quality.data \in Counters /\ tmp.data \in Counters
        /\ \A q \in Ledger!Runner : Ledger!AtQuality(q) => run[q].data \in Counters
    BY <1>1, NoCounts DEF Files, Copy, Job, Ledger!AtQuality
  <2> QED
    BY <1>1, <1>3, <1>6, <2>1 DEF NoneInvented
<1> QED
  BY <1>4, <1>5, <1>7 DEF LedgerInv

LEMMA DeliverKeeps ==
  ASSUME LedgerInv, NEW r \in Ledger!Runner, NEW t \in Ticket, NEW outcome \in Ledger!Status,
         Ledger!Deliver(r, t, outcome)
  PROVE  LedgerInv'
<1>1. Files /\ OneAtATime /\ NoneInvented
  BY DEF LedgerInv
<1>2. PICK job : job = [pc |-> "append", key |-> t, outcome |-> outcome,
                        data |-> Ledger!emptyData, file |-> "none"]
  OBVIOUS
<1>3. /\ run[r] = Ledger!Idle /\ run' = [run EXCEPT ![r] = job]
      /\ UNCHANGED <<quality, tmp, counted, overlapped>>
      /\ begun' = [begun EXCEPT ![t].all = @ + 1,
                                ![t].reworks = IF outcome = "REWORK" THEN @ + 1 ELSE @]
  BY <1>2 DEF Ledger!Deliver, Ledger!disk
<1>4. /\ job \in Job /\ job.pc = "append"
      /\ \A u \in Ticket : Uncounted(job, u) = IF u = t /\ outcome = "REWORK" THEN 1 ELSE 0
  BY <1>2, NoCounts DEF Job, Ledger!PC, Uncounted
<1>5. /\ run' \in [Ledger!Runner -> {Ledger!Idle} \union Job] /\ run'[r] = job
      /\ \A q \in Ledger!Runner : q # r => run'[q] = run[q]
  BY <1>1, <1>3, <1>4, OnlyOne
<1>6. \A q \in Ledger!Runner :
        Ledger!AtQuality(q)' => q # r /\ Ledger!AtQuality(q) /\ run'[q] = run[q]
  BY <1>4, <1>5 DEF Ledger!AtQuality
<1>7. /\ begun' \in [Ticket -> [all : Nat, reworks : Nat]]
      /\ \A u \in Ticket : begun'[u].reworks = begun[u].reworks + Uncounted(job, u)
  <2>1. PICK n \in {0, 1} : n = Uncounted(job, t)
    BY <1>4
  <2>2. begun[t] \in [all : Nat, reworks : Nat]
    BY <1>1 DEF Files
  <2>3. begun' = [begun EXCEPT ![t] =
                    [[begun[t] EXCEPT !.all = @ + 1] EXCEPT
                       !.reworks = IF outcome = "REWORK" THEN @ + 1 ELSE @]]
    BY <1>1, <1>3 DEF Files
  <2>4. PICK b : b = [[begun[t] EXCEPT !.all = @ + 1] EXCEPT
                        !.reworks = IF outcome = "REWORK" THEN @ + 1 ELSE @]
    OBVIOUS
  <2>5. b \in [all : Nat, reworks : Nat] /\ b.reworks = begun[t].reworks + n
    <3>1. PICK a : a = [begun[t] EXCEPT !.all = @ + 1]
      OBVIOUS
    <3>2. a \in [all : Nat, reworks : Nat] /\ a.reworks = begun[t].reworks
      BY <2>2, <3>1
    <3>3. CASE outcome = "REWORK"
      <4>1. b = [a EXCEPT !.reworks = @ + 1] /\ n = 1
        BY <1>4, <2>1, <2>4, <3>1, <3>3
      <4> QED
        BY <3>2, <4>1
    <3>4. CASE outcome # "REWORK"
      <4>1. b = [a EXCEPT !.reworks = @] /\ n = 0
        BY <1>4, <2>1, <2>4, <3>1, <3>4
      <4> QED
        BY <3>2, <4>1
    <3> QED
      BY <3>3, <3>4
  <2>6. begun' \in [Ticket -> [all : Nat, reworks : Nat]]
    BY <1>1, <2>3, <2>4, <2>5 DEF Files
  <2>7. ASSUME NEW u \in Ticket
        PROVE  begun'[u].reworks = begun[u].reworks + Uncounted(job, u)
    <3>1. CASE u = t
      BY <1>1, <2>1, <2>3, <2>4, <2>5, <3>1 DEF Files
    <3>2. CASE u # t
      <4>1. begun'[u] = begun[u] /\ Uncounted(job, u) = 0 /\ begun[u].reworks \in Nat
        BY <1>1, <1>4, <2>3, <2>4, <3>2 DEF Files
      <4> QED
        BY <4>1
    <3> QED
      BY <3>1, <3>2
  <2> QED
    BY <2>6, <2>7
<1>8. Files' /\ OneAtATime'
  BY <1>1, <1>3, <1>5, <1>6, <1>7 DEF Files, OneAtATime
<1>9. ASSUME NEW data \in Counters, NEW u \in Ticket, Short(data, u)
      PROVE  Short(data, u)'
  <2>1. /\ Uncounted(run["loop"], u) \in {0, 1} /\ Uncounted(run["other"], u) \in {0, 1}
        /\ Uncounted(job, u) \in {0, 1} /\ Uncounted(run[r], u) = 0
    BY <1>1, <1>3, <1>4, JobCounts, NoCounts DEF Files, Ledger!Runner
  <2>2. /\ Uncounted(run'["loop"], u) =
             IF r = "loop" THEN Uncounted(job, u) ELSE Uncounted(run["loop"], u)
        /\ Uncounted(run'["other"], u) =
             IF r = "other" THEN Uncounted(job, u) ELSE Uncounted(run["other"], u)
    BY <1>5 DEF Ledger!Runner
  <2>3. data[u].reworks \in Nat /\ begun[u].reworks \in Nat
    BY <1>1 DEF Counters, Files
  <2>4. begun'[u].reworks = begun[u].reworks + Uncounted(job, u)
    BY <1>7
  <2> QED
    BY <1>9, <2>1, <2>2, <2>3, <2>4 DEF Short, Ledger!Runner
<1>10. NoneInvented'
  <2>1. /\ quality.data \in Counters /\ tmp.data \in Counters
        /\ \A q \in Ledger!Runner : Ledger!AtQuality(q) => run[q].data \in Counters
    BY <1>1, NoCounts DEF Files, Copy, Job, Ledger!AtQuality
  <2> QED
    BY <1>1, <1>3, <1>6, <1>9, <2>1 DEF NoneInvented
<1> QED
  BY <1>8, <1>10 DEF LedgerInv

(* Between reading and replacing; a run goes on with the same work.        *)
LEMMA RecordKeeps ==
  ASSUME LedgerInv, NEW r \in Ledger!Runner, Ledger!RecordQuality(r)
  PROVE  LedgerInv'
<1>1. Files /\ OneAtATime /\ NoneInvented
  BY DEF LedgerInv
<1>2. PICK new : new = Updated(quality.data, run[r])
  OBVIOUS
<1>3. /\ run[r].pc = "read"
      /\ run' = [run EXCEPT ![r].data = new, ![r].pc = "open"]
      /\ overlapped' = (overlapped \/ \E q \in Ledger!Runner \ {r} : Ledger!AtQuality(q))
      /\ UNCHANGED <<quality, tmp, counted, begun>>
  BY <1>2 DEF Ledger!RecordQuality, Ledger!disk, Updated, Ledger!readQualityData
<1>4. run[r] \in Job /\ quality.data \in Counters
  BY <1>1, <1>3, NoCounts DEF Files, Copy
<1>5. /\ new \in Counters
      /\ \A t \in Ticket : new[t].reworks = quality.data[t].reworks + Uncounted(run[r], t)
  BY <1>2, <1>3, <1>4, UpdatedCounts DEF Uncounted
<1>6. PICK job : /\ job \in Job /\ job.pc = "open" /\ job.data = new
                 /\ job.key = run[r].key /\ job.outcome = run[r].outcome
                 /\ run' = [run EXCEPT ![r] = job]
  <2>1. PICK a : a = [run[r] EXCEPT !.data = new]
    OBVIOUS
  <2>2. a \in Job /\ a.data = new /\ a.key = run[r].key /\ a.outcome = run[r].outcome
    BY <1>4, <1>5, <2>1 DEF Job
  <2>3. PICK b : b = [a EXCEPT !.pc = "open"]
    OBVIOUS
  <2>4. /\ b \in Job /\ b.pc = "open" /\ b.data = new
        /\ b.key = run[r].key /\ b.outcome = run[r].outcome
    BY <2>2, <2>3 DEF Job, Ledger!PC
  <2>5. run' = [run EXCEPT ![r] = b]
    BY <1>1, <1>3, <2>1, <2>3 DEF Files
  <2> QED
    BY <2>4, <2>5
<1>7. /\ run' \in [Ledger!Runner -> {Ledger!Idle} \union Job] /\ run'[r] = job
      /\ \A q \in Ledger!Runner : q # r => run'[q] = run[q]
  BY <1>1, <1>6, OnlyOne
<1>8. \A q \in Ledger!Runner :
        Ledger!AtQuality(q)' => q = r \/ (Ledger!AtQuality(q) /\ run'[q] = run[q])
  BY <1>7 DEF Ledger!AtQuality
<1>9. Files'
  <2>1. overlapped' \in BOOLEAN
    BY <1>3
  <2> QED
    BY <1>1, <1>3, <1>7, <2>1 DEF Files
<1>10. OneAtATime'
  <2>1. ASSUME ~overlapped'
        PROVE  /\ ~overlapped /\ \A q \in Ledger!Runner : Ledger!AtQuality(q)' => q = r
               /\ new = Updated(counted, job)
    BY <1>1, <1>2, <1>3, <1>6, <1>8, <2>1 DEF OneAtATime, Updated
  <2>2. /\ counted' = counted /\ quality' = quality
        /\ job.pc = "open" /\ job.data = new
    BY <1>3, <1>6
  <2> QED
    BY <1>1, <1>7, <2>1, <2>2 DEF OneAtATime
<1>11. ASSUME NEW t \in Ticket
       PROVE  Uncounted(run'[r], t) = 0 /\ Uncounted(run[r], t) \in {0, 1}
  BY <1>4, <1>6, <1>7, JobCounts DEF Uncounted
<1>12. \A q \in Ledger!Runner, t \in Ticket :
         Uncounted(run'[q], t) <= Uncounted(run[q], t)
  BY <1>1, <1>7, <1>11, JobCounts DEF Files
<1>13. \A data \in Counters, t \in Ticket : Short(data, t) => Short(data, t)'
  BY <1>1, <1>3, <1>7, <1>12, ShortStays
<1>14. ASSUME NEW t \in Ticket
       PROVE  Short(new, t)'
  <2>1. /\ Uncounted(run["loop"], t) \in {0, 1} /\ Uncounted(run["other"], t) \in {0, 1}
        /\ Uncounted(run'["loop"], t) =
             IF r = "loop" THEN 0 ELSE Uncounted(run["loop"], t)
        /\ Uncounted(run'["other"], t) =
             IF r = "other" THEN 0 ELSE Uncounted(run["other"], t)
    BY <1>1, <1>7, <1>11, JobCounts DEF Files, Ledger!Runner
  <2>2. /\ quality.data[t].reworks \in Nat /\ begun[t].reworks \in Nat
        /\ new[t].reworks = quality.data[t].reworks + Uncounted(run[r], t)
    BY <1>1, <1>4, <1>5 DEF Counters, Files
  <2>3. Short(quality.data, t) /\ begun' = begun
    BY <1>1, <1>3 DEF NoneInvented
  <2> QED
    BY <2>1, <2>2, <2>3 DEF Short, Ledger!Runner
<1>15. NoneInvented'
  <2>1. tmp.data \in Counters /\ job.data = new
        /\ \A q \in Ledger!Runner : Ledger!AtQuality(q) => run[q].data \in Counters
    BY <1>1, <1>6, NoCounts DEF Files, Copy, Job, Ledger!AtQuality
  <2>2. ASSUME NEW t \in Ticket, NEW q \in Ledger!Runner, Ledger!AtQuality(q)'
        PROVE  Short(run[q].data, t)'
    <3>1. CASE q = r
      BY <1>7, <1>14, <2>1, <3>1 DEF Short
    <3>2. CASE Ledger!AtQuality(q) /\ run'[q] = run[q]
      <4>1. Short(run[q].data, t) /\ run[q].data \in Counters
        BY <1>1, <2>1, <3>2 DEF NoneInvented
      <4>2. PICK data \in Counters : data = run[q].data /\ data = run'[q].data
        BY <3>2, <4>1
      <4>3. Short(data, t)'
        BY <1>13, <4>1, <4>2
      <4> QED
        BY <4>2, <4>3 DEF Short
    <3> QED
      BY <1>8, <2>2, <3>1, <3>2
  <2>3. \A t \in Ticket : Short(quality.data, t)' /\ Short(tmp.data, t)'
    BY <1>1, <1>3, <1>4, <1>13, <2>1 DEF NoneInvented
  <2> QED
    BY <2>2, <2>3 DEF NoneInvented
<1> QED
  BY <1>9, <1>10, <1>15 DEF LedgerInv

(* What the files hold after a step of those between is what some copy     *)
(* held before it, or nothing.                                             *)
Held(data) ==
  \/ data \in {quality.data, tmp.data, Ledger!emptyData}
  \/ \E q \in Ledger!Runner : Ledger!AtQuality(q) /\ data = run[q].data

LEMMA InsideKeeps ==
  ASSUME LedgerInv, begun' = begun, Held(quality'.data), Held(tmp'.data),
         run' \in [Ledger!Runner -> {Ledger!Idle} \union Job],
         \A q \in Ledger!Runner : Ledger!AtQuality(q)' =>
           Ledger!AtQuality(q) /\ run'[q].data = run[q].data,
         \A q \in Ledger!Runner, t \in Ticket : Uncounted(run'[q], t) <= Uncounted(run[q], t)
  PROVE  NoneInvented'
<1>1. Files /\ NoneInvented
  BY DEF LedgerInv
<1>2. /\ quality.data \in Counters /\ tmp.data \in Counters
      /\ \A q \in Ledger!Runner : Ledger!AtQuality(q) => run[q].data \in Counters
  BY <1>1, NoCounts DEF Files, Copy, Job, Ledger!AtQuality
<1>3. \A t \in Ticket : Short(Ledger!emptyData, t)
  <2> TAKE t \in Ticket
  <2>1. Short(quality.data, t) /\ quality.data[t].reworks \in Nat /\ begun[t].reworks \in Nat
    BY <1>1, <1>2 DEF NoneInvented, Counters, Files
  <2>2. Uncounted(run["loop"], t) \in {0, 1} /\ Uncounted(run["other"], t) \in {0, 1}
    BY <1>1, JobCounts DEF Files, Ledger!Runner
  <2>3. Ledger!emptyData[t].reworks = 0
    BY NoCounts
  <2> QED
    BY <2>1, <2>2, <2>3 DEF Short
<1>4. ASSUME NEW data, Held(data), NEW t \in Ticket
      PROVE  Short(data, t)'
  <2>1. data \in Counters /\ Short(data, t)
    BY <1>1, <1>2, <1>3, <1>4, NoCounts DEF Held, NoneInvented
  <2> QED
    BY <1>1, <2>1, ShortStays
<1>5. ASSUME NEW t \in Ticket
      PROVE  Short(quality.data, t)' /\ Short(tmp.data, t)'
  <2>1. PICK x, y : x = quality'.data /\ y = tmp'.data /\ Held(x) /\ Held(y)
    OBVIOUS
  <2>2. Short(x, t)' /\ Short(y, t)'
    BY <1>4, <2>1
  <2> QED
    BY <2>1, <2>2 DEF Short
<1>6. ASSUME NEW t \in Ticket, NEW q \in Ledger!Runner, Ledger!AtQuality(q)'
      PROVE  Short(run[q].data, t)'
  <2>1. PICK x : x = run[q].data /\ x = run'[q].data /\ Held(x)
    BY <1>6 DEF Held
  <2>2. Short(x, t)'
    BY <1>4, <2>1
  <2> QED
    BY <2>1, <2>2 DEF Short
<1> QED
  BY <1>5, <1>6 DEF NoneInvented

LEMMA OpenTmpKeeps ==
  ASSUME LedgerInv, NEW r \in Ledger!Runner, Ledger!OpenTmp(r)
  PROVE  LedgerInv'
<1>1. Files /\ OneAtATime /\ NoneInvented
  BY DEF LedgerInv
<1>2. PICK job : job = [run[r] EXCEPT !.pc = "write", !.file = "tmp"]
  OBVIOUS
<1>3. /\ run[r].pc = "open" /\ tmp' = Ledger!Torn
      /\ run' = [run EXCEPT ![r].pc = "write", ![r].file = "tmp"]
      /\ UNCHANGED <<quality, counted, begun, overlapped>>
  BY DEF Ledger!OpenTmp, Ledger!ghosts
<1>4. /\ run[r] \in Job /\ run' = [run EXCEPT ![r] = job]
      /\ "write" \in Ledger!PC \ {"append", "read"}
  BY <1>1, <1>2, <1>3, NoCounts DEF Files, Ledger!PC
<1>5. /\ job \in Job /\ job.pc = "write" /\ job.file = "tmp" /\ job.data = run[r].data
      /\ \A data : Updated(data, job) = Updated(data, run[r])
      /\ \A t : Uncounted(job, t) = 0
  <2>1. /\ job \in Job /\ job.pc = "write" /\ job.file = "tmp" /\ job.data = run[r].data
        /\ job.key = run[r].key /\ job.outcome = run[r].outcome
    BY <1>2, <1>4 DEF Job
  <2> QED
    BY <2>1 DEF Updated, Uncounted
<1>6. /\ run' \in [Ledger!Runner -> {Ledger!Idle} \union Job] /\ run'[r] = job
      /\ \A q \in Ledger!Runner : q # r => run'[q] = run[q]
  BY <1>1, <1>4, <1>5, OnlyOne
<1>7. /\ Ledger!AtQuality(r)
      /\ \A q \in Ledger!Runner : Ledger!AtQuality(q)' =>
           Ledger!AtQuality(q) /\ run'[q].data = run[q].data
  BY <1>3, <1>5, <1>6 DEF Ledger!AtQuality
<1>8. \A q \in Ledger!Runner, t \in Ticket : Uncounted(run'[q], t) <= Uncounted(run[q], t)
  BY <1>1, <1>4, <1>5, <1>6, JobCounts DEF Files
<1>9. Held(quality'.data) /\ Held(tmp'.data)
  BY <1>3, NoCounts DEF Held
<1>10. NoneInvented'
  BY <1>3, <1>6, <1>7, <1>8, <1>9, InsideKeeps
<1>11. Files'
  BY <1>1, <1>3, <1>6, NoCounts DEF Files
<1>12. OneAtATime'
  <2>1. SUFFICES ASSUME ~overlapped PROVE OneAtATime'
    BY <1>3 DEF OneAtATime
  <2>2. /\ \A q \in Ledger!Runner : Ledger!AtQuality(q)' => q = r
        /\ quality'.data = counted' /\ run[r].data = Updated(counted, run[r])
    BY <1>1, <1>3, <1>7, <2>1 DEF OneAtATime
  <2> QED
    BY <1>3, <1>5, <1>6, <2>2 DEF OneAtATime
<1> QED
  BY <1>10, <1>11, <1>12 DEF LedgerInv

LEMMA WriteTmpKeeps ==
  ASSUME LedgerInv, NEW r \in Ledger!Runner, Ledger!WriteTmp(r)
  PROVE  LedgerInv'
<1>1. Files /\ OneAtATime /\ NoneInvented
  BY DEF LedgerInv
<1>2. PICK job : job = [run[r] EXCEPT !.pc = "rename", !.file = "none"]
  OBVIOUS
<1>3. /\ run[r].pc = "write"
      /\ run' = [run EXCEPT ![r].pc = "rename", ![r].file = "none"]
      /\ tmp' = (IF run[r].file = "tmp" THEN Ledger!Whole(run[r].data) ELSE tmp)
      /\ quality' = (IF run[r].file = "quality" THEN Ledger!Whole(run[r].data) ELSE quality)
      /\ UNCHANGED <<counted, begun, overlapped>>
  BY DEF Ledger!WriteTmp, Ledger!ghosts
<1>4. /\ run[r] \in Job /\ run' = [run EXCEPT ![r] = job]
      /\ "rename" \in Ledger!PC \ {"append", "read"}
  BY <1>1, <1>2, <1>3, NoCounts DEF Files, Ledger!PC
<1>5. /\ job \in Job /\ job.pc = "rename" /\ job.file = "none" /\ job.data = run[r].data
      /\ \A data : Updated(data, job) = Updated(data, run[r])
      /\ \A t : Uncounted(job, t) = 0
  <2>1. /\ job \in Job /\ job.pc = "rename" /\ job.file = "none" /\ job.data = run[r].data
        /\ job.key = run[r].key /\ job.outcome = run[r].outcome
    BY <1>2, <1>4 DEF Job
  <2> QED
    BY <2>1 DEF Updated, Uncounted
<1>6. /\ run' \in [Ledger!Runner -> {Ledger!Idle} \union Job] /\ run'[r] = job
      /\ \A q \in Ledger!Runner : q # r => run'[q] = run[q]
  BY <1>1, <1>4, <1>5, OnlyOne
<1>7. /\ Ledger!AtQuality(r)
      /\ \A q \in Ledger!Runner : Ledger!AtQuality(q)' =>
           Ledger!AtQuality(q) /\ run'[q].data = run[q].data
  BY <1>3, <1>5, <1>6 DEF Ledger!AtQuality
<1>8. \A q \in Ledger!Runner, t \in Ticket : Uncounted(run'[q], t) <= Uncounted(run[q], t)
  BY <1>1, <1>4, <1>5, <1>6, JobCounts DEF Files
<1>9. run[r].data \in Counters
  BY <1>4 DEF Job
<1>10. /\ Held(quality'.data) /\ quality' \in Copy
       /\ Held(tmp'.data) /\ tmp' \in Copy
  BY <1>1, <1>3, <1>7, <1>9, NoCounts DEF Held, Files
<1>11. NoneInvented'
  BY <1>3, <1>6, <1>7, <1>8, <1>10, InsideKeeps
<1>12. Files'
  BY <1>1, <1>3, <1>6, <1>10 DEF Files
<1>13. OneAtATime'
  <2>1. SUFFICES ASSUME ~overlapped PROVE OneAtATime'
    BY <1>3 DEF OneAtATime
  <2>2. /\ \A q \in Ledger!Runner : Ledger!AtQuality(q)' => q = r
        /\ quality.data = counted /\ run[r].data = Updated(counted, run[r])
        /\ run[r].file = "tmp"
    BY <1>1, <1>3, <1>7, <2>1 DEF OneAtATime
  <2>3. quality' = quality /\ tmp' = Ledger!Whole(run[r].data)
    BY <1>3, <2>2
  <2> QED
    BY <1>3, <1>5, <1>6, <2>2, <2>3 DEF OneAtATime, Ledger!Whole
<1> QED
  BY <1>11, <1>12, <1>13 DEF LedgerInv

LEMMA RenameTmpKeeps ==
  ASSUME LedgerInv, NEW r \in Ledger!Runner, Ledger!RenameTmp(r)
  PROVE  LedgerInv'
<1>1. Files /\ OneAtATime /\ NoneInvented
  BY DEF LedgerInv
<1>2. /\ run[r].pc = "rename" /\ quality' = tmp /\ tmp' = Ledger!Absent
      /\ run' = [q \in Ledger!Runner |->
           IF q = r THEN [run[q] EXCEPT !.pc = "cost"]
           ELSE IF run[q] = Ledger!Idle THEN Ledger!Idle
           ELSE [run[q] EXCEPT !.file = Ledger!Moved(@)]]
      /\ counted' = Updated(counted, run[r])
      /\ UNCHANGED <<begun, overlapped>>
  BY DEF Ledger!RenameTmp, Updated
<1>3. run[r] \in Job /\ Ledger!AtQuality(r) /\ \A q \in Ledger!Runner :
        run[q] # Ledger!Idle => run[q] \in Job
  BY <1>1, <1>2, NoCounts DEF Files, Ledger!AtQuality
<1>4. run'[r] \in Job /\ run'[r].pc = "cost"
  BY <1>2, <1>3 DEF Job, Ledger!PC
<1>5. ASSUME NEW q \in Ledger!Runner, q # r, run[q] # Ledger!Idle
      PROVE  /\ run'[q] \in Job /\ run'[q].pc = run[q].pc /\ run'[q].key = run[q].key
             /\ run'[q].outcome = run[q].outcome /\ run'[q].data = run[q].data
  <2>1. PICK f \in {"none", "tmp", "quality", "gone"} : f = Ledger!Moved(run[q].file)
    BY <1>3, <1>5 DEF Ledger!Moved, Job
  <2>2. run'[q] = [run[q] EXCEPT !.file = f]
    BY <1>2, <1>5, <2>1
  <2> QED
    BY <1>3, <1>5, <2>2 DEF Job
<1>6. \A q \in Ledger!Runner : q # r /\ run[q] = Ledger!Idle => run'[q] = Ledger!Idle
  BY <1>2
<1>7. run' \in [Ledger!Runner -> {Ledger!Idle} \union Job]
  <2>1. \A q \in Ledger!Runner : run'[q] \in {Ledger!Idle} \union Job
    BY <1>4, <1>5, <1>6
  <2> QED
    BY <1>2, <2>1
<1>8. \A q \in Ledger!Runner : Ledger!AtQuality(q)' =>
        q # r /\ Ledger!AtQuality(q) /\ run'[q].data = run[q].data
  BY <1>4, <1>5, <1>6, NoCounts DEF Ledger!AtQuality
<1>9. ASSUME NEW q \in Ledger!Runner, NEW t \in Ticket
      PROVE  Uncounted(run'[q], t) <= Uncounted(run[q], t)
  <2>1. Uncounted(run[q], t) \in {0, 1}
    BY <1>1, JobCounts DEF Files
  <2>2. CASE q = r
    BY <1>4, <2>1, <2>2 DEF Uncounted
  <2>3. CASE q # r /\ run[q] = Ledger!Idle
    BY <1>6, <2>1, <2>3
  <2>4. CASE q # r /\ run[q] # Ledger!Idle
    <3>1. Uncounted(run'[q], t) = Uncounted(run[q], t)
      BY <1>5, <2>4 DEF Uncounted
    <3> QED
      BY <2>1, <3>1
  <2> QED
    BY <2>2, <2>3, <2>4
<1>10. Held(quality'.data) /\ Held(tmp'.data)
  BY <1>2, NoCounts DEF Held
<1>11. NoneInvented'
  BY <1>2, <1>7, <1>8, <1>9, <1>10, InsideKeeps
<1>12. Files'
  <2>1. counted' \in Counters
    BY <1>1, <1>2, <1>3, UpdatedCounts DEF Files
  <2> QED
    BY <1>1, <1>2, <1>7, <2>1, NoCounts DEF Files
<1>13. OneAtATime'
  <2>1. SUFFICES ASSUME ~overlapped PROVE OneAtATime'
    BY <1>2 DEF OneAtATime
  <2>2. /\ \A q \in Ledger!Runner : Ledger!AtQuality(q) => q = r
        /\ tmp = Ledger!Whole(run[r].data) /\ run[r].data = Updated(counted, run[r])
    BY <1>1, <1>2, <1>3, <2>1 DEF OneAtATime
  <2>3. \A q \in Ledger!Runner : ~Ledger!AtQuality(q)'
    BY <1>8, <2>2
  <2>4. quality'.data = counted'
    BY <1>2, <2>2 DEF Ledger!Whole
  <2> QED
    BY <2>3, <2>4 DEF OneAtATime
<1> QED
  BY <1>11, <1>12, <1>13 DEF LedgerInv

LEMMA LedgerKeeps == LedgerInv /\ [Ledger!Next]_(Ledger!vars) => LedgerInv'
<1> SUFFICES ASSUME LedgerInv, [Ledger!Next]_(Ledger!vars) PROVE LedgerInv'
  OBVIOUS
<1>1. ASSUME NEW r \in Ledger!Runner,
             \/ Ledger!appendProgress(r) \/ Ledger!QualityFails(r)
             \/ Ledger!appendCostEntry(r) \/ Ledger!Crash(r)
      PROVE  LedgerInv'
  <2>1. run[r] # Ledger!Idle /\ UNCHANGED <<quality, tmp, counted, begun, overlapped>>
    BY <1>1, NoCounts
    DEF Ledger!appendProgress, Ledger!QualityFails, Ledger!appendCostEntry, Ledger!Crash,
        Ledger!AtQuality, Ledger!disk, Ledger!ghosts
  <2>2. run[r] \in Job
    BY <2>1 DEF LedgerInv, Files
  <2>3. \A t \in Ticket : Uncounted(run[r], t) \in {0, 1}
    BY <2>2, JobCounts
  <2>4. CASE run' = [run EXCEPT ![r] = Ledger!Idle]
    <3>1. Ledger!Idle.pc = "idle" /\ \A t \in Ticket : Uncounted(Ledger!Idle, t) = 0
      BY NoCounts
    <3>2. \A t \in Ticket : Uncounted(Ledger!Idle, t) <= Uncounted(run[r], t)
      BY <2>3, <3>1
    <3> QED
      BY <2>1, <2>4, <3>1, <3>2, OutsideKeeps
  <2>5. CASE Ledger!appendProgress(r) /\ run' # [run EXCEPT ![r] = Ledger!Idle]
    <3>1. PICK job : job = [run[r] EXCEPT !.pc = "read"]
      OBVIOUS
    <3>2. run[r].pc = "append" /\ run' = [run EXCEPT ![r] = job]
      BY <2>5, <3>1
      DEF Ledger!appendProgress, Ledger!End, Ledger!Goto, LedgerInv, Files
    <3>3. /\ job \in Job /\ job.pc = "read" /\ job.key = run[r].key
          /\ job.outcome = run[r].outcome
      BY <2>2, <3>1 DEF Job, Ledger!PC
    <3>4. \A t \in Ticket : Uncounted(job, t) = Uncounted(run[r], t)
      BY <3>2, <3>3 DEF Uncounted
    <3>5. \A t \in Ticket : Uncounted(job, t) <= Uncounted(run[r], t)
      BY <2>3, <3>4
    <3> QED
      BY <2>1, <3>2, <3>3, <3>5, OutsideKeeps
  <2>6. CASE Ledger!QualityFails(r)
    <3>1. PICK job : job = [run[r] EXCEPT !.pc = "cost", !.file = "none"]
      OBVIOUS
    <3>2. run' = [run EXCEPT ![r] = job]
      BY <2>6, <3>1 DEF Ledger!QualityFails, LedgerInv, Files
    <3>3. job \in Job /\ job.pc = "cost"
      BY <2>2, <3>1 DEF Job, Ledger!PC
    <3>4. \A t \in Ticket : Uncounted(job, t) = 0
      BY <3>3 DEF Uncounted
    <3>5. \A t \in Ticket : Uncounted(job, t) <= Uncounted(run[r], t)
      BY <2>3, <3>4
    <3> QED
      BY <2>1, <3>2, <3>3, <3>5, OutsideKeeps
  <2> QED
    BY <1>1, <2>4, <2>5, <2>6 DEF Ledger!appendCostEntry, Ledger!Crash, Ledger!End
<1>2. ASSUME NEW r \in Ledger!Runner, NEW t \in Ticket, NEW s \in Ledger!Status,
             Ledger!Deliver(r, t, s)
      PROVE  LedgerInv'
  BY <1>2, DeliverKeeps
<1>3. ASSUME NEW r \in Ledger!Runner,
             \/ Ledger!RecordQuality(r) \/ Ledger!OpenTmp(r) \/ Ledger!WriteTmp(r)
             \/ Ledger!RenameTmp(r)
      PROVE  LedgerInv'
  BY <1>3, RecordKeeps, OpenTmpKeeps, WriteTmpKeeps, RenameTmpKeeps
<1>4. CASE Ledger!StartLoop \/ Ledger!buildSessionReport \/ Ledger!Tick
           \/ UNCHANGED Ledger!vars
  <2>1. UNCHANGED <<quality, tmp, run, counted, begun, overlapped>>
    BY <1>4 DEF Ledger!StartLoop, Ledger!buildSessionReport, Ledger!Tick, Ledger!vars,
                Ledger!disk, Ledger!ghosts
  <2> QED
    BY <2>1 DEF LedgerInv, Files, OneAtATime, NoneInvented, Short, Ledger!AtQuality
<1> QED
  BY <1>1, <1>2, <1>3, <1>4 DEF Ledger!Next

-----------------------------------------------------------------------------
(* The session report *)

LEMMA Least ==
  ASSUME NEW T, T \subseteq Nat, T # {}
  PROVE  \E m \in T : \A k \in T : m <= k
<1>1. PICK m \in T : \A k \in T : ~(<<k, m>> \in OpToRel(<, Nat))
  BY NatLessThanWellFounded, WFMin, Zenon
<1>2. \A k \in T : ~(k < m)
  <2> TAKE k \in T
  <2>1. k \in Nat /\ m \in Nat
    OBVIOUS
  <2>2. k < m => <<k, m>> \in OpToRel(<, Nat)
    BY <2>1 DEF OpToRel
  <2> QED
    BY <1>1, <2>2
<1>3. \A k \in T : m <= k
  BY <1>2
<1> QED
  BY <1>3

(* Lines of a file: the latest of some is one of them, and none is later.  *)
LEMMA Latest ==
  ASSUME NEW n \in Nat, NEW S \in SUBSET (1..n), S # {}
  PROVE  /\ Ledger!Max(S) \in S /\ \A j \in S : j <= Ledger!Max(S)
         /\ Ledger!Max(S) \in 1..n
         /\ \A m \in S : (\A j \in S : j <= m) => m = Ledger!Max(S)
<1> DEFINE T == {n - j : j \in S}
<1>1. T \subseteq Nat /\ T # {}
  <2>1. \A j \in 1..n : n - j \in Nat
    OBVIOUS
  <2>2. T \subseteq Nat
    BY <2>1
  <2>3. PICK j \in S : n - j \in T
    OBVIOUS
  <2> QED
    BY <2>2, <2>3
<1>2. PICK k \in T : \A l \in T : k <= l
  BY <1>1, Least
<1>3. PICK m \in S : k = n - m
  BY <1>2
<1>4. ASSUME NEW j \in S PROVE m >= j
  <2>1. n - m <= n - j
    BY <1>2, <1>3
  <2> QED
    BY <2>1
<1>5. Ledger!Max(S) \in S /\ \A j \in S : Ledger!Max(S) >= j
  BY <1>4 DEF Ledger!Max
<1>6. S \subseteq Nat /\ \A i, j \in Nat : i <= j /\ j <= i => i = j
  OBVIOUS
<1>7. PICK x \in S : x = Ledger!Max(S)
  BY <1>5
<1>8. \A j \in S : j \in Nat /\ j <= x
  BY <1>5, <1>6, <1>7
<1>9. \A i \in S : (\A j \in S : j <= i) => i = x
  BY <1>6, <1>8
<1> QED
  BY <1>7, <1>8, <1>9

LEMMA MinutesGrow ==
  ASSUME NEW a \in Nat, NEW b \in Nat
  PROVE  /\ Ledger!Minute(a) \in Nat /\ Ledger!Minute(b) \in Nat
         /\ a <= b => Ledger!Minute(a) <= Ledger!Minute(b)
<1>1. PerMinute \in Nat \ {0}
  BY ToolBounds DEF Ledger!LedgerBounds
<1>2. PICK p \in Nat \ {0} : p = PerMinute
  BY <1>1
<1>3. a \div p \in Nat /\ b \div p \in Nat
  OBVIOUS
<1>4. a <= b => a \div p <= b \div p
  OBVIOUS
<1> QED
  BY <1>2, <1>3, <1>4 DEF Ledger!Minute

LEMMA CountingReports == \A S : Ledger!Cardinality(S) = Cardinality(S)
BY DEF Ledger!Cardinality, Cardinality

(* The lines of progress.txt are in the order of their times, and those    *)
(* logged since the session began are of its time.                         *)
CostLine == [key : Ticket, at : 0..MaxTime]
Session == [on : {TRUE}, start : 0..MaxTime, lines : Nat, paid : Nat]

Chronicle ==
  /\ now \in 0..MaxTime /\ progress \in Seq(Ledger!Line) /\ costs \in Seq(CostLine)
  /\ loop \in {Ledger!NoLoop} \union Session
  /\ \A i \in 1..Len(progress) : progress[i].at <= now
  /\ \A i, j \in 1..Len(progress) : i <= j => progress[i].at <= progress[j].at

SinceItBegan ==
  loop.on =>
    /\ loop.start <= now /\ loop.lines <= Len(progress) /\ loop.paid <= Len(costs)
    /\ \A i \in 1..Len(progress) : i > loop.lines => progress[i].at >= loop.start
    /\ \A i \in 1..Len(costs) : i > loop.paid => costs[i].at >= loop.start

Report ==
  [made : {TRUE}, start : 0..MaxTime,
   tickets : [Ticket -> Ledger!Shown \union {Ledger!NotShown}],
   summary : [completed : Nat, failed : Nat, paid : Nat],
   cost : [Ticket -> Nat], ticked : SUBSET Ticket,
   next : [review : SUBSET Ticket, intervene : SUBSET Ticket],
   quality : Ledger!Data, from : Nat, paidFrom : Nat]

ReportInv ==
  /\ Chronicle /\ SinceItBegan
  /\ report \in {Ledger!NoReport} \union Report /\ Ledger!OwnWorkReported

LEMMA ReportBegins == Ledger!Init => ReportInv
<1> SUFFICES ASSUME Ledger!Init PROVE ReportInv
  OBVIOUS
<1>1. /\ now \in 0..MaxTime /\ progress = <<>> /\ costs = <<>> /\ loop = Ledger!NoLoop
      /\ report = Ledger!NoReport
  BY ToolBounds DEF Ledger!Init, Ledger!LedgerBounds
<1>2. ~loop.on /\ ~report.made
  BY <1>1 DEF Ledger!NoLoop, Ledger!NoReport
<1>3. /\ progress \in Seq(Ledger!Line) /\ costs \in Seq(CostLine)
      /\ Len(progress) = 0 /\ Len(costs) = 0
  BY <1>1
<1> QED
  BY <1>1, <1>2, <1>3 DEF ReportInv, Chronicle, SinceItBegan, Ledger!OwnWorkReported

(* Steps that write no report.                                             *)
LEMMA NoReportKeeps ==
  ASSUME Chronicle', SinceItBegan', report' = Ledger!NoReport
  PROVE  ReportInv'
<1>1. ~report'.made
  BY DEF Ledger!NoReport
<1> QED
  BY <1>1 DEF ReportInv, Ledger!OwnWorkReported

LEMMA LineKeeps ==
  ASSUME ReportInv, NEW line \in Ledger!Line, line.at = now,
         progress' = Append(progress, line), report' = Ledger!NoReport,
         UNCHANGED <<now, costs, loop>>
  PROVE  ReportInv'
<1>1. Chronicle /\ SinceItBegan
  BY DEF ReportInv
<1>2. PICK n \in Nat : n = Len(progress)
  BY <1>1 DEF Chronicle
<1>3. /\ progress' \in Seq(Ledger!Line) /\ Len(progress') = n + 1 /\ progress'[n + 1] = line
      /\ \A i \in 1..n : progress'[i] = progress[i]
      /\ \A i \in 1..(n + 1) : i \in 1..n \/ i = n + 1
  BY <1>1, <1>2 DEF Chronicle
<1>4. \A i \in 1..n : progress[i].at \in Nat /\ progress[i].at <= now
  <2> TAKE i \in 1..n
  <2>1. progress[i] \in Ledger!Line
    BY <1>1, <1>2 DEF Chronicle
  <2> QED
    BY <1>1, <1>2, <2>1, ToolBounds DEF Chronicle, Ledger!Line, Ledger!LedgerBounds
<1>5. /\ \A i \in 1..(n + 1) : progress'[i].at <= now
      /\ now \in Nat
  BY <1>1, <1>3, <1>4 DEF Chronicle
<1>6. ASSUME NEW i \in 1..(n + 1), NEW j \in 1..(n + 1), i <= j
      PROVE  progress'[i].at <= progress'[j].at
  <2>1. CASE j = n + 1
    BY <1>3, <1>5, <2>1
  <2>2. CASE j \in 1..n
    BY <1>1, <1>2, <1>3, <1>6, <2>2 DEF Chronicle
  <2> QED
    BY <1>3, <2>1, <2>2
<1>7. Chronicle'
  BY <1>1, <1>3, <1>5, <1>6 DEF Chronicle
<1>8. SinceItBegan'
  <2> SUFFICES ASSUME loop.on PROVE SinceItBegan'
    BY DEF SinceItBegan
  <2>1. loop \in Session
    BY <1>1 DEF Chronicle, Ledger!NoLoop
  <2>2. loop.start \in Nat /\ loop.lines \in Nat
    BY <2>1, ToolBounds DEF Session, Ledger!LedgerBounds
  <2>3. /\ loop.start <= now /\ loop.lines <= n /\ loop.paid <= Len(costs)
        /\ \A i \in 1..n : i > loop.lines => progress[i].at >= loop.start
        /\ \A i \in 1..Len(costs) : i > loop.paid => costs[i].at >= loop.start
    BY <1>1, <1>2 DEF SinceItBegan
  <2>4. \A i \in 1..(n + 1) : i > loop.lines => progress'[i].at >= loop.start
    BY <1>1, <1>3, <2>3, <2>2 DEF Chronicle
  <2> QED
    BY <1>3, <2>3, <2>4, <2>2 DEF SinceItBegan
<1> QED
  BY <1>7, <1>8, NoReportKeeps

LEMMA CostKeeps ==
  ASSUME ReportInv, NEW entry \in CostLine, entry.at = now,
         costs' = Append(costs, entry), report' = Ledger!NoReport,
         UNCHANGED <<now, progress, loop>>
  PROVE  ReportInv'
<1>1. Chronicle /\ SinceItBegan
  BY DEF ReportInv
<1>2. PICK n \in Nat : n = Len(costs)
  BY <1>1 DEF Chronicle
<1>3. /\ costs' \in Seq(CostLine) /\ Len(costs') = n + 1 /\ costs'[n + 1] = entry
      /\ \A i \in 1..n : costs'[i] = costs[i]
      /\ \A i \in 1..(n + 1) : i \in 1..n \/ i = n + 1
  BY <1>1, <1>2 DEF Chronicle
<1>4. Chronicle'
  BY <1>1, <1>3 DEF Chronicle
<1>5. SinceItBegan'
  <2> SUFFICES ASSUME loop.on PROVE SinceItBegan'
    BY DEF SinceItBegan
  <2>1. loop \in Session
    BY <1>1 DEF Chronicle, Ledger!NoLoop
  <2>2. loop.start \in Nat /\ loop.paid \in Nat /\ now \in Nat
    BY <1>1, <2>1, ToolBounds DEF Chronicle, Session, Ledger!LedgerBounds
  <2>3. /\ loop.start <= now /\ loop.paid <= n /\ loop.lines <= Len(progress)
        /\ \A i \in 1..n : i > loop.paid => costs[i].at >= loop.start
        /\ \A i \in 1..Len(progress) : i > loop.lines => progress[i].at >= loop.start
    BY <1>1, <1>2 DEF SinceItBegan
  <2>4. \A i \in 1..(n + 1) : i > loop.paid => costs'[i].at >= loop.start
    BY <1>3, <2>2, <2>3
  <2> QED
    BY <1>3, <2>2, <2>3, <2>4 DEF SinceItBegan
<1> QED
  BY <1>4, <1>5, NoReportKeeps

(* Time passes, runs go on, and the loop stays or is gone.                 *)
LEMMA ElseKeeps ==
  ASSUME ReportInv, now' \in 0..MaxTime, now <= now', loop' \in {loop, Ledger!NoLoop},
         report' = Ledger!NoReport, UNCHANGED <<progress, costs>>
  PROVE  ReportInv'
<1>1. Chronicle /\ SinceItBegan
  BY DEF ReportInv
<1>2. \A i \in 1..Len(progress) : progress[i].at \in Nat
  <2> TAKE i \in 1..Len(progress)
  <2>1. progress[i] \in Ledger!Line
    BY <1>1 DEF Chronicle
  <2> QED
    BY <2>1, ToolBounds DEF Ledger!Line, Ledger!LedgerBounds
<1>3. now \in Nat /\ now' \in Nat
  BY <1>1, ToolBounds DEF Chronicle, Ledger!LedgerBounds
<1>4. \A i \in 1..Len(progress) : progress[i].at <= now'
  BY <1>1, <1>2, <1>3 DEF Chronicle
<1>5. Chronicle'
  BY <1>1, <1>4 DEF Chronicle
<1>6. SinceItBegan'
  <2> SUFFICES ASSUME loop'.on PROVE SinceItBegan'
    BY DEF SinceItBegan
  <2>1. loop' = loop /\ loop \in Session
    BY <1>1 DEF Chronicle, Ledger!NoLoop
  <2>2. loop.start \in Nat
    BY <2>1, ToolBounds DEF Session, Ledger!LedgerBounds
  <2>3. loop.start <= now'
    BY <1>1, <1>3, <2>1, <2>2 DEF SinceItBegan
  <2> QED
    BY <1>1, <2>1, <2>3 DEF SinceItBegan
<1> QED
  BY <1>5, <1>6, NoReportKeeps

LEMMA StartKeeps == ReportInv /\ Ledger!StartLoop => ReportInv'
<1> SUFFICES ASSUME ReportInv, Ledger!StartLoop PROVE ReportInv'
  OBVIOUS
<1>1. Chronicle
  BY DEF ReportInv
<1>2. /\ UNCHANGED <<now, progress, costs>> /\ report' = Ledger!NoReport
      /\ loop' = [on |-> TRUE, start |-> now, lines |-> Len(progress), paid |-> Len(costs)]
  BY DEF Ledger!StartLoop, Ledger!NoneWritten, Ledger!logs
<1>3. loop' \in Session /\ loop'.start = now /\ now \in Nat /\ loop'.lines = Len(progress)
      /\ loop'.paid = Len(costs) /\ Len(progress) \in Nat /\ Len(costs) \in Nat
  BY <1>1, <1>2, ToolBounds DEF Chronicle, Session, Ledger!LedgerBounds
<1>4. Chronicle'
  BY <1>1, <1>2, <1>3 DEF Chronicle
<1>5. SinceItBegan'
  BY <1>2, <1>3 DEF SinceItBegan
<1> QED
  BY <1>2, <1>4, <1>5, NoReportKeeps

LEMMA OfTheSession ==
  ASSUME Chronicle, loop.on
  PROVE  /\ loop.start \in Nat /\ loop.start \in 0..MaxTime
         /\ loop.lines \in Nat /\ loop.paid \in Nat
<1>1. loop \in Session
  BY DEF Chronicle, Ledger!NoLoop
<1> QED
  BY <1>1, ToolBounds DEF Session, Ledger!LedgerBounds

(* The lines that count are those of the session's minutes: with the       *)
(* session's own, which come last, and none that is older.                 *)
LEMMA Enriched ==
  ASSUME Chronicle, SinceItBegan, loop.on, NEW t \in Ticket,
         NEW shown, shown = Ledger!enrichTickets(loop.start)[t]
  PROVE  /\ \/ shown = Ledger!NotShown
            \/ \E i \in 1..Len(progress) : /\ progress[i].key = t
                                           /\ shown = Ledger!StatusRead(progress[i])
         /\ Ledger!Logged(t, loop.lines) # {} =>
              /\ progress[Ledger!Max(Ledger!Logged(t, loop.lines))].key = t
              /\ shown = Ledger!StatusRead(progress[Ledger!Max(Ledger!Logged(t, loop.lines))])
         /\ shown # Ledger!NotShown =>
              Ledger!Minute(progress[Ledger!Max(Ledger!Logged(t, 0))].at) >= Ledger!Minute(loop.start)
<1>1. PICK n \in Nat : n = Len(progress) /\ DOMAIN progress = 1..n
  BY DEF Chronicle
<1>2. PICK start \in Nat : start = loop.start
  BY OfTheSession
<1>3. PICK from \in Nat : from = loop.lines
  BY OfTheSession
<1>4. \A i \in 1..n : progress[i].at \in Nat
  <2> TAKE i \in 1..n
  <2>1. progress[i] \in Ledger!Line
    BY <1>1 DEF Chronicle
  <2> QED
    BY <2>1, ToolBounds DEF Ledger!Line, Ledger!LedgerBounds
<1>5. PICK own \in SUBSET (1..n) :
        own = {i \in 1..n : progress[i].key = t /\ Ledger!isInSessionWindow(progress[i], start)}
  OBVIOUS
<1>6. shown = IF own = {} THEN Ledger!NotShown
              ELSE Ledger!StatusRead(progress[Ledger!Max(own)])
  BY <1>1, <1>2, <1>5 DEF Ledger!enrichTickets
<1>7. PICK since \in SUBSET (1..n) : since = Ledger!Logged(t, from)
  BY <1>1 DEF Ledger!Logged
<1>8. PICK all \in SUBSET (1..n) : all = Ledger!Logged(t, 0)
  BY <1>1 DEF Ledger!Logged
<1>9. \A i \in 1..n : i \in since <=> i > from /\ progress[i].key = t
  BY <1>1, <1>7 DEF Ledger!Logged
<1>10. \A i \in 1..n : i \in all <=> progress[i].key = t
  BY <1>1, <1>8 DEF Ledger!Logged
<1>11. since \subseteq own
  <2> SUFFICES ASSUME NEW i \in since PROVE i \in own
    OBVIOUS
  <2>1. progress[i].at >= start /\ progress[i].at \in Nat /\ progress[i].key = t
    BY <1>1, <1>2, <1>3, <1>4, <1>9 DEF SinceItBegan
  <2>2. PICK at \in Nat : at = progress[i].at
    BY <2>1
  <2>3. Ledger!Minute(start) <= Ledger!Minute(at)
    BY <2>1, <2>2, MinutesGrow
  <2> QED
    BY <1>5, <2>1, <2>2, <2>3, MinutesGrow DEF Ledger!isInSessionWindow
<1>12. ASSUME since # {}
       PROVE  /\ progress[Ledger!Max(since)].key = t
              /\ shown = Ledger!StatusRead(progress[Ledger!Max(since)])
  <2>1. PICK m \in own : m = Ledger!Max(own) /\ \A i \in own : i <= m
    BY <1>11, <1>12, Latest
  <2>2. m \in 1..n /\ progress[m].key = t
    BY <1>5
  <2>3. PICK i \in 1..n : i > from /\ i <= m
    BY <1>9, <1>11, <1>12, <2>1
  <2>4. m > from
    BY <2>2, <2>3
  <2>5. m \in since
    BY <1>9, <2>2, <2>4
  <2>6. m = Ledger!Max(since)
    BY <1>11, <1>12, <2>1, <2>5, Latest
  <2> QED
    BY <1>6, <1>11, <1>12, <2>1, <2>2, <2>6
<1>13. ASSUME shown # Ledger!NotShown
       PROVE  /\ \E i \in 1..n : progress[i].key = t /\ shown = Ledger!StatusRead(progress[i])
              /\ Ledger!Minute(progress[Ledger!Max(all)].at) >= Ledger!Minute(start)
  <2>1. own # {}
    BY <1>6, <1>13
  <2>2. PICK m \in own : m = Ledger!Max(own)
    BY <2>1, Latest
  <2>3. m \in 1..n /\ progress[m].key = t /\ m \in all
    BY <1>5, <1>10
  <2>4. PICK l \in all : l = Ledger!Max(all) /\ m <= l
    BY <2>3, Latest
  <2>5. progress[m].at <= progress[l].at /\ progress[m].at \in Nat /\ progress[l].at \in Nat
    BY <1>1, <1>4, <2>3, <2>4 DEF Chronicle
  <2>6. PICK early \in Nat, late_ \in Nat : early = progress[m].at /\ late_ = progress[l].at
    BY <2>5
  <2>7. Ledger!Minute(early) >= Ledger!Minute(start)
    BY <1>5, <2>6 DEF Ledger!isInSessionWindow
  <2>8. Ledger!Minute(early) <= Ledger!Minute(late_)
    BY <2>5, <2>6, MinutesGrow
  <2>9. Ledger!Minute(late_) >= Ledger!Minute(start)
    BY <2>7, <2>8, MinutesGrow
  <2> QED
    BY <1>6, <2>1, <2>2, <2>3, <2>4, <2>6, <2>9
<1> QED
  BY <1>1, <1>2, <1>3, <1>7, <1>8, <1>12, <1>13

(* What the session has paid for is counted, and the last of it shown.     *)
LEMMA Costed ==
  ASSUME Chronicle, SinceItBegan, loop.on,
         NEW entries, entries = Ledger!parseCostsLog(loop.start)
  PROVE  /\ IsFiniteSet(entries)
         /\ Cardinality(entries) >= Len(costs) - loop.paid
         /\ \A t \in Ticket :
              /\ Ledger!attachCost(entries)[t] \in Nat
              /\ Ledger!Paid(t, loop.paid) # {} =>
                   Ledger!attachCost(entries)[t] = Ledger!Max(Ledger!Paid(t, loop.paid))
<1>1. PICK n \in Nat : n = Len(costs) /\ DOMAIN costs = 1..n
  BY DEF Chronicle
<1>2. PICK start \in Nat : start = loop.start
  BY OfTheSession
<1>3. PICK from \in Nat : from = loop.paid
  BY OfTheSession
<1>4. /\ entries \subseteq 1..n
      /\ \A i \in 1..n : i > from => i \in entries
  BY <1>1, <1>2, <1>3 DEF SinceItBegan, Ledger!parseCostsLog
<1>5. IsFiniteSet(1..n) /\ IsFiniteSet(entries)
  <2>1. IsFiniteSet(1..n)
    BY FS_Interval
  <2> QED
    BY <1>4, <2>1, FS_Subset
<1>6. from <= n
  BY <1>1, <1>3 DEF SinceItBegan
<1>7. Cardinality(entries) >= n - from
  <2>1. (from + 1)..n \subseteq entries
    BY <1>4
  <2>2. Cardinality((from + 1)..n) <= Cardinality(entries) /\ Cardinality(entries) \in Nat
    BY <1>5, <2>1, FS_Subset, FS_CardinalityType
  <2>3. PICK a \in Int : a = from + 1
    OBVIOUS
  <2>4. Cardinality(a..n) = IF a > n THEN 0 ELSE n - a + 1
    BY FS_Interval
  <2>5. Cardinality((from + 1)..n) = n - from
    BY <1>6, <2>3, <2>4
  <2> QED
    BY <2>2, <2>5
<1>8. ASSUME NEW t \in Ticket
      PROVE  /\ Ledger!attachCost(entries)[t] \in Nat
             /\ Ledger!Paid(t, from) # {} =>
                  Ledger!attachCost(entries)[t] = Ledger!Max(Ledger!Paid(t, from))
  <2>1. PICK own \in SUBSET (1..n) : own = {i \in entries : costs[i].key = t}
    BY <1>4
  <2>2. Ledger!attachCost(entries)[t] = IF own = {} THEN 0 ELSE Ledger!Max(own)
    BY <2>1 DEF Ledger!attachCost
  <2>3. PICK paid \in SUBSET (1..n) : paid = Ledger!Paid(t, from)
    BY <1>1 DEF Ledger!Paid
  <2>4. \A i \in 1..n : i \in paid <=> i > from /\ costs[i].key = t
    BY <1>1, <2>3 DEF Ledger!Paid
  <2>5. paid \subseteq own
    BY <1>4, <2>1, <2>4
  <2>6. own # {} => Ledger!Max(own) \in 1..n
    BY Latest
  <2>7. ASSUME paid # {} PROVE Ledger!Max(own) = Ledger!Max(paid)
    <3>1. PICK m \in own : m = Ledger!Max(own) /\ \A i \in own : i <= m
      BY <2>5, <2>7, Latest
    <3>2. m \in 1..n /\ costs[m].key = t
      BY <2>1, <3>1
    <3>3. PICK i \in paid : i > from /\ i <= m
      BY <2>4, <2>5, <2>7, <3>1
    <3>4. m > from
      BY <3>2, <3>3
    <3>5. m \in paid
      BY <2>4, <3>2, <3>4
    <3> QED
      BY <2>5, <2>7, <3>1, <3>5, Latest
  <2> QED
    BY <2>2, <2>3, <2>5, <2>6, <2>7
<1> QED
  BY <1>1, <1>3, <1>5, <1>7, <1>8

LEMMA ReportMade ==
  ASSUME Files, ReportInv, Ledger!buildSessionReport
  PROVE  ReportInv'
<1>1. /\ Chronicle /\ SinceItBegan /\ loop.on
      /\ UNCHANGED <<now, progress, costs>> /\ loop' = Ledger!NoLoop
  BY DEF ReportInv, Ledger!buildSessionReport, Ledger!logs
<1>2. PICK start \in Nat, from \in Nat, fromCosts \in Nat :
        /\ start = loop.start /\ start \in 0..MaxTime
        /\ from = loop.lines /\ fromCosts = loop.paid
  BY <1>1, OfTheSession
<1>3. PICK tickets : tickets = Ledger!enrichTickets(start)
  OBVIOUS
<1>4. PICK entries : entries = Ledger!parseCostsLog(start)
  OBVIOUS
<1>5. /\ report'.made = TRUE /\ report'.start = start /\ report'.tickets = tickets
      /\ report'.summary = Ledger!buildSummary(tickets, entries)
      /\ report'.cost = Ledger!attachCost(entries)
      /\ report'.ticked = {t \in Ledger!Reported(tickets) :
                             Ledger!formatTicket(tickets, t) = "tick"}
      /\ report'.next = Ledger!buildNextSteps(tickets)
      /\ report'.quality = quality.data /\ report'.from = from /\ report'.paidFrom = fromCosts
      /\ report' = Ledger!generateSessionReport(tickets, entries)
  BY <1>1, <1>2, <1>3, <1>4
  DEF Ledger!buildSessionReport, Ledger!generateSessionReport, Ledger!buildQualitySection,
      Ledger!readQualityData
<1>6. ASSUME NEW t \in Ticket
      PROVE  /\ \/ tickets[t] = Ledger!NotShown
                \/ \E i \in 1..Len(progress) : /\ progress[i].key = t
                                               /\ tickets[t] = Ledger!StatusRead(progress[i])
             /\ Ledger!Logged(t, from) # {} =>
                  /\ progress[Ledger!Max(Ledger!Logged(t, from))].key = t
                  /\ tickets[t] = Ledger!StatusRead(progress[Ledger!Max(Ledger!Logged(t, from))])
             /\ tickets[t] # Ledger!NotShown =>
                  Ledger!Minute(progress[Ledger!Max(Ledger!Logged(t, 0))].at) >= Ledger!Minute(start)
  <2>1. PICK shown : shown = Ledger!enrichTickets(loop.start)[t]
    OBVIOUS
  <2>2. shown = tickets[t]
    BY <1>2, <1>3, <2>1
  <2>3. /\ \/ shown = Ledger!NotShown
           \/ \E i \in 1..Len(progress) : /\ progress[i].key = t
                                          /\ shown = Ledger!StatusRead(progress[i])
        /\ Ledger!Logged(t, loop.lines) # {} =>
             /\ progress[Ledger!Max(Ledger!Logged(t, loop.lines))].key = t
             /\ shown = Ledger!StatusRead(progress[Ledger!Max(Ledger!Logged(t, loop.lines))])
        /\ shown # Ledger!NotShown =>
             Ledger!Minute(progress[Ledger!Max(Ledger!Logged(t, 0))].at)
               >= Ledger!Minute(loop.start)
    BY <1>1, <2>1, Enriched
  <2> QED
    BY <1>2, <2>2, <2>3
<1>7. /\ IsFiniteSet(entries) /\ Cardinality(entries) >= Len(costs) - fromCosts
      /\ \A t \in Ticket :
           /\ Ledger!attachCost(entries)[t] \in Nat
           /\ Ledger!Paid(t, fromCosts) # {} =>
                Ledger!attachCost(entries)[t] = Ledger!Max(Ledger!Paid(t, fromCosts))
  BY <1>1, <1>2, <1>4, Costed
<1>8. \A line \in Ledger!Line :
        /\ Ledger!StatusRead(line).status =
             IF line.key \in Ambiguous THEN "PLAN" ELSE line.status
        /\ Ledger!StatusRead(line).pr = (line.status # "PUSH_FAILED")
        /\ Ledger!StatusRead(line) \in Ledger!Shown
        /\ Ledger!StatusRead(line) # Ledger!NotShown
  BY DEF Ledger!Line, Ledger!StatusRead, Ledger!Shown, Ledger!NotShown, Ledger!Status
<1>9. \A i \in 1..Len(progress) : progress[i] \in Ledger!Line
  BY <1>1 DEF Chronicle
<1>10. ASSUME NEW t \in Ticket
       PROVE  /\ tickets[t] \in Ledger!Shown \union {Ledger!NotShown}
              /\ tickets[t] # Ledger!NotShown =>
                   /\ tickets[t].pr => tickets[t].status # "PUSH_FAILED"
                   /\ t \in Ambiguous => tickets[t].status = "PLAN"
  <2>1. CASE tickets[t] = Ledger!NotShown
    BY <2>1
  <2>2. CASE tickets[t] # Ledger!NotShown
    <3>1. PICK i \in 1..Len(progress) : /\ progress[i].key = t
                                        /\ tickets[t] = Ledger!StatusRead(progress[i])
      BY <1>6, <2>2
    <3>2. PICK line \in Ledger!Line : line = progress[i]
      BY <1>9
    <3>3. /\ tickets[t] \in Ledger!Shown /\ line.key = t
          /\ tickets[t].status = IF t \in Ambiguous THEN "PLAN" ELSE line.status
          /\ tickets[t].pr = (line.status # "PUSH_FAILED")
      BY <1>8, <3>1, <3>2
    <3> QED
      BY <3>3
  <2> QED
    BY <2>1, <2>2
<1>11. PICK completed \in SUBSET Ticket :
         /\ completed = Ledger!Completed(tickets)
         /\ completed = {t \in Ticket : /\ tickets[t] # Ledger!NotShown
                                        /\ tickets[t].status = "PR_CREATED"}
  BY DEF Ledger!Completed, Ledger!Reported, Ledger!COMPLETED_STATUSES
<1>12. PICK failed \in SUBSET Ticket :
         /\ failed = Ledger!Failed(tickets)
         /\ failed = {t \in Ticket : /\ tickets[t] # Ledger!NotShown
                                     /\ tickets[t].status = "PUSH_FAILED"}
  BY DEF Ledger!Failed, Ledger!Reported, Ledger!FAILED_STATUSES
<1>13. /\ IsFiniteSet(completed) /\ IsFiniteSet(failed)
       /\ Cardinality(completed) \in Nat /\ Cardinality(failed) \in Nat
       /\ Cardinality(completed \union failed) = Cardinality(completed) + Cardinality(failed)
  <2>1. IsFiniteSet(Ticket)
    BY ToolBounds DEF Ledger!LedgerBounds, Ledger!IsFiniteSet, IsFiniteSet
  <2>2. IsFiniteSet(completed) /\ IsFiniteSet(failed)
    BY <2>1, FS_Subset
  <2>3. completed \intersect failed = {}
    BY <1>11, <1>12
  <2>4. Cardinality(completed \intersect failed) = 0
    BY <2>3, FS_EmptySet
  <2>5. Cardinality(completed) \in Nat /\ Cardinality(failed) \in Nat
    BY <2>2, FS_CardinalityType
  <2>6. Cardinality(completed \union failed) =
          Cardinality(completed) + Cardinality(failed) - Cardinality(completed \intersect failed)
    BY <2>2, FS_Union
  <2> QED
    BY <2>2, <2>4, <2>5, <2>6
<1>14. /\ report'.summary.completed = Cardinality(completed)
       /\ report'.summary.failed = Cardinality(failed)
       /\ report'.summary.paid = Cardinality(entries)
  BY <1>5, <1>11, <1>12, CountingReports DEF Ledger!buildSummary
<1>15. report'.ticked = completed
  BY <1>5, <1>11 DEF Ledger!formatTicket, Ledger!Completed
<1>16. /\ report'.next.review = {t \in Ticket : tickets[t] # Ledger!NotShown /\ tickets[t].pr}
       /\ report'.next.intervene = failed
  BY <1>5, <1>12 DEF Ledger!buildNextSteps, Ledger!Reported
<1>17. report' \in Report
  <2>1. report'.tickets \in [Ticket -> Ledger!Shown \union {Ledger!NotShown}]
    BY <1>3, <1>5, <1>10 DEF Ledger!enrichTickets
  <2>2. report'.summary \in [completed : Nat, failed : Nat, paid : Nat]
    BY <1>5, <1>7, <1>13, <1>14, FS_CardinalityType DEF Ledger!buildSummary
  <2>3. report'.cost \in [Ticket -> Nat]
    BY <1>5, <1>7 DEF Ledger!attachCost
  <2>4. report'.next \in [review : SUBSET Ticket, intervene : SUBSET Ticket]
    BY <1>5, <1>12, <1>16 DEF Ledger!buildNextSteps
  <2>5. quality.data \in Ledger!Data
    BY DEF Files, Copy, Counters, Ledger!Data, Ledger!Entry
  <2> QED
    BY <1>2, <1>5, <1>15, <2>1, <2>2, <2>3, <2>4, <2>5
    DEF Report, Ledger!generateSessionReport
<1>18. Ledger!OwnWorkReported'
  <2>1. ASSUME NEW t \in Ticket
        PROVE  (LET since == Ledger!Logged(t, report.from)
                    last == progress[Ledger!Max(since)]
                    paid == Ledger!Paid(t, report.paidFrom)
                IN /\ since # {} /\ t \notin Ambiguous =>
                         /\ report.tickets[t].status = last.status
                         /\ (t \in report.next.intervene) = (last.status = "PUSH_FAILED")
                   /\ since # {} => (t \in report.next.review) = (last.status # "PUSH_FAILED")
                   /\ report.tickets[t] # Ledger!NotShown =>
                         Ledger!Minute(progress[Ledger!Max(Ledger!Logged(t, 0))].at)
                           >= Ledger!Minute(report.start)
                   /\ paid # {} => report.cost[t] = Ledger!Max(paid))'
    <3>1. PICK since \in SUBSET (1..Len(progress)) : since = Ledger!Logged(t, from)
      <4>1. DOMAIN progress = 1..Len(progress)
        BY <1>1 DEF Chronicle
      <4> QED
        BY <4>1 DEF Ledger!Logged
    <3>2. ASSUME since # {}
          PROVE  /\ progress[Ledger!Max(since)] \in Ledger!Line
                 /\ progress[Ledger!Max(since)].key = t
                 /\ tickets[t] = Ledger!StatusRead(progress[Ledger!Max(since)])
      <4>1. Len(progress) \in Nat
        BY <1>1 DEF Chronicle
      <4>2. Ledger!Max(since) \in 1..Len(progress)
        BY <3>2, <4>1, Latest
      <4> QED
        BY <1>6, <1>9, <3>1, <3>2, <4>2
    <3>3. since # {} /\ t \notin Ambiguous =>
             /\ tickets[t].status = progress[Ledger!Max(since)].status
             /\ (t \in failed) = (progress[Ledger!Max(since)].status = "PUSH_FAILED")
      BY <1>8, <1>12, <3>2
    <3>4. since # {} =>
            (t \in report'.next.review) = (progress[Ledger!Max(since)].status # "PUSH_FAILED")
      <4> HAVE since # {}
      <4>1. PICK last \in Ledger!Line : last = progress[Ledger!Max(since)]
        BY <3>2
      <4>2. /\ tickets[t] = Ledger!StatusRead(last) /\ tickets[t] # Ledger!NotShown
            /\ tickets[t].pr = (last.status # "PUSH_FAILED")
        BY <1>8, <3>2, <4>1
      <4>3. PICK failing \in BOOLEAN : failing <=> last.status = "PUSH_FAILED"
        OBVIOUS
      <4>4. PICK reviewed \in SUBSET Ticket :
              /\ reviewed = report'.next.review
              /\ t \in reviewed <=> ~failing
        BY <1>16, <4>2, <4>3
      <4>5. (t \in reviewed) = (last.status # "PUSH_FAILED")
        BY <4>3, <4>4
      <4> QED
        BY <4>1, <4>4, <4>5
    <3>5. /\ Ledger!Logged(t, report.from)' = since
          /\ Ledger!Logged(t, 0)' = Ledger!Logged(t, 0)
          /\ Ledger!Paid(t, report.paidFrom)' = Ledger!Paid(t, fromCosts)
      BY <1>1, <1>5, <3>1 DEF Ledger!Logged, Ledger!Paid
    <3> QED
      BY <1>1, <1>5, <1>6, <1>7, <1>16, <3>3, <3>4, <3>5
  <2>2. report'.summary.paid >= Len(costs) - report'.paidFrom
    BY <1>5, <1>7, <1>14
  <2>3. report'.next.review \intersect report'.next.intervene = {}
    BY <1>10, <1>12, <1>16
  <2>4. completed \union failed =
          {t \in Ticket \ Ambiguous : report'.tickets[t].status \in Ledger!Status \ {"REWORK"}}
    <3>1. Ledger!Status \ {"REWORK"} = {"PR_CREATED", "PUSH_FAILED"}
      BY DEF Ledger!Status
    <3>2. ~(Ledger!NotShown.status \in {"PR_CREATED", "PUSH_FAILED"})
      BY DEF Ledger!NotShown
    <3> QED
      BY <1>5, <1>10, <1>11, <1>12, <3>1, <3>2
  <2> QED
    BY <1>1, <1>13, <1>14, <1>15, <2>1, <2>2, <2>3, <2>4, CountingReports
    DEF Ledger!OwnWorkReported
<1>19. Chronicle' /\ SinceItBegan'
  BY <1>1 DEF Chronicle, SinceItBegan, Ledger!NoLoop
<1> QED
  BY <1>17, <1>18, <1>19 DEF ReportInv

LEMMA ReportKeeps ==
  ASSUME Files, ReportInv, [Ledger!Next]_(Ledger!vars)
  PROVE  ReportInv'
<1>1. now \in Nat /\ now \in 0..MaxTime /\ MaxTime \in Nat
  BY ToolBounds DEF ReportInv, Chronicle, Ledger!LedgerBounds
<1>2. now <= now
  BY <1>1
<1>3. ASSUME NEW r \in Ledger!Runner, Ledger!appendProgress(r) PROVE ReportInv'
  <2>1. PICK line : line = [key |-> run[r].key, status |-> run[r].outcome, at |-> now]
    OBVIOUS
  <2>2. run[r] \in Job
    BY <1>3 DEF Files, Ledger!appendProgress, Ledger!Idle
  <2>3. line \in Ledger!Line /\ line.at = now
    BY <1>1, <2>1, <2>2 DEF Job, Ledger!Line
  <2>4. /\ progress' = Append(progress, line) /\ report' = Ledger!NoReport
        /\ UNCHANGED <<now, costs, loop>>
    BY <1>3, <2>1 DEF Ledger!appendProgress, Ledger!NoneWritten
  <2> QED
    BY <2>3, <2>4, LineKeeps
<1>4. ASSUME NEW r \in Ledger!Runner, Ledger!appendCostEntry(r) PROVE ReportInv'
  <2>1. PICK entry : entry = [key |-> run[r].key, at |-> now]
    OBVIOUS
  <2>2. run[r] \in Job
    BY <1>4 DEF Files, Ledger!appendCostEntry, Ledger!Idle
  <2>3. entry \in CostLine /\ entry.at = now
    BY <1>1, <2>1, <2>2 DEF Job, CostLine
  <2>4. /\ costs' \in {costs, Append(costs, entry)} /\ report' = Ledger!NoReport
        /\ UNCHANGED <<now, progress, loop>>
    BY <1>4, <2>1 DEF Ledger!appendCostEntry, Ledger!NoneWritten
  <2>5. CASE costs' = costs
    BY <1>1, <1>2, <2>4, <2>5, ElseKeeps
  <2> QED
    BY <2>3, <2>4, <2>5, CostKeeps
<1>5. ASSUME loop' \in {loop, Ledger!NoLoop}, report' = Ledger!NoReport,
             UNCHANGED <<now, progress, costs>>
      PROVE  ReportInv'
  BY <1>1, <1>2, <1>5, ElseKeeps
<1>6. ASSUME NEW r \in Ledger!Runner,
             \/ Ledger!RecordQuality(r) \/ Ledger!OpenTmp(r) \/ Ledger!WriteTmp(r)
             \/ Ledger!RenameTmp(r) \/ Ledger!QualityFails(r) \/ Ledger!Crash(r)
      PROVE  ReportInv'
  <2>1. /\ loop' \in {loop, Ledger!NoLoop} /\ report' = Ledger!NoReport
        /\ UNCHANGED <<now, progress, costs>>
    BY <1>6
    DEF Ledger!RecordQuality, Ledger!OpenTmp, Ledger!WriteTmp, Ledger!RenameTmp,
        Ledger!QualityFails, Ledger!Crash, Ledger!NoneWritten, Ledger!logs
  <2> QED
    BY <1>5, <2>1
<1>7. ASSUME NEW r \in Ledger!Runner, NEW t \in Ticket, NEW s \in Ledger!Status,
             Ledger!Deliver(r, t, s)
      PROVE  ReportInv'
  BY <1>5, <1>7 DEF Ledger!Deliver, Ledger!NoneWritten, Ledger!logs
<1>8. CASE Ledger!Tick
  <2>1. /\ now < MaxTime /\ now' = now + 1 /\ loop' = loop /\ report' = Ledger!NoReport
        /\ UNCHANGED <<progress, costs>>
    BY <1>8 DEF Ledger!Tick, Ledger!NoneWritten, Ledger!logs
  <2>2. now' \in 0..MaxTime /\ now <= now'
    BY <1>1, <2>1
  <2> QED
    BY <2>1, <2>2, ElseKeeps
<1>9. CASE Ledger!StartLoop
  BY <1>9, StartKeeps
<1>10. CASE Ledger!buildSessionReport
  BY <1>10, ReportMade
<1>11. CASE UNCHANGED Ledger!vars
  <2>1. UNCHANGED <<now, progress, costs, loop, report>>
    BY <1>11 DEF Ledger!vars
  <2>2. /\ \A t, n : Ledger!Logged(t, n)' = Ledger!Logged(t, n)
        /\ \A t, n : Ledger!Paid(t, n)' = Ledger!Paid(t, n)
    BY <2>1 DEF Ledger!Logged, Ledger!Paid
  <2>3. Ledger!OwnWorkReported'
    BY <2>1, <2>2, Zenon DEF ReportInv, Ledger!OwnWorkReported
  <2>4. Chronicle' /\ SinceItBegan' /\ report' \in {Ledger!NoReport} \union Report
    BY <2>1 DEF ReportInv, Chronicle, SinceItBegan
  <2> QED
    BY <2>3, <2>4 DEF ReportInv
<1> QED
  BY <1>3, <1>4, <1>6, <1>7, <1>8, <1>9, <1>10, <1>11 DEF Ledger!Next

LEMMA LedgerAlways == Spec => [](tool = "ledger" => LedgerInv /\ ReportInv)
<1> DEFINE Inv == tool = "ledger" => LedgerInv /\ ReportInv
<1>1. Init => Inv
  BY LedgerBegins, ReportBegins DEF Init
<1>2. Inv /\ [Next]_vars => Inv'
  <2> SUFFICES ASSUME Inv, [Next]_vars, tool' = "ledger" PROVE LedgerInv' /\ ReportInv'
    OBVIOUS
  <2>1. tool = "ledger" /\ LedgerInv /\ ReportInv
    BY DEF Next, vars
  <2>2. [Ledger!Next]_(Ledger!vars)
    BY <2>1 DEF Next, vars, ofLedger, Ledger!vars
  <2> QED
    BY <2>1, <2>2, LedgerKeeps, ReportKeeps DEF LedgerInv
<1> QED
  BY <1>1, <1>2, PTL DEF Spec

(* Every rework and delivery that replaced quality.json is still counted   *)
(* in it, for any runs, crashes and failed writes, as long as no two       *)
(* processes were between reading and renaming at once; and no rework is   *)
(* ever counted that did not begin (recordRework, writeQualityData).       *)
THEOREM QualityIsKept == Spec => []QualityKept
<1>1. (tool = "ledger" => LedgerInv /\ ReportInv) => QualityKept
  <2> SUFFICES ASSUME LedgerInv, tool = "ledger" PROVE Ledger!QualityKept
    BY DEF QualityKept
  <2>1. ~overlapped => quality.data = counted
    BY DEF LedgerInv, OneAtATime
  <2>2. ASSUME NEW t \in Ticket
        PROVE  quality.data[t].reworks <= begun[t].reworks
    <3>1. Uncounted(run["loop"], t) \in {0, 1} /\ Uncounted(run["other"], t) \in {0, 1}
      BY JobCounts DEF LedgerInv, Files, Ledger!Runner
    <3>2. quality.data[t].reworks \in Nat /\ begun[t].reworks \in Nat
      BY DEF LedgerInv, Files, Copy, Counters
    <3>3. Short(quality.data, t)
      BY DEF LedgerInv, NoneInvented
    <3> QED
      BY <3>1, <3>2, <3>3 DEF Short
  <2> QED
    BY <2>1, <2>2 DEF Ledger!QualityKept, Ledger!readQualityData
<1> QED
  BY <1>1, LedgerAlways, PTL

(* The report of an autopilot session shows every ticket the session has   *)
(* logged, as it was logged last, with what was paid for it last, and has  *)
(* nothing from before the minute it started in; the summary and the next  *)
(* steps agree with it, for any tickets, times and runs beside the loop    *)
(* (enrichTickets, attachCost, buildSummary, buildNextSteps).              *)
THEOREM OwnWorkAlwaysReported == Spec => []OwnWorkReported
<1>1. (tool = "ledger" => LedgerInv /\ ReportInv) => OwnWorkReported
  BY DEF ReportInv, OwnWorkReported
<1> QED
  BY <1>1, LedgerAlways, PTL

-----------------------------------------------------------------------------
(* The batch over plan files *)

(* Each plan has one turn, and it is skipped or has it.                    *)
Turns ==
  /\ \A i, j \in 1..Len(queue) : queue[i] = queue[j] => i = j
  /\ \A i \in 1..Len(queue) : queue[i] \notin skipped
  /\ pc # "idle" => Len(queue) + Cardinality(skipped) = Batch!Asked

(* Only the last result may be one that stops the batch.                   *)
Halts ==
  /\ pc = "idle" => results = <<>> /\ told = {} /\ ~halted
  /\ pc \notin {"idle", "report"} => ~halted /\ Len(results) < Len(queue)
  /\ halted => results # <<>>
  /\ \A i \in 1..Len(results) :
       Batch!batchHalt(results[i]) = (halted /\ i = Len(results))

(* A session is for the plan's own key or the board ticket it names, and   *)
(* it is that of a turn that is over or of the one that delivers.          *)
PastTicket == {"dryRun", "feasibility", "branch", "invoke", "deliver"}
InSession == {"completed", "aborted", "error"}

Sessions ==
  /\ \A p \in Batch!Plan : files[p] \in {p, Batch!NoKey} \union Other
  /\ pc \in PastTicket => ctx.ticket \in {Batch!plan} \union Other
  /\ isDryRun => told = {} /\ pc \notin PastTicket \ {"dryRun"}
  /\ pc = "deliver" => <<Batch!plan, ctx.ticket>> \in told
  /\ \A s \in told :
       /\ s[2] \in {s[1]} \union Other
       /\ \/ \E i \in 1..Len(results) : s[1] = queue[i] /\ results[i] \in InSession
          \/ pc = "deliver" /\ s[1] = Batch!plan /\ s[2] = ctx.ticket

(* A turn that is completed had its session, and delivered its key; only   *)
(* the plan that stops the batch takes a board ticket from sight.          *)
Delivered ==
  \A i \in 1..Len(results) : results[i] = "completed" =>
    /\ \E s \in told : s[1] = queue[i]
    /\ \A s \in told : s[1] = queue[i] => s[2] \in delivered \/ (halted /\ s[2] \in Other)

BatchInv == Batch!TypeOK /\ Turns /\ Halts /\ Sessions /\ Delivered

LEMMA CountingPlans == \A S : Batch!Cardinality(S) = Cardinality(S)
BY DEF Batch!Cardinality, Cardinality

LEMMA Plans ==
  /\ MaxPlan \in Nat /\ Batch!Plan = 1..MaxPlan /\ Batch!NoKey \notin Batch!Key
  /\ \A k \in Other : k \notin Batch!Plan /\ k \in Batch!Key
  /\ Batch!Plan \subseteq Batch!Key /\ Batch!Nobody \notin Batch!Key
  /\ IsFiniteSet(Batch!Plan) /\ Cardinality(Batch!Plan) = MaxPlan
<1>1. /\ MaxPlan \in Nat /\ Batch!Plan = 1..MaxPlan
      /\ Other \intersect (Batch!Plan \union {Batch!Nobody, Batch!NoKey}) = {}
  BY ToolBounds DEF Batch!BatchBounds, Batch!OthersAreNotPlans, Batch!Plan
<1>2. Batch!NoKey \notin Batch!Plan /\ Batch!Nobody \notin Batch!Plan
  BY <1>1 DEF Batch!NoKey, Batch!Nobody
<1>3. IsFiniteSet(Batch!Plan) /\ Cardinality(Batch!Plan) = MaxPlan
  BY <1>1, FS_Interval
<1> QED
  BY <1>1, <1>2, <1>3 DEF Batch!Key

LEMMA BatchBegins == Batch!Init => BatchInv
<1> SUFFICES ASSUME Batch!Init PROVE BatchInv
  OBVIOUS
<1>1. /\ queue = <<>> /\ results = <<>> /\ told = {} /\ pc = "idle" /\ halted = FALSE
      /\ isDryRun = FALSE /\ ctx = Batch!NoContext /\ skipped = {}
  BY DEF Batch!Init
<1>2. Len(queue) = 0 /\ Len(results) = 0 /\ queue \in Seq(Batch!Plan)
      /\ results \in Seq(Batch!Result)
  BY <1>1
<1>3. /\ files \in [Batch!Plan -> Batch!Key]
      /\ \A p \in Batch!Plan : files[p] \in {p} \union Other
  BY DEF Batch!Init
<1>4. Batch!TypeOK
  <2>1. files \in [Batch!Plan -> Batch!Key \union {Batch!NoKey}]
    BY <1>3
  <2>2. ctx \in [ticket : Batch!Key \union {Batch!Nobody}, rework : Batch!Key \union {Batch!Nobody},
                 token : BOOLEAN]
    BY <1>1 DEF Batch!NoContext
  <2>3. /\ marker \subseteq Batch!Plan /\ reworks \in [Batch!Key -> Nat]
        /\ delivered = Other /\ review = {} /\ lock \in Batch!Lock /\ mode \in {"single", "batch"}
    BY DEF Batch!Init, Batch!Lock
  <2>4. delivered \subseteq Batch!Key /\ review \subseteq delivered
    BY <2>3, Plans
  <2>5. pc \in Batch!PC /\ skipped \subseteq Batch!Plan /\ told \subseteq Batch!Plan \X Batch!Key
    BY <1>1 DEF Batch!PC
  <2>6. isDryRun \in BOOLEAN /\ halted \in BOOLEAN
    BY <1>1, Zenon
  <2>7. Len(results) <= Len(queue)
    BY <1>2
  <2> QED
    BY <1>2, <2>1, <2>2, <2>3, <2>4, <2>5, <2>6, <2>7 DEF Batch!TypeOK
<1>5. Turns /\ Halts /\ Delivered
  BY <1>1, <1>2 DEF Turns, Halts, Delivered
<1>6. Sessions
  BY <1>1, <1>3 DEF Sessions, PastTicket
<1> QED
  BY <1>4, <1>5, <1>6 DEF BatchInv

(* The plan whose turn it is, and no other, is queue[Len(results) + 1].    *)
LEMMA Turn ==
  ASSUME BatchInv, pc \notin {"idle", "report"}
  PROVE  /\ Len(results) \in Nat /\ Len(queue) \in Nat
         /\ Len(results) + 1 \in 1..Len(queue) /\ Batch!plan = queue[Len(results) + 1]
         /\ Batch!plan \in Batch!Plan /\ ~halted
         /\ \A i \in 1..Len(results) : i \in 1..Len(queue) /\ queue[i] # Batch!plan
         /\ \A s \in told : s[1] = Batch!plan => pc = "deliver" /\ s[2] = ctx.ticket
<1>1. /\ queue \in Seq(Batch!Plan) /\ results \in Seq(Batch!Result)
      /\ Len(results) < Len(queue) /\ ~halted
  BY DEF BatchInv, Batch!TypeOK, Halts
<1>2. /\ Len(results) \in Nat /\ Len(queue) \in Nat /\ Len(results) + 1 \in 1..Len(queue)
      /\ Batch!plan = queue[Len(results) + 1]
      /\ \A i \in 1..Len(results) : i \in 1..Len(queue) /\ i # Len(results) + 1
  BY <1>1 DEF Batch!plan
<1>3. Batch!plan \in Batch!Plan
  BY <1>1, <1>2
<1>4. \A i \in 1..Len(results) : queue[i] # Batch!plan
  BY <1>2 DEF BatchInv, Turns
<1>5. \A s \in told : s[1] = Batch!plan => pc = "deliver" /\ s[2] = ctx.ticket
  BY <1>4 DEF BatchInv, Sessions
<1> QED
  BY <1>1, <1>2, <1>3, <1>4, <1>5

(* A turn is over.                                                         *)
LEMMA ReturnKeeps ==
  ASSUME BatchInv, pc \notin {"idle", "report"}, NEW result \in Batch!Result,
         Batch!Return(result),
         UNCHANGED <<marker, files, isDryRun, mode, queue, skipped, told>>,
         delivered' \subseteq Batch!Key, review' \subseteq delivered',
         reworks' \in [Batch!Key -> Nat], lock' \in Batch!Lock,
         \A k \in delivered :
           k \in delivered' \/ (Batch!batchHalt(result) /\ k \in {Batch!plan} \union Other),
         result = "completed" => pc = "deliver" /\ ctx.ticket \in delivered',
         pc = "deliver" => result \in InSession
  PROVE  BatchInv'
<1> DEFINE n == Len(results)
<1>1. Batch!TypeOK /\ Turns /\ Halts /\ Sessions /\ Delivered
  BY DEF BatchInv
<1>2. /\ n \in Nat /\ Len(queue) \in Nat /\ n + 1 \in 1..Len(queue)
      /\ Batch!plan = queue[n + 1] /\ Batch!plan \in Batch!Plan /\ ~halted
      /\ \A i \in 1..n : i \in 1..Len(queue) /\ queue[i] # Batch!plan
      /\ \A s \in told : s[1] = Batch!plan => pc = "deliver" /\ s[2] = ctx.ticket
  BY Turn
<1>3. results \in Seq(Batch!Result) /\ results' = Append(results, result)
      /\ halted' = Batch!batchHalt(result) /\ ctx' = Batch!NoContext
      /\ pc' = (IF Batch!batchHalt(result) \/ Len(results') = Len(queue)
                THEN "report" ELSE "next")
  BY <1>1 DEF Batch!Return, Batch!TypeOK
<1>4. /\ results' \in Seq(Batch!Result) /\ Len(results') = n + 1
      /\ results'[n + 1] = result /\ \A i \in 1..n : results'[i] = results[i]
      /\ \A i \in 1..Len(results') : i \in 1..n \/ i = n + 1
      /\ \A i \in 1..n : i \in 1..Len(results') /\ i # n + 1
      /\ n + 1 \in 1..Len(results')
  BY <1>2, <1>3
<1> HIDE DEF n
<1>5. Batch!TypeOK'
  <2>1. ctx' \in [ticket : Batch!Key \union {Batch!Nobody}, rework : Batch!Key \union {Batch!Nobody},
                  token : BOOLEAN]
    BY <1>3 DEF Batch!NoContext
  <2>2. Len(results') <= Len(queue')
    BY <1>2, <1>4
  <2>3. halted' \in BOOLEAN /\ pc' \in Batch!PC
    BY <1>3 DEF Batch!batchHalt, Batch!PC
  <2> QED
    BY <1>1, <1>4, <2>1, <2>2, <2>3 DEF Batch!TypeOK
<1>6. Turns'
  BY <1>1 DEF Turns, Batch!Asked
<1>7. Halts'
  <2>1. pc' \in {"report", "next"} /\ (pc' = "next" => ~halted' /\ Len(results') # Len(queue))
    BY <1>3
  <2>2. Len(results') < Len(queue) \/ Len(results') = Len(queue)
    BY <1>2, <1>4
  <2>3. results' # <<>>
    BY <1>2, <1>4
  <2>4. ASSUME NEW i \in 1..Len(results')
        PROVE  Batch!batchHalt(results'[i]) = (halted' /\ i = Len(results'))
    <3>1. CASE i \in 1..n
      BY <1>1, <1>2, <1>4, <3>1 DEF Halts, n, Batch!batchHalt
    <3>2. CASE i = n + 1
      BY <1>3, <1>4, <3>2 DEF Batch!batchHalt
    <3> QED
      BY <1>4, <3>1, <3>2
  <2> QED
    BY <2>1, <2>2, <2>3, <2>4 DEF Halts
<1>8. Sessions'
  <2>1. pc' \notin PastTicket
    BY <1>3 DEF PastTicket
  <2>2. ASSUME NEW s \in told
        PROVE  \E i \in 1..Len(results') : s[1] = queue[i] /\ results'[i] \in InSession
    <3>1. CASE \E i \in 1..n : s[1] = queue[i] /\ results[i] \in InSession
      BY <1>4, <3>1
    <3>2. CASE pc = "deliver" /\ s[1] = Batch!plan
      BY <1>2, <1>4, <3>2
    <3> QED
      BY <1>1, <3>1, <3>2 DEF Sessions, n
  <2> QED
    BY <1>1, <2>1, <2>2 DEF Sessions, PastTicket
<1>9. Delivered'
  <2>1. ASSUME NEW i \in 1..n, results[i] = "completed"
        PROVE  /\ \E s \in told : s[1] = queue[i]
               /\ \A s \in told : s[1] = queue[i] =>
                    s[2] \in delivered' \/ (halted' /\ s[2] \in Other)
    <3>1. /\ \E s \in told : s[1] = queue[i]
          /\ \A s \in told : s[1] = queue[i] => s[2] \in delivered
      BY <1>1, <1>2, <2>1 DEF Delivered, n
    <3>2. ASSUME NEW s \in told, s[1] = queue[i]
          PROVE  s[2] \in delivered' \/ (halted' /\ s[2] \in Other)
      <4>1. s[2] \in delivered /\ s[1] # Batch!plan /\ s[2] \in {s[1]} \union Other
        BY <1>1, <1>2, <3>1, <3>2 DEF Sessions
      <4>2. s[2] = Batch!plan => s[2] \in Other
        BY <4>1
      <4> QED
        BY <1>3, <4>1, <4>2
    <3> QED
      BY <3>1, <3>2
  <2>2. ASSUME result = "completed"
        PROVE  /\ \E s \in told : s[1] = queue[n + 1]
               /\ \A s \in told : s[1] = queue[n + 1] => s[2] \in delivered'
    <3>1. pc = "deliver" /\ ctx.ticket \in delivered' /\ <<Batch!plan, ctx.ticket>> \in told
      BY <1>1, <2>2 DEF Sessions
    <3>2. \A s \in told : s[1] = queue[n + 1] => s[2] \in delivered'
      BY <1>2, <3>1
    <3>3. <<Batch!plan, ctx.ticket>>[1] = queue[n + 1]
      BY <1>2
    <3> QED
      BY <3>1, <3>2, <3>3
  <2> QED
    BY <1>4, <2>1, <2>2 DEF Delivered
<1> QED
  BY <1>5, <1>6, <1>7, <1>8, <1>9 DEF BatchInv

(* Steps within a turn, before its session, and those of others.           *)
LEMMA WithinKeeps ==
  ASSUME BatchInv, pc # "deliver", pc' # "deliver",
         pc' = pc \/ (pc \notin {"idle", "report"} /\ pc' \in Batch!PC \ {"idle", "report"}),
         UNCHANGED <<isDryRun, mode, queue, skipped, results, halted, delivered, reworks, told>>,
         marker' \subseteq Batch!Plan, review' \subseteq delivered, lock' \in Batch!Lock,
         files' \in [Batch!Plan -> Batch!Key \union {Batch!NoKey}],
         \A p \in Batch!Plan : files'[p] \in {p, Batch!NoKey} \union Other,
         ctx' \in [ticket : Batch!Key \union {Batch!Nobody},
                   rework : Batch!Key \union {Batch!Nobody}, token : BOOLEAN],
         pc' \in PastTicket => ctx'.ticket \in {Batch!plan} \union Other,
         isDryRun => pc' \notin PastTicket \ {"dryRun"}
  PROVE  BatchInv'
<1>1. Batch!TypeOK /\ Turns /\ Halts /\ Sessions /\ Delivered
  BY DEF BatchInv
<1>2. Batch!TypeOK'
  BY <1>1 DEF Batch!TypeOK
<1>3. Turns' /\ Halts'
  BY <1>1 DEF Turns, Halts, Batch!Asked
<1>4. Batch!plan' = Batch!plan
  BY DEF Batch!plan
<1>5. Sessions'
  BY <1>1, <1>4 DEF Sessions
<1>6. Delivered'
  BY <1>1 DEF Delivered
<1> QED
  BY <1>2, <1>3, <1>5, <1>6 DEF BatchInv

LEMMA InvokeKeeps == BatchInv /\ Batch!invoke => BatchInv'
<1> SUFFICES ASSUME BatchInv, Batch!invoke PROVE BatchInv'
  OBVIOUS
<1>1. Batch!TypeOK /\ Turns /\ Halts /\ Sessions /\ Delivered
  BY DEF BatchInv
<1>2. /\ pc = "invoke" /\ pc' = "deliver"
      /\ told' = told \union {<<Batch!plan, ctx.ticket>>}
      /\ UNCHANGED <<marker, files, delivered, review, reworks, lock, isDryRun, mode, queue,
                     skipped, results, halted, ctx>>
  BY DEF Batch!invoke, Batch!plans, Batch!tickets, Batch!batch, Batch!outcome
<1>3. /\ Batch!plan \in Batch!Plan /\ ~isDryRun /\ Batch!plan' = Batch!plan
      /\ ctx.ticket \in {Batch!plan} \union Other
      /\ \A i \in 1..Len(results) : queue[i] # Batch!plan
      /\ \A s \in told : s[1] # Batch!plan
  BY <1>1, <1>2, Turn DEF Sessions, PastTicket, Batch!plan
<1>4. PICK new : new = <<Batch!plan, ctx.ticket>>
  OBVIOUS
<1>5. new[1] = Batch!plan /\ new[2] = ctx.ticket /\ new \in Batch!Plan \X Batch!Key
  BY <1>3, <1>4, Plans
<1>6. Batch!TypeOK'
  BY <1>1, <1>2, <1>4, <1>5 DEF Batch!TypeOK, Batch!PC
<1>7. Turns' /\ Halts'
  BY <1>1, <1>2 DEF Turns, Halts, Batch!Asked
<1>8. ASSUME NEW s \in told'
      PROVE  /\ s[2] \in {s[1]} \union Other
             /\ \/ \E i \in 1..Len(results) : s[1] = queue[i] /\ results[i] \in InSession
                \/ s[1] = Batch!plan /\ s[2] = ctx.ticket
  <2>1. CASE s = new
    BY <1>3, <1>5, <2>1
  <2>2. CASE s \in told
    BY <1>1, <1>2, <2>2 DEF Sessions
  <2> QED
    BY <1>2, <1>4, <2>1, <2>2
<1>9. Sessions'
  BY <1>1, <1>2, <1>3, <1>8 DEF Sessions
<1>10. Delivered'
  <2>1. ASSUME NEW i \in 1..Len(results), results[i] = "completed"
        PROVE  /\ \E s \in told' : s[1] = queue[i]
               /\ \A s \in told' : s[1] = queue[i] =>
                    s[2] \in delivered \/ (halted /\ s[2] \in Other)
    <3>1. \A s \in told' : s[1] = queue[i] => s \in told
      BY <1>2, <1>3, <1>4, <1>5
    <3> QED
      BY <1>1, <1>2, <2>1, <3>1 DEF Delivered
  <2> QED
    BY <1>2, <2>1 DEF Delivered
<1> QED
  BY <1>6, <1>7, <1>9, <1>10 DEF BatchInv

(* A batch starts, or one plan, and the process ends.                      *)
LEMMA BeginKeeps ==
  ASSUME BatchInv, NEW how \in {"single", "batch"}, NEW chosen \in Seq(Batch!Plan),
         Batch!Begin(how, chosen), skipped' \subseteq Batch!Plan,
         \A i, j \in 1..Len(chosen) : chosen[i] = chosen[j] => i = j,
         \A i \in 1..Len(chosen) : chosen[i] \notin skipped',
         Len(chosen) + Cardinality(skipped') = IF how = "batch" THEN MaxPlan ELSE 1
  PROVE  BatchInv'
<1>1. Batch!TypeOK /\ Halts /\ Sessions
  BY DEF BatchInv
<1>2. /\ pc = "idle" /\ mode' = how /\ queue' = chosen /\ isDryRun' \in BOOLEAN
      /\ pc' = (IF chosen = <<>> THEN "report" ELSE "next")
      /\ UNCHANGED <<marker, files, delivered, review, reworks, lock, results, halted, ctx, told>>
  BY DEF Batch!Begin, Batch!plans, Batch!tickets, Batch!outcome
<1>3. results = <<>> /\ told = {} /\ ~halted /\ Len(results) = 0 /\ Len(chosen) \in Nat
  BY <1>1, <1>2 DEF Halts
<1>4. chosen # <<>> => Len(chosen) > 0
  BY <1>3
<1>5. Batch!TypeOK'
  BY <1>1, <1>2, <1>3 DEF Batch!TypeOK, Batch!PC
<1>6. Turns'
  BY <1>2 DEF Turns, Batch!Asked
<1>7. Halts'
  BY <1>2, <1>3, <1>4 DEF Halts
<1>8. Sessions' /\ Delivered'
  BY <1>1, <1>2, <1>3 DEF Sessions, Delivered, PastTicket
<1> QED
  BY <1>5, <1>6, <1>7, <1>8 DEF BatchInv

LEMMA MainKeeps ==
  ASSUME BatchInv, NEW isDirectory \in BOOLEAN, NEW isAfk \in BOOLEAN,
         Batch!main(isDirectory, isAfk)
  PROVE  BatchInv'
<1>1. CASE Batch!listPlanFiles
  <2>1. /\ marker \subseteq Batch!Plan /\ skipped' = Batch!Plan \ marker
        /\ Batch!Plan = 1..MaxPlan /\ MaxPlan \in Nat
    BY <1>1, Plans DEF BatchInv, Batch!TypeOK, Batch!listPlanFiles
  <2>2. IsFiniteSet(marker) /\ Cardinality(marker) \in Nat
    BY <2>1, Plans, FS_Subset, FS_CardinalityType
  <2>3. PICK chosen \in [1..Cardinality(marker) -> marker] :
          Batch!InOrder(chosen) /\ Batch!Begin("batch", chosen)
    BY <1>1, CountingPlans DEF Batch!listPlanFiles
  <2>4. /\ chosen \in Seq(Batch!Plan) /\ Len(chosen) = Cardinality(marker)
        /\ DOMAIN chosen = 1..Cardinality(marker)
    <3>1. PICK n \in Nat : n = Cardinality(marker)
      BY <2>2
    <3>2. chosen \in [1..n -> Batch!Plan] /\ DOMAIN chosen = 1..n
      BY <2>1, <2>3, <3>1
    <3>3. chosen \in Seq(Batch!Plan) /\ Len(chosen) = n
      BY <3>2
    <3> QED
      BY <3>1, <3>2, <3>3
  <2>5. \A i \in 1..Len(chosen) : chosen[i] \in marker /\ chosen[i] \in Nat
    BY <2>1, <2>4
  <2>6. ASSUME NEW i \in 1..Len(chosen), NEW j \in 1..Len(chosen), chosen[i] = chosen[j]
        PROVE  i = j
    <3>1. i \in DOMAIN chosen /\ j \in DOMAIN chosen /\ i \in Nat /\ j \in Nat
      BY <2>2, <2>4
    <3>2. ~(i < j) /\ ~(j < i)
      BY <2>3, <2>5, <2>6, <3>1 DEF Batch!InOrder
    <3> QED
      BY <3>1, <3>2
  <2>7. Cardinality(skipped') = MaxPlan - Cardinality(marker)
    <3>1. Batch!Plan \intersect marker = marker
      BY <2>1
    <3> QED
      BY <2>1, <3>1, Plans, FS_Difference
  <2>8. Len(chosen) + Cardinality(skipped') = MaxPlan
    BY <2>1, <2>2, <2>4, <2>7
  <2> QED
    BY <2>1, <2>3, <2>4, <2>5, <2>6, <2>8, BeginKeeps
<1>2. ASSUME NEW p \in Batch!Plan, Batch!runImplement(p)
      PROVE  BatchInv'
  <2>1. PICK chosen : chosen = <<p>>
    OBVIOUS
  <2>2. /\ chosen \in Seq(Batch!Plan) /\ Len(chosen) = 1
        /\ \A i, j \in 1..Len(chosen) : i = j
        /\ Batch!Begin("single", chosen) /\ skipped' = {}
    BY <1>2, <2>1 DEF Batch!runImplement
  <2>3. Cardinality(skipped') = 0
    BY <2>2, FS_EmptySet
  <2>4. Len(chosen) + Cardinality(skipped') = 1
    BY <2>2, <2>3
  <2> QED
    BY <2>2, <2>4, BeginKeeps
<1> QED
  BY <1>1, <1>2 DEF Batch!main

LEMMA ExitKeeps ==
  ASSUME BatchInv, Batch!Exit, lock' \in Batch!Lock
  PROVE  BatchInv'
<1>1. Batch!TypeOK /\ Sessions
  BY DEF BatchInv
<1>2. /\ pc' = "idle" /\ mode' = "batch" /\ isDryRun' = FALSE /\ queue' = <<>>
      /\ skipped' = {} /\ results' = <<>> /\ halted' = FALSE /\ ctx' = Batch!NoContext
      /\ told' = {} /\ UNCHANGED <<marker, files, delivered, review, reworks>>
  BY DEF Batch!Exit, Batch!plans, Batch!tickets
<1>3. /\ queue' \in Seq(Batch!Plan) /\ results' \in Seq(Batch!Result)
      /\ Len(queue') = 0 /\ Len(results') = 0
  BY <1>2
<1>4. isDryRun' \in BOOLEAN /\ halted' \in BOOLEAN
  BY <1>2, Zenon
<1>5. ctx' \in [ticket : Batch!Key \union {Batch!Nobody},
                rework : Batch!Key \union {Batch!Nobody}, token : BOOLEAN]
  BY <1>2 DEF Batch!NoContext
<1>6. Batch!TypeOK'
  <2>1. /\ mode' \in {"single", "batch"} /\ pc' \in Batch!PC /\ skipped' \subseteq Batch!Plan
        /\ told' \subseteq Batch!Plan \X Batch!Key /\ Len(results') <= Len(queue')
    BY <1>2, <1>3 DEF Batch!PC
  <2> QED
    BY <1>1, <1>2, <1>3, <1>4, <1>5, <2>1 DEF Batch!TypeOK
<1>7. Turns' /\ Halts' /\ Delivered'
  BY <1>2, <1>3 DEF Turns, Halts, Delivered
<1>8. Sessions'
  BY <1>1, <1>2 DEF Sessions, PastTicket
<1> QED
  BY <1>6, <1>7, <1>8 DEF BatchInv

(* The steps up to the ticket.                                             *)
LEMMA BeforeTicket ==
  ASSUME BatchInv,
         \/ Batch!lockCheck \/ Batch!runLocalPreflight \/ Batch!preflightFails
         \/ Batch!reworkDetection
  PROVE  BatchInv'
<1> DEFINE Context == [ticket : Batch!Key \union {Batch!Nobody},
                       rework : Batch!Key \union {Batch!Nobody}, token : BOOLEAN]
<1>1. /\ Batch!TypeOK /\ ctx \in Context /\ marker \subseteq Batch!Plan
      /\ files \in [Batch!Plan -> Batch!Key \union {Batch!NoKey}]
      /\ \A p \in Batch!Plan : files[p] \in {p, Batch!NoKey} \union Other
      /\ delivered \subseteq Batch!Key /\ review \subseteq delivered
      /\ reworks \in [Batch!Key -> Nat] /\ lock \in Batch!Lock
  BY DEF BatchInv, Sessions, Batch!TypeOK
<1>2. /\ "aborted" \in Batch!Result /\ "resumed" \in Batch!Result
      /\ "none" \in Batch!Lock /\ "preflight" \in Batch!PC \ {"idle", "report"}
      /\ "rework" \in Batch!PC \ {"idle", "report"} /\ "ticket" \in Batch!PC \ {"idle", "report"}
      /\ {"preflight", "rework", "ticket"} \intersect PastTicket = {}
  BY DEF Batch!Result, Batch!Lock, Batch!PC, PastTicket
<1>3. CASE Batch!lockCheck
  <2>1. /\ pc = "next"
        /\ UNCHANGED <<marker, files, delivered, review, reworks, isDryRun, mode, queue,
                       skipped, told>>
    BY <1>3 DEF Batch!lockCheck, Batch!plans, Batch!tickets, Batch!batch
  <2>2. CASE lock = "live" /\ Batch!Return("aborted") /\ UNCHANGED lock
    BY <1>1, <1>2, <2>1, <2>2, ReturnKeeps
  <2>3. CASE lock = "dead" /\ Batch!Return("resumed") /\ lock' = "none"
    BY <1>1, <1>2, <2>1, <2>3, ReturnKeeps
  <2>4. CASE pc' = "preflight" /\ lock' = "none" /\ UNCHANGED <<results, halted, ctx>>
    BY <1>1, <1>2, <2>1, <2>4, WithinKeeps
  <2> QED
    BY <1>3, <2>2, <2>3, <2>4 DEF Batch!lockCheck, Batch!outcome
<1>4. CASE Batch!runLocalPreflight
  <2>1. /\ pc = "preflight" /\ pc' = "rework"
        /\ UNCHANGED <<marker, files, delivered, review, reworks, lock, isDryRun, mode, queue,
                       skipped, results, halted, told>>
    BY <1>4 DEF Batch!runLocalPreflight, Batch!plans, Batch!tickets, Batch!batch, Batch!outcome
  <2>2. ctx' \in Context
    BY <1>1, <1>4 DEF Batch!runLocalPreflight
  <2> QED
    BY <1>1, <1>2, <2>1, <2>2, WithinKeeps
<1>5. CASE Batch!preflightFails
  <2>1. /\ pc = "preflight" /\ Batch!Return("aborted")
        /\ UNCHANGED <<marker, files, delivered, review, reworks, lock, isDryRun, mode, queue,
                       skipped, told>>
    BY <1>5 DEF Batch!preflightFails, Batch!plans, Batch!tickets, Batch!batch
  <2> QED
    BY <1>1, <1>2, <2>1, ReturnKeeps
<1>6. CASE Batch!reworkDetection
  <2>1. /\ pc = "rework" /\ pc' = "ticket"
        /\ UNCHANGED <<marker, files, delivered, review, reworks, lock, isDryRun, mode, queue,
                       skipped, results, halted, told>>
    BY <1>6 DEF Batch!reworkDetection, Batch!plans, Batch!tickets, Batch!batch, Batch!outcome
  <2>2. ctx' \in Context
    <3>1. CASE UNCHANGED ctx
      BY <1>1, <3>1
    <3>2. ASSUME NEW k \in review, ctx' = [ctx EXCEPT !.ticket = k, !.rework = k]
          PROVE  ctx' \in Context
      BY <1>1, <3>2
    <3> QED
      BY <1>6, <3>1, <3>2 DEF Batch!reworkDetection
  <2> QED
    BY <1>1, <1>2, <2>1, <2>2, WithinKeeps
<1> QED
  BY <1>3, <1>4, <1>5, <1>6

(* The plan's ticket is taken, or the turn ends without a session.         *)
LEMMA TicketKeeps == BatchInv /\ Batch!runTicketFetch => BatchInv'
<1> SUFFICES ASSUME BatchInv, Batch!runTicketFetch PROVE BatchInv'
  OBVIOUS
<1> DEFINE Context == [ticket : Batch!Key \union {Batch!Nobody},
                       rework : Batch!Key \union {Batch!Nobody}, token : BOOLEAN]
<1>1. /\ ctx \in Context /\ marker \subseteq Batch!Plan
      /\ files \in [Batch!Plan -> Batch!Key \union {Batch!NoKey}]
      /\ \A p \in Batch!Plan : files[p] \in {p, Batch!NoKey} \union Other
      /\ delivered \subseteq Batch!Key /\ review \subseteq delivered
      /\ reworks \in [Batch!Key -> Nat] /\ lock \in Batch!Lock
  BY DEF BatchInv, Sessions, Batch!TypeOK
<1>2. /\ pc = "ticket"
      /\ UNCHANGED <<marker, files, lock, isDryRun, mode, queue, skipped, told>>
  BY DEF Batch!runTicketFetch, Batch!plans, Batch!batch
<1>3. Batch!plan \in Batch!Plan
  BY <1>2, Turn
<1>4. /\ "aborted" \in Batch!Result /\ "error" \in Batch!Result
      /\ Batch!batchHalt("aborted") /\ Batch!batchHalt("error")
  BY DEF Batch!Result, Batch!batchHalt
<1>5. PICK parsed : parsed = Batch!parsePlanFile(Batch!plan)
  OBVIOUS
<1>6. parsed.ok => parsed.key \in {Batch!plan} \union Other /\ parsed.key \in Batch!Key
  BY <1>1, <1>3, <1>5, Plans DEF Batch!parsePlanFile
<1>7. CASE parsed.ok /\ ctx' = [ctx EXCEPT !.ticket = parsed.key] /\ pc' = "dryRun"
           /\ UNCHANGED <<delivered, review, reworks, results, halted>>
  <2>1. ctx' \in Context /\ ctx'.ticket = parsed.key
    BY <1>1, <1>6, <1>7
  <2>2. /\ "dryRun" \in Batch!PC \ {"idle", "report"}
        /\ "dryRun" \notin PastTicket \ {"dryRun"}
    BY DEF Batch!PC
  <2> QED
    BY <1>1, <1>2, <1>6, <1>7, <2>1, <2>2, WithinKeeps
<1>8. CASE parsed.ok /\ Batch!Return("aborted") /\ Batch!Dropped(parsed.key)
           /\ UNCHANGED reworks
  <2>1. delivered' = delivered \ {parsed.key} /\ review' = review \ {parsed.key}
    BY <1>8 DEF Batch!Dropped
  <2>2. /\ delivered' \subseteq Batch!Key /\ review' \subseteq delivered'
        /\ \A k \in delivered :
             \/ k \in delivered'
             \/ Batch!batchHalt("aborted") /\ k \in {Batch!plan} \union Other
    BY <1>1, <1>4, <1>6, <1>8, <2>1
  <2> QED
    BY <1>1, <1>2, <1>4, <1>8, <2>2, ReturnKeeps
<1>9. ASSUME NEW result \in {"aborted", "error"}, Batch!Return(result),
             UNCHANGED <<delivered, review, reworks>>
      PROVE  BatchInv'
  BY <1>1, <1>2, <1>4, <1>9, ReturnKeeps
<1> QED
  BY <1>5, <1>7, <1>8, <1>9
  DEF Batch!runTicketFetch, Batch!localTicketSeed, Batch!tickets, Batch!outcome

(* The steps from the ticket to the session, and a turn that fails.        *)
LEMMA AfterTicket ==
  ASSUME BatchInv,
         \/ Batch!dryRun \/ Batch!feasibility \/ Batch!branchSetup \/ Batch!PhaseFails
  PROVE  BatchInv'
<1>1. /\ ctx \in [ticket : Batch!Key \union {Batch!Nobody},
                  rework : Batch!Key \union {Batch!Nobody}, token : BOOLEAN]
      /\ marker \subseteq Batch!Plan /\ files \in [Batch!Plan -> Batch!Key \union {Batch!NoKey}]
      /\ \A p \in Batch!Plan : files[p] \in {p, Batch!NoKey} \union Other
      /\ delivered \subseteq Batch!Key /\ review \subseteq delivered
      /\ reworks \in [Batch!Key -> Nat] /\ lock \in Batch!Lock
      /\ pc \in PastTicket => ctx.ticket \in {Batch!plan} \union Other
      /\ isDryRun => pc \notin PastTicket \ {"dryRun"}
  BY DEF BatchInv, Sessions, Batch!TypeOK
<1>2. /\ {"dry-run", "aborted", "error"} \subseteq Batch!Result
      /\ {"none", "live"} \subseteq Batch!Lock
      /\ {"feasibility", "branch", "invoke"} \subseteq Batch!PC \ {"idle", "report"}
      /\ {"feasibility", "branch", "invoke"} \subseteq PastTicket \ {"dryRun"}
      /\ Batch!batchHalt("aborted") /\ Batch!batchHalt("error")
      /\ {"aborted", "error"} \subseteq InSession
  BY DEF Batch!Result, Batch!Lock, Batch!PC, PastTicket, Batch!batchHalt, InSession
<1>3. CASE Batch!dryRun
  <2>1. /\ pc = "dryRun" /\ pc \in PastTicket
        /\ UNCHANGED <<marker, files, delivered, review, reworks, lock, isDryRun, mode, queue,
                       skipped, told>>
    BY <1>3 DEF Batch!dryRun, Batch!plans, Batch!tickets, Batch!batch, PastTicket
  <2>2. CASE isDryRun /\ Batch!Return("dry-run")
    BY <1>1, <1>2, <2>1, <2>2, ReturnKeeps
  <2>3. CASE ~isDryRun /\ pc' = "feasibility" /\ UNCHANGED <<results, halted, ctx>>
    BY <1>1, <1>2, <2>1, <2>3, WithinKeeps
  <2> QED
    BY <1>3, <2>2, <2>3 DEF Batch!dryRun, Batch!outcome
<1>4. CASE Batch!feasibility \/ Batch!branchSetup
  <2>1. /\ pc \in {"feasibility", "branch"} /\ pc' \in {"branch", "invoke"} /\ pc \in PastTicket
        /\ lock' \in {lock, "live"}
        /\ UNCHANGED <<marker, files, delivered, review, reworks, isDryRun, mode, queue,
                       skipped, results, halted, ctx, told>>
    BY <1>4 DEF Batch!feasibility, Batch!branchSetup, Batch!Goto, Batch!plans, Batch!tickets,
                Batch!batch, Batch!outcome, PastTicket
  <2> QED
    BY <1>1, <1>2, <2>1, WithinKeeps DEF PastTicket
<1>5. CASE Batch!PhaseFails
  <2>1. /\ pc \in {"feasibility", "branch", "invoke", "deliver"} /\ pc \in PastTicket
        /\ lock' \in {lock, "none"}
        /\ UNCHANGED <<marker, files, reworks, isDryRun, mode, queue, skipped, told>>
    BY <1>5 DEF Batch!PhaseFails, Batch!plans, Batch!batch, PastTicket
  <2>2. /\ delivered' \subseteq Batch!Key /\ review' \subseteq delivered'
        /\ \A k \in delivered : k \in delivered' \/ k \in {Batch!plan} \union Other
    BY <1>1, <1>5, <2>1 DEF Batch!PhaseFails, Batch!Dropped
  <2>3. PICK result \in {"aborted", "error"} : Batch!Return(result)
    BY <1>5 DEF Batch!PhaseFails
  <2> QED
    BY <1>1, <1>2, <2>1, <2>2, <2>3, ReturnKeeps
<1> QED
  BY <1>3, <1>4, <1>5

LEMMA BatchDelivers ==
  ASSUME BatchInv, Batch!deliver
  PROVE  BatchInv'
<1>1. /\ delivered \subseteq Batch!Key /\ review \subseteq delivered
      /\ reworks \in [Batch!Key -> Nat]
  BY DEF BatchInv, Batch!TypeOK
<1>2. /\ pc = "deliver" /\ Batch!Return("completed") /\ lock' = "none"
      /\ delivered' = delivered \union {ctx.ticket} /\ review' \subseteq review
      /\ UNCHANGED <<marker, files, isDryRun, mode, queue, skipped, told>>
  BY DEF Batch!deliver, Batch!plans, Batch!batch
<1>3. ctx.ticket \in Batch!Key
  BY <1>2, Turn, Plans DEF BatchInv, Sessions, PastTicket
<1>4. reworks' \in [Batch!Key -> Nat]
  BY <1>1, <1>3 DEF Batch!deliver
<1>5. /\ "completed" \in Batch!Result /\ "completed" \in InSession /\ "none" \in Batch!Lock
      /\ delivered' \subseteq Batch!Key /\ review' \subseteq delivered'
  BY <1>1, <1>2, <1>3 DEF Batch!Result, InSession, Batch!Lock
<1> QED
  BY <1>1, <1>2, <1>3, <1>4, <1>5, ReturnKeeps

(* The end of a batch, and what others do.                                 *)
LEMMA AroundKeeps ==
  ASSUME BatchInv,
         \/ Batch!reportOutcome \/ Batch!displayResult \/ Batch!Crash
         \/ \E k \in Batch!Key : Batch!Review(k)
         \/ \E p \in Batch!Plan : Batch!Approve(p) \/ Batch!BreakPlan(p)
         \/ Batch!OtherSession
  PROVE  BatchInv'
<1>1. /\ ctx \in [ticket : Batch!Key \union {Batch!Nobody},
                  rework : Batch!Key \union {Batch!Nobody}, token : BOOLEAN]
      /\ marker \subseteq Batch!Plan /\ files \in [Batch!Plan -> Batch!Key \union {Batch!NoKey}]
      /\ \A p \in Batch!Plan : files[p] \in {p, Batch!NoKey} \union Other
      /\ delivered \subseteq Batch!Key /\ review \subseteq delivered
      /\ lock \in Batch!Lock /\ {"none", "live", "dead"} \subseteq Batch!Lock
      /\ pc \in PastTicket => ctx.ticket \in {Batch!plan} \union Other
      /\ isDryRun => pc \notin PastTicket \ {"dryRun"}
  BY DEF BatchInv, Sessions, Batch!TypeOK, Batch!Lock
<1>2. CASE Batch!reportOutcome \/ Batch!displayResult \/ Batch!Crash
  <2>1. Batch!Exit /\ lock' \in {lock, "dead"}
    BY <1>2 DEF Batch!reportOutcome, Batch!displayResult, Batch!Reported, Batch!Crash
  <2> QED
    BY <1>1, <2>1, ExitKeeps
<1>3. ASSUME NEW k \in Batch!Key, Batch!Review(k) PROVE BatchInv'
  <2>1. /\ pc = "rework" /\ review' \subseteq delivered
        /\ UNCHANGED <<marker, files, delivered, reworks, lock, isDryRun, mode, queue, skipped,
                       results, halted, pc, ctx, told>>
    BY <1>1, <1>3 DEF Batch!Review, Batch!plans, Batch!batch, Batch!outcome
  <2> QED
    BY <1>1, <2>1, WithinKeeps
<1>4. ASSUME NEW p \in Batch!Plan, Batch!Approve(p) \/ Batch!BreakPlan(p) PROVE BatchInv'
  <2>1. /\ pc \in {"idle", "ticket"} /\ marker' \subseteq Batch!Plan
        /\ UNCHANGED <<delivered, review, reworks, lock, isDryRun, mode, queue, skipped,
                       results, halted, pc, ctx, told>>
    BY <1>1, <1>4 DEF Batch!Approve, Batch!BreakPlan, Batch!tickets, Batch!batch, Batch!outcome
  <2>2. \/ files' = files
        \/ files' = [files EXCEPT ![p] = p]
        \/ files' = [files EXCEPT ![p] = Batch!NoKey]
    BY <1>4 DEF Batch!Approve, Batch!BreakPlan
  <2>3. /\ files' \in [Batch!Plan -> Batch!Key \union {Batch!NoKey}]
        /\ \A q \in Batch!Plan : files'[q] \in {q, Batch!NoKey} \union Other
    BY <1>1, <2>2, Plans
  <2> QED
    BY <1>1, <2>1, <2>3, WithinKeeps
<1>5. CASE Batch!OtherSession
  <2>1. /\ pc = "next" /\ lock' \in Batch!Lock
        /\ UNCHANGED <<marker, files, delivered, review, reworks, isDryRun, mode, queue, skipped,
                       results, halted, pc, ctx, told>>
    BY <1>1, <1>5 DEF Batch!OtherSession, Batch!plans, Batch!tickets, Batch!batch, Batch!outcome
  <2> QED
    BY <1>1, <2>1, WithinKeeps
<1> QED
  BY <1>2, <1>3, <1>4, <1>5

LEMMA BatchKeeps == BatchInv /\ [Batch!Next]_(Batch!vars) => BatchInv'
<1> SUFFICES ASSUME BatchInv, [Batch!Next]_(Batch!vars) PROVE BatchInv'
  OBVIOUS
<1>1. CASE UNCHANGED Batch!vars
  BY <1>1
  DEF BatchInv, Batch!TypeOK, Turns, Halts, Sessions, Delivered, Batch!Asked, Batch!plan,
      Batch!vars
<1>2. ASSUME NEW isDirectory \in BOOLEAN, NEW isAfk \in BOOLEAN,
             Batch!main(isDirectory, isAfk)
      PROVE  BatchInv'
  BY <1>2, MainKeeps
<1>3. CASE \/ Batch!lockCheck \/ Batch!runLocalPreflight \/ Batch!preflightFails
           \/ Batch!reworkDetection
  BY <1>3, BeforeTicket
<1>4. CASE Batch!dryRun \/ Batch!feasibility \/ Batch!branchSetup \/ Batch!PhaseFails
  BY <1>4, AfterTicket
<1>5. CASE Batch!runTicketFetch \/ Batch!invoke \/ Batch!deliver
  BY <1>5, TicketKeeps, InvokeKeeps, BatchDelivers
<1>6. CASE \/ Batch!reportOutcome \/ Batch!displayResult \/ Batch!Crash
           \/ \E k \in Batch!Key : Batch!Review(k)
           \/ \E p \in Batch!Plan : Batch!Approve(p) \/ Batch!BreakPlan(p)
           \/ Batch!OtherSession
  BY <1>6, AroundKeeps
<1> QED
  BY <1>1, <1>2, <1>3, <1>4, <1>5, <1>6 DEF Batch!Next

(* The plans with one of some results are as many as those results.        *)
LEMMA TurnsCount ==
  ASSUME BatchInv, NEW n \in Nat, n <= Len(results), NEW Done,
         Done = {queue[i] : i \in 1..n}
  PROVE  Cardinality(Done) = n
<1>1. /\ queue \in Seq(Batch!Plan) /\ Len(results) \in Nat /\ Len(queue) \in Nat
      /\ Len(results) <= Len(queue)
      /\ \A i, j \in 1..Len(queue) : queue[i] = queue[j] => i = j
  BY DEF BatchInv, Batch!TypeOK, Turns
<1>2. \A i \in 1..n : i \in 1..Len(queue)
  BY <1>1
<1> DEFINE place == [i \in 1..n |-> queue[i]]
<1>3. place \in Bijection(1..n, Done)
  BY <1>1, <1>2 DEF Bijection, Injection, IsInjective, Surjection
<1>4. ExistsBijection(1..n, Done)
  BY <1>3 DEF ExistsBijection
<1>5. IsFiniteSet(1..n) /\ Cardinality(1..n) = n
  BY FS_Interval
<1> QED
  BY <1>4, <1>5, FS_Bijection

(* All turns but the last, if that one stopped the batch.                  *)
LEMMA ButTheLast ==
  ASSUME NEW N \in Nat, NEW cut \in {0, 1}, cut = 1 => N # 0
  PROVE  /\ N - cut \in Nat /\ N - cut <= N
         /\ \A i \in 1..(N - cut) : i \in 1..N
         /\ \A i \in 1..N : i \in 1..(N - cut) <=> ~(cut = 1 /\ i = N)
OBVIOUS

LEMMA BatchAlways == Spec => [](tool = "batch" => BatchInv)
<1> DEFINE Inv == tool = "batch" => BatchInv
<1>1. Init => Inv
  BY BatchBegins DEF Init
<1>2. Inv /\ [Next]_vars => Inv'
  <2> SUFFICES ASSUME Inv, [Next]_vars, tool' = "batch" PROVE BatchInv'
    OBVIOUS
  <2>1. tool = "batch" /\ BatchInv
    BY DEF Next, vars
  <2>2. [Batch!Next]_(Batch!vars)
    BY <2>1 DEF Next, vars, ofBatch, Batch!vars
  <2> QED
    BY <2>1, <2>2, BatchKeeps
<1> QED
  BY <1>1, <1>2, PTL DEF Spec

(* What the batch shows at the end is true (runImplementBatch).            *)
THEOREM BatchSummaryAlways == Spec => []BatchSummaryHolds
<1>1. (tool = "batch" => BatchInv) => BatchSummaryHolds
  <2> SUFFICES ASSUME BatchInv, tool = "batch", pc = "report" PROVE Batch!BatchSummaryHolds
    BY DEF BatchSummaryHolds, Batch!BatchSummaryHolds
  <2> DEFINE N == Len(results)
             Fine == Batch!Had("completed") \union Batch!Had("resumed") \union Batch!Had("dry-run")
  <2>1. /\ queue \in Seq(Batch!Plan) /\ results \in Seq(Batch!Result)
        /\ N \in Nat /\ Len(queue) \in Nat /\ N <= Len(queue)
        /\ DOMAIN results = 1..N /\ DOMAIN queue = 1..Len(queue)
        /\ halted \in BOOLEAN /\ (halted => N # 0)
        /\ \A i \in 1..N : i \in 1..Len(queue)
    BY DEF BatchInv, Batch!TypeOK, Halts
  <2>2. \A result : Batch!Had(result) = {queue[i] : i \in {j \in 1..N : results[j] = result}}
    BY <2>1 DEF Batch!Had
  <2>3. PICK cut \in {0, 1} : /\ halted => cut = 1
                              /\ ~halted => cut = 0
                              /\ Batch!processed = N - cut
                              /\ \A k : k - (IF halted THEN 1 ELSE 0) = k - cut
    <3>1. CASE halted
      BY <3>1 DEF Batch!processed
    <3>2. CASE ~halted
      BY <3>2 DEF Batch!processed
    <3> QED
      BY <3>1, <3>2
  <2>4. PICK done \in Nat :
          /\ done = N - cut /\ done <= N
          /\ \A i \in 1..done : i \in 1..N
          /\ \A i \in 1..N : results[i] \in {"completed", "resumed", "dry-run"} <=> i \in 1..done
    <3>1. /\ N - cut \in Nat /\ N - cut <= N
          /\ \A i \in 1..(N - cut) : i \in 1..N
          /\ \A i \in 1..N : i \in 1..(N - cut) <=> ~(cut = 1 /\ i = N)
      <4>1. cut = 1 => halted
        BY <2>3
      <4>2. N \in Nat /\ (cut = 1 => N # 0)
        BY <2>1, <4>1
      <4> HIDE DEF N
      <4> QED
        BY <4>2, ButTheLast
    <3>2. \A i \in 1..N :
            results[i] \in {"completed", "resumed", "dry-run"} <=> ~(cut = 1 /\ i = N)
      <4>1. \A i \in 1..N :
              results[i] \in {"completed", "resumed", "dry-run"} <=> ~(halted /\ i = N)
        BY DEF BatchInv, Halts, Batch!batchHalt
      <4>2. cut = 1 => halted
        BY <2>3
      <4>3. halted => cut = 1
        BY <2>3
      <4> QED
        BY <4>1, <4>2, <4>3, Zenon
    <3> QED
      BY <3>1, <3>2
  <2>5. Fine = {queue[i] : i \in 1..done}
    <3>1. Fine = {queue[i] : i \in {j \in 1..N : results[j] \in {"completed", "resumed", "dry-run"}}}
      BY <2>2
    <3>2. {j \in 1..N : results[j] \in {"completed", "resumed", "dry-run"}} = 1..done
      BY <2>4
    <3> QED
      BY <3>1, <3>2
  <2>6. Batch!processed = Batch!Cardinality(Fine)
    <3> HIDE DEF Fine
    <3>1. Cardinality(Fine) = done
      BY <2>4, <2>5, TurnsCount
    <3> QED
      BY <2>3, <2>4, <3>1, CountingPlans
  <2>7. Batch!processed + Batch!remaining + Batch!Cardinality(skipped)
          = Batch!Asked - IF halted THEN 1 ELSE 0
    <3>1. Len(queue) + Cardinality(skipped) = Batch!Asked
      BY DEF BatchInv, Turns
    <3>2. Batch!Cardinality(skipped) = Cardinality(skipped) /\ Cardinality(skipped) \in Nat
      BY CountingPlans, Plans, FS_Subset, FS_CardinalityType DEF BatchInv, Batch!TypeOK
    <3>3. Batch!processed + Batch!remaining + Batch!Cardinality(skipped) = Batch!Asked - cut
      BY <2>1, <2>3, <3>1, <3>2 DEF Batch!remaining
    <3> QED
      BY <2>3, <3>3
  <2>8. \A i \in 1..Len(queue), s \in told : s[1] = queue[i] => i \in 1..N /\ results[i] \in InSession
    <3> SUFFICES ASSUME NEW i \in 1..Len(queue), NEW s \in told, s[1] = queue[i]
                 PROVE  i \in 1..N /\ results[i] \in InSession
      OBVIOUS
    <3>1. PICK j \in 1..N : s[1] = queue[j] /\ results[j] \in InSession
      BY DEF BatchInv, Sessions
    <3>2. j = i
      BY <2>1, <3>1 DEF BatchInv, Turns
    <3> QED
      BY <3>1, <3>2
  <2>9. \A s \in told : \E i \in 1..N : s[1] = queue[i]
    BY DEF BatchInv, Sessions
  <2>10. ASSUME NEW i \in 1..N, results[i] = "completed"
         PROVE  /\ queue[i] \in Batch!Worked
                /\ \A s \in told : s[1] = queue[i] =>
                     s[2] \in delivered \/ (halted /\ s[2] \in Other)
    BY <2>10 DEF BatchInv, Delivered, Batch!Worked
  <2>11. Batch!Had("completed") \subseteq Batch!Worked
    BY <2>2, <2>10
  <2>12. \A s \in told : s[1] \in Batch!Had("completed") =>
           s[2] \in delivered \/ (halted /\ s[2] \in Other)
    BY <2>2, <2>10
  <2>13. Batch!Worked \intersect (Batch!Had("resumed") \union Batch!Had("dry-run")) = {}
    BY <2>1, <2>2, <2>8 DEF Batch!Worked, InSession
  <2>14. Batch!Worked \intersect skipped = {}
    BY <2>1, <2>9 DEF Batch!Worked, BatchInv, Turns
  <2>15. \A i \in DOMAIN queue : i > Len(results) => queue[i] \notin Batch!Worked
    BY <2>1, <2>8 DEF Batch!Worked
  <2>16. isDryRun => Batch!Worked = {}
    BY DEF BatchInv, Sessions, Batch!Worked
  <2> QED
    BY <2>6, <2>7, <2>11, <2>12, <2>13, <2>14, <2>15, <2>16 DEF Batch!BatchSummaryHolds
<1> QED
  BY <1>1, BatchAlways, PTL

-----------------------------------------------------------------------------
(* Picking on the design canvas *)

LEMMA CountingPicks == \A S : Pick!Cardinality(S) = Cardinality(S)
BY DEF Pick!Cardinality, Cardinality

(* A message carries the selector of the element that was clicked, and so  *)
(* does the anchor it becomes.                                             *)
Selects(p) == p.clicked \in Pick!Target /\ p.anchor = Pick!computeStableSelector(p.clicked)

PickInv ==
  /\ Pick!TypeOK
  /\ \A p \in posts : Selects(p)
  /\ active # Pick!NoPost => Selects(active)

(* Elements with a name, and those before one of them, counted.            *)
LEMMA Siblings ==
  ASSUME NEW names \in Pick!Names
  PROVE  \E n \in Nat : n <= MaxSiblings /\ names \in [1..n -> Tag] /\ DOMAIN names = 1..n
BY ToolBounds DEF Pick!PickBounds, Pick!Names

LEMMA PlaceIsBounded ==
  ASSUME NEW names \in Pick!Names, NEW S \in SUBSET (DOMAIN names)
  PROVE  Pick!Cardinality(S) \in 0..MaxSiblings
<1>1. PICK n \in Nat : n <= MaxSiblings /\ DOMAIN names = 1..n
  BY Siblings
<1>2. IsFiniteSet(1..n) /\ Cardinality(1..n) = n
  BY FS_Interval
<1>3. Cardinality(S) <= n /\ Cardinality(S) \in Nat
  BY <1>1, <1>2, FS_Subset, FS_CardinalityType
<1>4. MaxSiblings \in Nat
  BY ToolBounds DEF Pick!PickBounds
<1> QED
  BY <1>1, <1>3, <1>4, CountingPicks

LEMMA SegmentIsOne ==
  ASSUME NEW names \in Pick!Names, NEW k \in DOMAIN names
  PROVE  Pick!collectSelectorSegments(names, k) \in Pick!Segment
<1>1. names[k] \in Tag
  BY Siblings
<1>2. Pick!Cardinality({j \in Pick!Same(names, k) : j <= k}) \in 0..MaxSiblings
  BY PlaceIsBounded DEF Pick!Same
<1>3. 0 \in 0..MaxSiblings
  BY ToolBounds DEF Pick!PickBounds
<1> QED
  BY <1>1, <1>2, <1>3 DEF Pick!collectSelectorSegments, Pick!Segment

(* The number that is written is the one :nth-child takes, where those     *)
(* before have the same name; where none other has it, it is not needed.   *)
LEMMA FoundIsTheOne ==
  ASSUME NEW names \in Pick!Names, NEW k \in DOMAIN names, Pick!PlacesAgree(names, k)
  PROVE  Pick!Found(names, Pick!collectSelectorSegments(names, k)) = {k}
<1>1. PICK n \in Nat : DOMAIN names = 1..n /\ k \in 1..n
  BY Siblings
<1>2. k \in Pick!Same(names, k) /\ Pick!Same(names, k) \subseteq 1..n
  BY <1>1 DEF Pick!Same
<1>3. CASE Pick!Cardinality(Pick!Same(names, k)) = 1
  <2>1. IsFiniteSet(Pick!Same(names, k)) /\ Cardinality(Pick!Same(names, k)) = 1
    BY <1>2, <1>3, CountingPicks, FS_Interval, FS_Subset
  <2>2. PICK only : Pick!Same(names, k) = {only}
    BY <2>1, FS_Singleton
  <2>3. \A j \in DOMAIN names : names[j] = names[k] => j = k
    BY <1>2, <2>2 DEF Pick!Same
  <2>4. Pick!collectSelectorSegments(names, k) = <<names[k], 0>>
    BY <1>3 DEF Pick!collectSelectorSegments
  <2> QED
    BY <1>1, <2>3, <2>4 DEF Pick!Found
<1>4. CASE Pick!Cardinality(Pick!Same(names, k)) # 1
  <2>1. \A j \in 1..k : names[j] = names[k]
    BY <1>4 DEF Pick!PlacesAgree
  <2>2. {j \in Pick!Same(names, k) : j <= k} = 1..k
    BY <1>1, <2>1 DEF Pick!Same
  <2>3. Pick!Cardinality(1..k) = k
    BY <1>1, CountingPicks, FS_Interval
  <2>4. Pick!collectSelectorSegments(names, k) = <<names[k], k>>
    BY <1>4, <2>2, <2>3 DEF Pick!collectSelectorSegments
  <2> QED
    BY <1>1, <2>4 DEF Pick!Found
<1> QED
  BY <1>3, <1>4

LEMMA Elements ==
  ASSUME Pick!TypeOK, NEW e \in Pick!Target
  PROVE  /\ e \in Pick!Element /\ e[1] \in Nat /\ e[2] \in Nat /\ e = <<e[1], e[2]>>
         /\ tags \in Pick!Names /\ e[1] \in DOMAIN tags
         /\ inner[e[1]] \in Pick!Names
         /\ e[2] = 0 \/ (e[2] # 0 /\ e[2] \in DOMAIN inner[e[1]])
BY DEF Pick!TypeOK, Pick!Target, Pick!Element

LEMMA SelectorsAreAnchors ==
  ASSUME Pick!TypeOK, NEW e \in Pick!Target
  PROVE  Pick!computeStableSelector(e) \in Pick!Anchor
<1>1. CASE e \in slots
  BY <1>1, Elements DEF Pick!computeStableSelector, Pick!Anchor
<1>2. CASE e \notin slots
  <2>1. Pick!buildNthChildPath(e) \in Pick!Path
    <3>1. PICK top \in Pick!Segment : top = Pick!collectSelectorSegments(tags, e[1])
      BY Elements, SegmentIsOne
    <3>2. CASE e[2] = 0
      BY <3>1, <3>2 DEF Pick!buildNthChildPath, Pick!Path
    <3>3. CASE e[2] # 0
      <4>1. PICK names \in Pick!Names : names = inner[e[1]]
        BY Elements
      <4>2. PICK k \in DOMAIN names : k = e[2]
        BY <3>3, <4>1, Elements
      <4>3. PICK next \in Pick!Segment : next = Pick!collectSelectorSegments(names, k)
        BY SegmentIsOne
      <4> QED
        BY <3>1, <3>3, <4>1, <4>2, <4>3 DEF Pick!buildNthChildPath, Pick!Path
    <3> QED
      BY <3>2, <3>3
  <2> QED
    BY <1>2, <2>1 DEF Pick!computeStableSelector, Pick!Anchor
<1> QED
  BY <1>1, <1>2

LEMMA PickBegins == Pick!Init => PickInv
<1> SUFFICES ASSUME Pick!Init PROVE PickInv
  OBVIOUS
<1>1. PICK p \in Pages : tags = p[1] /\ inner = p[2]
  BY DEF Pick!Init
<1>2. tags \in Pick!Names /\ inner \in [DOMAIN tags -> Pick!Names]
  BY <1>1, ToolBounds DEF Pick!PickBounds
<1>3. slots \subseteq Pick!Target
  BY DEF Pick!Init
<1> QED
  BY <1>2, <1>3 DEF Pick!Init, PickInv, Pick!TypeOK

(* The page stays as it is while it is commented on.                       *)
LEMMA PickKeeps == PickInv /\ [Pick!Next]_(Pick!vars) => PickInv'
<1> SUFFICES ASSUME PickInv, [Pick!Next]_(Pick!vars) PROVE PickInv'
  OBVIOUS
<1>1. UNCHANGED <<tags, inner, slots>>
  BY DEF Pick!Next, Pick!Render, Pick!useElementPickedReceiver, Pick!SetPickMode,
         Pick!onMessage, Pick!onClick, Pick!handlePickedMessage, Pick!vars, Pick!page
<1>2. /\ Pick!Target' = Pick!Target
      /\ \A e : Pick!computeStableSelector(e)' = Pick!computeStableSelector(e)
  BY <1>1 DEF Pick!Target, Pick!computeStableSelector, Pick!buildNthChildPath
<1>3. \A p : Selects(p)' = Selects(p)
  BY <1>2 DEF Selects
<1>4. /\ frames' \subseteq VariantId /\ handled' \subseteq VariantId
      /\ picking' \subseteq VariantId /\ modes' \subseteq VariantId \X BOOLEAN
  BY DEF PickInv, Pick!TypeOK, Pick!Next, Pick!Render, Pick!useElementPickedReceiver,
         Pick!SetPickMode, Pick!onMessage, Pick!onClick, Pick!handlePickedMessage, Pick!vars
<1>5. /\ posts' \subseteq Pick!Post
      /\ \A p \in posts' : Selects(p)
  <2>1. ASSUME NEW v \in VariantId, NEW e \in Pick!Target, Pick!onClick(v, e)
        PROVE  posts' \subseteq Pick!Post /\ \A p \in posts' : Selects(p)
    <3>1. PICK anchor \in Pick!Anchor : anchor = Pick!computeStableSelector(e)
      BY SelectorsAreAnchors DEF PickInv
    <3>2. PICK new : new = [variant |-> v, anchor |-> anchor, clicked |-> e]
      OBVIOUS
    <3>3. new \in Pick!Post /\ Selects(new)
      BY <3>1, <3>2, Elements DEF PickInv, Pick!Post, Selects
    <3>4. posts' = posts \union {new}
      BY <2>1, <3>1, <3>2 DEF Pick!onClick
    <3> QED
      BY <3>3, <3>4 DEF PickInv, Pick!TypeOK
  <2>2. CASE posts' \subseteq posts
    BY <2>2 DEF PickInv, Pick!TypeOK
  <2> QED
    BY <2>1, <2>2 DEF Pick!Next, Pick!Render, Pick!useElementPickedReceiver, Pick!SetPickMode,
                      Pick!onMessage, Pick!handlePickedMessage, Pick!vars
<1>6. /\ active' = Pick!NoPost \/ active' \in Pick!Post
      /\ active' # Pick!NoPost => Selects(active')
  <2>1. active' = active \/ active' \in posts
    BY DEF Pick!Next, Pick!Render, Pick!useElementPickedReceiver, Pick!SetPickMode,
           Pick!onMessage, Pick!onClick, Pick!handlePickedMessage, Pick!vars
  <2> QED
    BY <2>1 DEF PickInv, Pick!TypeOK
<1>7. tags \in Pick!Names /\ inner \in [DOMAIN tags -> Pick!Names] /\ slots \subseteq Pick!Target
  BY DEF PickInv, Pick!TypeOK
<1>8. Pick!TypeOK'
  BY <1>1, <1>2, <1>4, <1>5, <1>6, <1>7 DEF Pick!TypeOK
<1>9. /\ \A p \in posts' : Selects(p)'
      /\ active' # Pick!NoPost => Selects(active)'
  BY <1>2, <1>5, <1>6 DEF Selects
<1> QED
  BY <1>8, <1>9 DEF PickInv

(* The element that is picked is the only one its selector matches.        *)
LEMMA MatchesTheOne ==
  ASSUME Pick!TypeOK, NEW e \in Pick!Target,
         \/ e \in slots
         \/ /\ Pick!PlacesAgree(tags, e[1])
            /\ e[2] = 0 \/ Pick!PlacesAgree(inner[e[1]], e[2])
  PROVE  Pick!Matches(Pick!computeStableSelector(e)) = {e}
<1>1. CASE e \in slots
  BY <1>1 DEF Pick!Matches, Pick!computeStableSelector
<1>2. CASE /\ e \notin slots /\ Pick!PlacesAgree(tags, e[1])
           /\ e[2] = 0 \/ Pick!PlacesAgree(inner[e[1]], e[2])
  <2>1. PICK top \in Pick!Segment : /\ top = Pick!collectSelectorSegments(tags, e[1])
                                    /\ Pick!Found(tags, top) = {e[1]}
    BY <1>2, Elements, SegmentIsOne, FoundIsTheOne
  <2>2. PICK anchor : anchor = Pick!computeStableSelector(e)
    OBVIOUS
  <2>3. CASE e[2] = 0
    <3>1. anchor = <<"path", <<top>>>>
      BY <1>2, <2>1, <2>2, <2>3 DEF Pick!computeStableSelector, Pick!buildNthChildPath
    <3>2. anchor[1] = "path" /\ anchor[2] = <<top>> /\ Len(anchor[2]) = 1 /\ anchor[2][1] = top
      BY <3>1
    <3>3. Pick!Matches(anchor) = {f \in Pick!Target : f[1] \in Pick!Found(tags, top) /\ f[2] = 0}
      BY <3>2 DEF Pick!Matches
    <3> QED
      BY <2>1, <2>2, <2>3, <3>3, Elements
  <2>4. CASE e[2] # 0
    <3>1. PICK names \in Pick!Names : names = inner[e[1]]
      BY Elements
    <3>2. PICK k \in DOMAIN names : k = e[2]
      BY <2>4, <3>1, Elements
    <3>3. PICK next \in Pick!Segment : /\ next = Pick!collectSelectorSegments(names, k)
                                       /\ Pick!Found(names, next) = {k}
      BY <1>2, <2>4, <3>1, <3>2, SegmentIsOne, FoundIsTheOne
    <3>4. anchor = <<"path", <<top, next>>>>
      BY <1>2, <2>1, <2>2, <2>4, <3>1, <3>2, <3>3
      DEF Pick!computeStableSelector, Pick!buildNthChildPath
    <3>5. /\ anchor[1] = "path" /\ anchor[2] = <<top, next>> /\ Len(anchor[2]) = 2
          /\ anchor[2][1] = top /\ anchor[2][2] = next
      BY <3>4
    <3>6. Pick!Matches(anchor) = {f \in Pick!Target :
            /\ f[1] \in Pick!Found(tags, top)
            /\ f[2] # 0 /\ f[2] \in Pick!Found(inner[f[1]], next)}
      BY <3>5 DEF Pick!Matches
    <3>7. \A f \in Pick!Target : f[1] = e[1] /\ f[2] = e[2] => f = e
      BY Elements
    <3>8. Pick!Found(inner[e[1]], next) = {e[2]}
      BY <3>1, <3>2, <3>3
    <3> QED
      BY <2>1, <2>2, <2>4, <3>6, <3>7, <3>8
  <2> QED
    BY <2>3, <2>4
<1> QED
  BY <1>1, <1>2

(* Where the places do not agree, the number that is written is a smaller  *)
(* one, and :nth-child takes the element there if it has the name.         *)
LEMMA FoundIsEarlier ==
  ASSUME NEW names \in Pick!Names, NEW k \in DOMAIN names, ~Pick!PlacesAgree(names, k),
         NEW j \in Pick!Found(names, Pick!collectSelectorSegments(names, k))
  PROVE  j \in Nat /\ j < k /\ names[j] = names[k]
<1> DEFINE upTo == {i \in Pick!Same(names, k) : i <= k}
<1>1. PICK n \in Nat : DOMAIN names = 1..n /\ k \in 1..n
  BY Siblings
<1>2. k \in upTo /\ upTo \subseteq 1..k
  BY <1>1 DEF Pick!Same
<1>3. IsFiniteSet(1..k) /\ Cardinality(1..k) = k
  BY <1>1, FS_Interval
<1>4. IsFiniteSet(upTo) /\ Cardinality(upTo) \in Nat /\ Cardinality(upTo) <= k
  BY <1>2, <1>3, FS_Subset, FS_CardinalityType
<1>5. Cardinality(upTo) # k
  <2>1. upTo # 1..k
    BY <1>1 DEF Pick!PlacesAgree, Pick!Same
  <2> QED
    BY <1>2, <1>3, <2>1, FS_Subset
<1>6. Cardinality(upTo) # 0
  BY <1>2, <1>4, FS_EmptySet
<1>7. PICK place : place = Cardinality(upTo)
  OBVIOUS
<1>8. Pick!collectSelectorSegments(names, k) = <<names[k], place>>
  BY <1>7, CountingPicks DEF Pick!collectSelectorSegments, Pick!PlacesAgree
<1>9. place \in Nat /\ place < k /\ place # 0
  BY <1>1, <1>4, <1>5, <1>6, <1>7
<1> QED
  BY <1>1, <1>8, <1>9 DEF Pick!Found

(* Whatever is found has the name that is looked for. *)
LEMMA FoundHasName ==
  ASSUME NEW names, NEW k, NEW other,
         NEW j \in Pick!Found(other, Pick!collectSelectorSegments(names, k))
  PROVE  j \in DOMAIN other /\ other[j] = names[k]
BY DEF Pick!Found, Pick!collectSelectorSegments

(* Another element that the selector matches is an earlier one like it.    *)
LEMMA MatchesEarlier ==
  ASSUME Pick!TypeOK, NEW e \in Pick!Target, e \notin slots,
         ~ /\ Pick!PlacesAgree(tags, e[1])
           /\ e[2] = 0 \/ Pick!PlacesAgree(inner[e[1]], e[2]),
         NEW f \in Pick!Matches(Pick!computeStableSelector(e))
  PROVE  Pick!Earlier(f, e) /\ Pick!Alike(f, e)
<1>1. PICK top : top = Pick!collectSelectorSegments(tags, e[1])
  OBVIOUS
<1>2. \A j \in Pick!Found(tags, top) :
        /\ tags[j] = tags[e[1]]
        /\ ~Pick!PlacesAgree(tags, e[1]) => j < e[1]
        /\ Pick!PlacesAgree(tags, e[1]) => j = e[1]
  BY <1>1, Elements, FoundHasName, FoundIsEarlier, FoundIsTheOne
<1>3. PICK anchor : anchor = Pick!computeStableSelector(e)
  OBVIOUS
<1>4. CASE e[2] = 0
  <2>1. anchor = <<"path", <<top>>>>
    BY <1>1, <1>3, <1>4 DEF Pick!computeStableSelector, Pick!buildNthChildPath
  <2>2. anchor[1] = "path" /\ anchor[2] = <<top>> /\ Len(anchor[2]) = 1 /\ anchor[2][1] = top
    BY <2>1
  <2>3. f[1] \in Pick!Found(tags, top) /\ f[2] = 0
    BY <1>3, <2>2 DEF Pick!Matches
  <2> QED
    BY <1>2, <1>4, <2>3 DEF Pick!Earlier, Pick!Alike
<1>5. CASE e[2] # 0
  <2>1. PICK names \in Pick!Names : names = inner[e[1]]
    BY Elements
  <2>2. PICK k \in DOMAIN names : k = e[2]
    BY <1>5, <2>1, Elements
  <2>3. PICK next : next = Pick!collectSelectorSegments(names, k)
    OBVIOUS
  <2>4. anchor = <<"path", <<top, next>>>>
    BY <1>1, <1>3, <1>5, <2>1, <2>2, <2>3
    DEF Pick!computeStableSelector, Pick!buildNthChildPath
  <2>5. /\ anchor[1] = "path" /\ anchor[2] = <<top, next>> /\ Len(anchor[2]) = 2
        /\ anchor[2][1] = top /\ anchor[2][2] = next
    BY <2>4
  <2>6. /\ f[1] \in Pick!Found(tags, top)
        /\ f[2] # 0 /\ f[2] \in Pick!Found(inner[f[1]], next)
    BY <1>3, <2>5 DEF Pick!Matches
  <2>7. inner[f[1]][f[2]] = names[k]
    <3>1. PICK other : other = inner[f[1]]
      OBVIOUS
    <3> QED
      BY <2>3, <2>6, <3>1, FoundHasName
  <2>8. Pick!Alike(f, e)
    BY <1>2, <1>5, <2>1, <2>2, <2>6, <2>7 DEF Pick!Alike
  <2>9. CASE ~Pick!PlacesAgree(tags, e[1])
    BY <1>2, <2>6, <2>8, <2>9 DEF Pick!Earlier
  <2>10. CASE Pick!PlacesAgree(tags, e[1])
    <3>1. f[1] = e[1] /\ ~Pick!PlacesAgree(names, k)
      BY <1>2, <1>5, <2>1, <2>2, <2>6, <2>10
    <3>2. f[2] \in Pick!Found(names, next)
      BY <2>1, <2>6, <3>1
    <3>3. f[2] < k
      BY <2>3, <3>1, <3>2, FoundIsEarlier
    <3> QED
      BY <2>2, <2>8, <3>1, <3>3 DEF Pick!Earlier
  <2> QED
    BY <2>9, <2>10
<1> QED
  BY <1>4, <1>5

LEMMA PickAlways == Spec => [](tool = "pick" => PickInv)
<1> DEFINE Inv == tool = "pick" => PickInv
<1>1. Init => Inv
  BY PickBegins DEF Init
<1>2. Inv /\ [Next]_vars => Inv'
  <2> SUFFICES ASSUME Inv, [Next]_vars, tool' = "pick" PROVE PickInv'
    OBVIOUS
  <2>1. tool = "pick" /\ PickInv
    BY DEF Next, vars
  <2>2. [Pick!Next]_(Pick!vars)
    BY <2>1 DEF Next, vars, ofDesign, ofPick, Pick!vars, Pick!page
  <2> QED
    BY <2>1, <2>2, PickKeeps
<1> QED
  BY <1>1, <1>2, PTL DEF Spec

(* The anchor of a comment finds the element that was picked and no other, *)
(* or misses it for an earlier one of the same name or none (overlay).     *)
THEOREM PickAlwaysResolves == Spec => []PickResolves
<1>1. (tool = "pick" => PickInv) => PickResolves
  <2> SUFFICES ASSUME PickInv, tool = "pick", active # Pick!NoPost
               PROVE  Pick!PickResolves
    BY DEF PickResolves, Pick!PickResolves
  <2>1. PICK e \in Pick!Target :
          e = active.clicked /\ active.anchor = Pick!computeStableSelector(e)
    BY DEF PickInv, Selects
  <2>2. CASE \/ e \in slots
             \/ /\ Pick!PlacesAgree(tags, e[1])
                /\ e[2] = 0 \/ Pick!PlacesAgree(inner[e[1]], e[2])
    <3>1. Pick!Matches(Pick!computeStableSelector(e)) = {e}
      BY <2>2, MatchesTheOne DEF PickInv
    <3> QED
      BY <2>1, <2>2, <3>1 DEF Pick!PickResolves
  <2>3. CASE ~ \/ e \in slots
               \/ /\ Pick!PlacesAgree(tags, e[1])
                  /\ e[2] = 0 \/ Pick!PlacesAgree(inner[e[1]], e[2])
    <3>1. \A f \in Pick!Matches(Pick!computeStableSelector(e)) :
            Pick!Earlier(f, e) /\ Pick!Alike(f, e)
      BY <2>3, MatchesEarlier DEF PickInv
    <3> QED
      BY <2>1, <2>3, <3>1 DEF Pick!PickResolves
  <2> QED
    BY <2>2, <2>3
<1> QED
  BY <1>1, PickAlways, PTL

-----------------------------------------------------------------------------
(* What a design session stores *)

(* A record that was acknowledged is on its line, unless a line in the     *)
(* middle of the log cannot be parsed, which takes an append to a torn     *)
(* tail; the torn tail itself holds none.                                  *)
Row(r) == \E i \in 1..Len(rows) : rows[i] = r
Damaged == \E i \in 1..Len(rows) : rows[i] = Logs!Garbled /\ (ends \/ i # Len(rows))

LogsInv ==
  /\ Logs!TypeOK
  /\ ~ends => rows # <<>> /\ rows[Len(rows)] \notin acked
  /\ Damaged => glued
  /\ Damaged \/ \A r \in acked : Row(r)

LEMMA LogsBegin == Logs!Init => LogsInv
<1> SUFFICES ASSUME Logs!Init PROVE LogsInv
  OBVIOUS
<1>1. rows \in Seq(Logs!Record \union {Logs!Garbled}) /\ MaxRows \in Nat /\ 0 \in 0..MaxRows
  BY ToolBounds DEF Logs!Init, Logs!LogBounds
<1>2. ends \in BOOLEAN /\ glued \in BOOLEAN
  BY Zenon DEF Logs!Init
<1>3. Len(rows) = 0 /\ ends /\ acked = {}
  BY DEF Logs!Init
<1>4. ~Damaged
  BY <1>3 DEF Damaged
<1> QED
  BY <1>1, <1>2, <1>3, <1>4 DEF Logs!Init, LogsInv, Logs!TypeOK

LEMMA AppendKeeps ==
  ASSUME LogsInv, NEW o \in Logs!Outcome, Logs!appendFile(o)
  PROVE  LogsInv'
<1>1. /\ MaxRows \in Nat /\ said \in 0..MaxRows /\ said < MaxRows /\ said' = said + 1
      /\ said' \in 1..MaxRows /\ said' \notin acked /\ said' # Logs!Garbled
      /\ acked \subseteq 1..said /\ acked' \subseteq 1..said'
      /\ acked' = IF o = "whole" THEN acked \union {said'} ELSE acked
      /\ Logs!Garbled \notin acked'
  BY ToolBounds DEF Logs!LogBounds, LogsInv, Logs!TypeOK, Logs!appendFile, Logs!Garbled
<1>2. /\ kind' = kind /\ kind \in {"chat", "thread", "comments"}
      /\ ends' \in BOOLEAN /\ (ends' <=> o = "whole")
      /\ glued' \in BOOLEAN /\ (glued' <=> glued \/ ~ends)
  BY DEF LogsInv, Logs!TypeOK, Logs!appendFile
<1>3. PICK kept, new :
        /\ rows' = Append(kept, new) /\ kept \in Seq(Logs!Record \union {Logs!Garbled})
        /\ new \in Logs!Record \union {Logs!Garbled}
        /\ ends => kept = rows /\ new = (IF o = "cut" THEN Logs!Garbled ELSE said')
        /\ ~ends => /\ Len(kept) = Len(rows) - 1 /\ new = Logs!Garbled
                    /\ \A i \in 1..Len(kept) : kept[i] = rows[i]
  <2>1. rows \in Seq(Logs!Record \union {Logs!Garbled})
    BY DEF LogsInv, Logs!TypeOK
  <2>2. CASE ends
    BY <1>1, <2>1, <2>2 DEF Logs!appendFile, Logs!Record
  <2>3. CASE ~ends
    <3>1. rows # <<>> /\ Len(rows) \in Nat /\ Len(rows) # 0
      BY <2>1, <2>3 DEF LogsInv
    <3>2. PICK kept : kept = SubSeq(rows, 1, Len(rows) - 1)
      OBVIOUS
    <3>3. /\ kept \in Seq(Logs!Record \union {Logs!Garbled}) /\ Len(kept) = Len(rows) - 1
          /\ \A i \in 1..Len(kept) : kept[i] = rows[i]
      <4>1. PICK l \in Nat : l = Len(rows) /\ l # 0
        BY <3>1
      <4>2. PICK m \in Nat : m = l - 1
        BY <4>1
      <4>3. \A i \in 1..m : rows[i] \in Logs!Record \union {Logs!Garbled}
        BY <2>1, <4>1, <4>2
      <4>4. /\ kept \in Seq(Logs!Record \union {Logs!Garbled}) /\ Len(kept) = m
            /\ \A i \in 1..m : kept[i] = rows[i]
        BY <3>2, <4>1, <4>2, <4>3, SubSeqProperties
      <4> QED
        BY <4>1, <4>2, <4>4
    <3>4. rows' = Append(kept, Logs!Garbled)
      BY <2>3, <3>2 DEF Logs!appendFile, Logs!Front
    <3> QED
      BY <2>3, <3>3, <3>4
  <2> QED
    BY <2>2, <2>3
<1>4. PICK n \in Nat : n = Len(kept)
  BY <1>3
<1>5. /\ Len(rows') = n + 1 /\ rows'[n + 1] = new /\ n + 1 \in 1..Len(rows')
      /\ \A i \in 1..n : rows'[i] = kept[i] /\ i \in 1..Len(rows') /\ i # Len(rows')
      /\ rows' \in Seq(Logs!Record \union {Logs!Garbled}) /\ rows' # <<>>
  BY <1>3, <1>4
<1>6. Logs!TypeOK'
  BY <1>1, <1>2, <1>5 DEF Logs!TypeOK
<1>7. ~ends' => rows'[Len(rows')] \notin acked'
  BY <1>1, <1>2, <1>3, <1>5
<1>8. /\ Len(rows) \in Nat
      /\ ends => n = Len(rows)
      /\ ~ends => Len(rows) = n + 1 /\ rows[n + 1] \notin acked
      /\ \A i \in 1..n : kept[i] = rows[i]
      /\ \A i \in 1..Len(rows) : i \in 1..n \/ (~ends /\ i = n + 1)
  BY <1>3, <1>4 DEF LogsInv, Logs!TypeOK
<1>9. Damaged' => glued'
  <2> SUFFICES ASSUME NEW i \in 1..Len(rows'), rows'[i] = Logs!Garbled, ends' \/ i # Len(rows')
               PROVE  glued \/ ~ends
    BY <1>2 DEF Damaged
  <2>1. CASE i \in 1..n
    <3>1. rows[i] = Logs!Garbled /\ (ends => i \in 1..Len(rows))
      BY <1>5, <1>8, <2>1
    <3>2. ends => Damaged
      BY <3>1 DEF Damaged
    <3> QED
      BY <3>2 DEF LogsInv
  <2>2. CASE i = n + 1
    BY <1>1, <1>2, <1>3, <1>5, <2>2
  <2> QED
    BY <1>5, <2>1, <2>2
<1>10. CASE Damaged
  <2>1. PICK i \in 1..Len(rows) : rows[i] = Logs!Garbled /\ (ends \/ i # Len(rows))
    BY <1>10 DEF Damaged
  <2>2. i \in 1..n
    BY <1>8, <2>1
  <2>3. i \in 1..Len(rows') /\ rows'[i] = Logs!Garbled /\ i # Len(rows')
    BY <1>5, <1>8, <2>1, <2>2
  <2>4. Damaged'
    BY <2>3 DEF Damaged
  <2> QED
    BY <1>5, <1>6, <1>7, <1>9, <2>4 DEF LogsInv
<1>11. CASE \A r \in acked : Row(r)
  <2>1. ASSUME NEW r \in acked
        PROVE  \E i \in 1..Len(rows') : rows'[i] = r
    <3>1. PICK i \in 1..Len(rows) : rows[i] = r
      BY <1>11 DEF Row
    <3>2. i \in 1..n
      BY <1>8, <3>1
    <3> QED
      BY <1>5, <1>8, <3>1, <3>2
  <2>2. CASE ends \/ o # "whole"
    <3>1. ASSUME NEW r \in acked' PROVE \E i \in 1..Len(rows') : rows'[i] = r
      <4>1. CASE r \in acked
        BY <2>1, <4>1
      <4>2. CASE r \notin acked
        <5>1. ends /\ o = "whole" /\ r = said'
          BY <1>1, <2>2, <4>2
        <5>2. new = said'
          BY <1>3, <5>1
        <5> QED
          BY <1>5, <5>1, <5>2
      <4> QED
        BY <4>1, <4>2
    <3> QED
      BY <1>5, <1>6, <1>7, <1>9, <3>1 DEF LogsInv, Row
  <2>3. CASE ~ends /\ o = "whole"
    <3>1. glued' /\ ends' /\ new = Logs!Garbled
      BY <1>2, <1>3, <2>3
    <3>2. Damaged'
      BY <1>5, <3>1 DEF Damaged
    <3> QED
      BY <1>5, <1>6, <1>7, <1>9, <3>2 DEF LogsInv
  <2> QED
    BY <2>2, <2>3
<1> QED
  BY <1>10, <1>11 DEF LogsInv

LEMMA LogsKeep == LogsInv /\ [Logs!Next]_(Logs!vars) => LogsInv'
<1> SUFFICES ASSUME LogsInv, [Logs!Next]_(Logs!vars) PROVE LogsInv'
  OBVIOUS
<1>1. CASE UNCHANGED Logs!vars
  BY <1>1 DEF LogsInv, Logs!TypeOK, Row, Damaged, Logs!vars
<1>2. CASE Logs!Next
  <2>1. PICK o \in Logs!Outcome : Logs!appendFile(o)
    BY <1>2 DEF Logs!Next, Logs!appendChatMessage, Logs!appendThreadMessage, Logs!appendComment
  <2> QED
    BY <2>1, AppendKeeps
<1> QED
  BY <1>1, <1>2

(* The proof about the bodies is that of their own module.                 *)
Bodies == INSTANCE DesignVariants_proofs WITH marker <- marking

LEMMA SameSteps == Variants!Next => Bodies!Next
<1>1. /\ Variants!None = Bodies!None /\ Variants!Absent = Bodies!Absent
      /\ Variants!NoMarker = Bodies!NoMarker /\ Variants!TornMarker = Bodies!TornMarker
      /\ \A b : Variants!Whole(b) = Bodies!Whole(b)
  BY DEF Variants!None, Bodies!None, Variants!Absent, Bodies!Absent, Variants!NoMarker,
         Bodies!NoMarker, Variants!TornMarker, Bodies!TornMarker, Variants!Whole, Bodies!Whole
<1>2. Variants!generateParallel => Bodies!generateParallel
  BY DEF Variants!generateParallel, Bodies!generateParallel, Variants!Generated,
         Bodies!Generated, Variants!assertVariantId, Bodies!assertVariantId
<1>3. Variants!regenerate => Bodies!regenerate
  BY DEF Variants!regenerate, Bodies!regenerate, Variants!Generated, Bodies!Generated
<1>4. ASSUME NEW c \in writing, Variants!OpenVariant(c) PROVE Bodies!OpenVariant(c)
  BY <1>1, <1>4 DEF Variants!OpenVariant, Bodies!OpenVariant, Variants!At, Bodies!At,
                    Variants!Goto, Bodies!Goto, Variants!Return, Bodies!Return
<1>5. ASSUME NEW c \in writing, Variants!OpenFails(c) PROVE Bodies!OpenFails(c)
  BY <1>5 DEF Variants!OpenFails, Bodies!OpenFails, Variants!At, Bodies!At,
              Variants!Goto, Bodies!Goto
<1>6. ASSUME NEW c \in writing, Variants!WriteBody(c) PROVE Bodies!WriteBody(c)
  BY <1>1, <1>6 DEF Variants!WriteBody, Bodies!WriteBody, Variants!At, Bodies!At,
                    Variants!Goto, Bodies!Goto, Variants!Return, Bodies!Return
<1>7. ASSUME NEW c \in writing, Variants!RemoveResidue(c) PROVE Bodies!RemoveResidue(c)
  BY <1>1, <1>7 DEF Variants!RemoveResidue, Bodies!RemoveResidue, Variants!At, Bodies!At,
                    Variants!Return, Bodies!Return
<1>8. ASSUME NEW v \in generated, Variants!approveVariant(v) PROVE Bodies!approveVariant(v)
  BY <1>1, <1>8 DEF Variants!approveVariant, Bodies!approveVariant
<1>9. Variants!WriteMarker \/ Variants!Killed => Bodies!WriteMarker \/ Bodies!Killed
  BY <1>1 DEF Variants!WriteMarker, Bodies!WriteMarker, Variants!Killed, Bodies!Killed
<1> QED
  BY <1>2, <1>3, <1>4, <1>5, <1>6, <1>7, <1>8, <1>9 DEF Variants!Next, Bodies!Next

LEMMA StoredAlways ==
  Spec => []((tool = "logs" => LogsInv) /\ (tool = "variants" => Bodies!IInv))
<1> DEFINE Inv == (tool = "logs" => LogsInv) /\ (tool = "variants" => Bodies!IInv)
<1>1. Init => Inv
  <2>1. ASSUME Variants!Init PROVE Bodies!Init
    BY <2>1 DEF Variants!Init, Bodies!Init, Variants!Absent, Bodies!Absent, Variants!NoMarker,
                Bodies!NoMarker, Variants!None, Bodies!None
  <2>2. Bodies!RoundBound
    BY ToolBounds DEF Variants!RoundBound, Bodies!RoundBound
  <2>3. Variants!Init => Bodies!IInv
    BY <2>1, <2>2, Bodies!InitIInv
  <2> QED
    BY <2>3, LogsBegin DEF Init
<1>2. Inv /\ [Next]_vars => Inv'
  <2> SUFFICES ASSUME Inv, [Next]_vars PROVE Inv'
    OBVIOUS
  <2>1. tool' = tool
    BY DEF Next, vars
  <2>2. CASE tool = "logs"
    <3>1. LogsInv /\ [Logs!Next]_(Logs!vars)
      BY <2>2 DEF Next, vars, ofDesign, ofLogs, Logs!vars
    <3> QED
      BY <2>1, <2>2, <3>1, LogsKeep
  <2>3. CASE tool = "variants"
    <3>1. Bodies!IInv /\ [Variants!Next]_(Variants!vars)
      BY <2>3 DEF Next, vars, ofDesign, ofVariants, Variants!vars
    <3>2. Variants!vars = Bodies!vars
      BY DEF Variants!vars, Bodies!vars
    <3>3. Variants!Next => Bodies!Next
      BY SameSteps
    <3>4. Bodies!RoundBound
      BY ToolBounds DEF Variants!RoundBound, Bodies!RoundBound
    <3>5. [Bodies!Next]_(Bodies!vars)
      BY <3>1, <3>2, <3>3 DEF Variants!vars, Bodies!vars
    <3>6. Bodies!IInv'
      BY <3>1, <3>4, <3>5, Bodies!Inductive
    <3> QED
      BY <2>1, <2>3, <3>6
  <2> QED
    BY <2>1, <2>2, <2>3 DEF Next
<1> QED
  BY <1>1, <1>2, PTL DEF Spec

(* What the design session has stored is what it reads back (storage).     *)
THEOREM StoredAlwaysRead == Spec => []StoredIsReadBack
<1>1. (tool = "logs" => LogsInv) /\ (tool = "variants" => Bodies!IInv) => StoredIsReadBack
  <2> SUFFICES ASSUME tool = "logs" => LogsInv, tool = "variants" => Bodies!IInv
               PROVE  StoredIsReadBack
    OBVIOUS
  <2>1. ASSUME tool = "logs" PROVE Logs!LogReadBack
    <3>1. /\ LogsInv /\ rows \in Seq(Logs!Record \union {Logs!Garbled})
          /\ kind \in {"chat", "thread", "comments"} /\ acked \subseteq 1..said
          /\ DOMAIN rows = 1..Len(rows)
      BY <2>1 DEF LogsInv, Logs!TypeOK
    <3>2. CASE Damaged
      <4>1. kind # "comments" => Logs!messages = Logs!Throws
        BY <3>1, <3>2 DEF Damaged, Logs!messages, Logs!readChatMessages, Logs!readThreadMessages,
                          Logs!isTornTail
      <4> QED
        BY <3>1, <3>2, <4>1 DEF Logs!LogReadBack, LogsInv
    <3>3. CASE ~Damaged
      <4>1. \A r \in acked : Row(r) /\ r # Logs!Garbled
        BY <3>1, <3>3 DEF LogsInv, Logs!TypeOK, Logs!Garbled
      <4>2. acked \subseteq Logs!Parsed
        BY <3>1, <4>1 DEF Row, Logs!Parsed
      <4>3. Logs!messages = Logs!Parsed
        BY <3>1, <3>3 DEF Damaged, Logs!messages, Logs!readChatMessages,
                          Logs!readThreadMessages, Logs!readComments, Logs!isTornTail
      <4> QED
        BY <4>2, <4>3 DEF Logs!LogReadBack
    <3> QED
      BY <3>2, <3>3
  <2>2. ASSUME tool = "variants" PROVE Variants!BodiesKept
    <3>1. Bodies!WrittenStays /\ Bodies!AcceptsGenerated
      BY <2>2 DEF Bodies!IInv
    <3> QED
      BY <3>1 DEF Variants!BodiesKept, Bodies!WrittenStays, Bodies!AcceptsGenerated, Variants!Whole,
                  Bodies!Whole, Variants!Variant, Bodies!Variant, Variants!Body, Bodies!Body
  <2> QED
    BY <2>1, <2>2 DEF StoredIsReadBack
<1> QED
  BY <1>1, StoredAlways, PTL

-----------------------------------------------------------------------------
(* The types *)

LEMMA InstallTyped == InstallInv /\ ToDo => Install!TypeOK
<1>1. Made \subseteq Install!Content
  BY DEF Made
<1> QED
  BY <1>1 DEF InstallInv, Stages, SettingsTyped, Contents, ToDo, Install!TypeOK

LEMMA LedgerTyped == Files /\ ReportInv => Ledger!TypeOK
BY DEF Files, Copy, Counters, Job, ReportInv, Chronicle, CostLine, Session, Report,
       Ledger!TypeOK, Ledger!File, Ledger!Data, Ledger!Entry

LEMMA BodiesTyped == Bodies!TypeOK => Variants!TypeOK
BY DEF Bodies!TypeOK, Variants!TypeOK, Bodies!Body, Variants!Body, Bodies!None, Variants!None,
       Bodies!Call, Variants!Call, Bodies!Variant, Variants!Variant, Bodies!NoMarker,
       Variants!NoMarker, Bodies!TornMarker, Variants!TornMarker

(* Whichever tool is at work, its state has its type, for every value of   *)
(* the constants.                                                          *)
THEOREM ToolsTyped == Spec => []TypeOK
<1>1. tool \in {"install", "ledger", "batch", "hooks", "logs", "variants", "pick"} =>
        ( /\ tool = "install" => InstallInv /\ ToDo
          /\ tool = "ledger" => LedgerInv /\ ReportInv
          /\ tool = "batch" => BatchInv
          /\ tool = "hooks" => HooksInv
          /\ (tool = "logs" => LogsInv) /\ (tool = "variants" => Bodies!IInv)
          /\ tool = "pick" => PickInv
          => TypeOK)
  BY InstallTyped, LedgerTyped, BodiesTyped
  DEF LedgerInv, BatchInv, HooksInv, LogsInv, Bodies!IInv, PickInv, TypeOK
<1>2. Spec => [](tool \in {"install", "ledger", "batch", "hooks", "logs", "variants", "pick"})
  <2> DEFINE Known == tool \in {"install", "ledger", "batch", "hooks", "logs", "variants", "pick"}
  <2>1. Init => Known
    BY DEF Init
  <2>2. Known /\ [Next]_vars => Known'
    BY DEF Next, vars
  <2> QED
    BY <2>1, <2>2, PTL DEF Spec
<1> QED
  BY <1>1, <1>2, InstallAlways, LedgerAlways, BatchAlways, HooksAlways, StoredAlways, PickAlways,
     PTL

=============================================================================
