--------------------------- MODULE WorkLoop_proofs ---------------------------
(***************************************************************************)
(* Proofs about QuietHours and WorkLoop, for every set of tickets, every   *)
(* queue, every clock, every window and every length of day and minute.    *)
(***************************************************************************)
EXTENDS WorkLoop, SequenceTheorems, FiniteSetTheorems, WellFoundedInduction, TLAPS

-----------------------------------------------------------------------------
(* QuietHours: the sleep that queue.ts computes ends the quiet hours, and  *)
(* not earlier or later.                                                   *)

LEMMA Multiples ==
  ASSUME NEW k \in Nat, NEW m \in Nat \ {0}
  PROVE  (k * m) \div m = k /\ (k * m) % m = 0
<1>1. (k * m) \div m = k
  OBVIOUS
<1>2. (k * m) % m = 0
  OBVIOUS
<1> QED
  BY <1>1, <1>2

LEMMA Wrap ==
  ASSUME NEW k \in Nat, NEW m \in Nat \ {0}, k < m
  PROVE  k % m = k /\ (k + m) % m = k
<1>1. k % m = k
  OBVIOUS
<1>2. (k + m) % m = k
  OBVIOUS
<1> QED
  BY <1>1, <1>2

LEMMA Remainder ==
  ASSUME NEW k \in Nat, NEW m \in Nat \ {0}, NEW r \in 0..(m - 1)
  PROVE  (k * m + r) \div m = k /\ (k * m + r) % m = r
<1>1. (k * m + r) \div m = k
  OBVIOUS
<1>2. (k * m + r) % m = r
  OBVIOUS
<1> QED
  BY <1>1, <1>2

(* How far the end of the window is: it may lie in the next day. *)
LEMMA UntilEnd ==
  ASSUME NEW nowMin \in Time, NEW endMin \in Time
  PROVE  /\ minutesUntilEnd(nowMin, endMin) \in 1..Day
         /\ nowMin + minutesUntilEnd(nowMin, endMin) \in {endMin, endMin + Day}
BY Units DEF minutesUntilEnd, Time

(* The remainder of a difference of two times. *)
LEMMA Around ==
  ASSUME NEW m \in Nat \ {0}, NEW a \in 0..(m - 1), NEW b \in 0..(m - 1)
  PROVE  (a - b) % m = IF a >= b THEN a - b ELSE a - b + m
<1>1. CASE a >= b
  OBVIOUS
<1>2. CASE a < b
  OBVIOUS
<1> QED
  BY <1>1, <1>2

(* isInQuietWindow decides whether it is quiet hours, round the clock.     *)
THEOREM WindowIsCircular ==
  ASSUME NEW clock \in Clock, NEW hours \in Windows
  PROVE  isQuiet(hours, clock) <=> InQuietHours(hours, clock)
<1>1. CASE hours = <<>>
  BY <1>1 DEF isQuiet, InQuietHours
<1>2. CASE hours # <<>>
  <2> DEFINE n == clock.min
             s == hours[1]
             e == hours[2]
  <2>1. n \in 0..(Day - 1) /\ s \in 0..(Day - 1) /\ e \in 0..(Day - 1)
    BY <1>2 DEF Clock, Windows, Time
  <2>2. (n - s) % Day = IF n >= s THEN n - s ELSE n - s + Day
    BY <2>1, Units, Around
  <2>3. (e - s) % Day = IF e >= s THEN e - s ELSE e - s + Day
    BY <2>1, Units, Around
  <2>4. isQuiet(hours, clock) <=> isInQuietWindow(n, s, e)
    BY <1>2 DEF isQuiet
  <2>5. InQuietHours(hours, clock) <=> (n - s) % Day < (e - s) % Day
    BY <1>2 DEF InQuietHours
  <2> HIDE DEF n, s, e
  <2>6. isInQuietWindow(n, s, e) <=> (n - s) % Day < (e - s) % Day
    BY <2>1, <2>2, <2>3, Units DEF isInQuietWindow
  <2> QED
    BY <2>4, <2>5, <2>6
<1> QED
  BY <1>1, <1>2

(* The end of a window is outside it. *)
LEMMA EndIsOutside ==
  ASSUME NEW startMin \in Time, NEW endMin \in Time
  PROVE  ~isInQuietWindow(endMin, startMin, endMin)
BY DEF isInQuietWindow, Time

(* In the window the sleep is positive, lasts a day at most, and ends on   *)
(* the minute the window ends.                                             *)
THEOREM SleepEndsOnTheMinute ==
  ASSUME NEW clock \in Clock, NEW hours \in Windows, isQuiet(hours, clock)
  PROVE  /\ getQuietSleepMs(hours, clock) \in 1..(Day * Minute)
         /\ After(clock, getQuietSleepMs(hours, clock)) = [min |-> hours[2], ms |-> 0]
<1> DEFINE left == minutesUntilEnd(clock.min, hours[2])
<1>1. /\ clock.min \in Time /\ clock.ms \in 0..(Minute - 1)
      /\ hours[1] \in Time /\ hours[2] \in Time
  BY DEF Clock, Windows, isQuiet
<1>2. left \in 1..Day /\ clock.min + left \in {hours[2], hours[2] + Day}
  BY <1>1, UntilEnd
<1> HIDE DEF left
<1>4. left * Minute - clock.ms \in 1..(Day * Minute)
  <2>1. left * Minute >= Minute /\ left * Minute <= Day * Minute /\ left * Minute \in Int
    BY <1>2, Units
  <2> QED
    BY <2>1, <1>1, Units
<1>3. getQuietSleepMs(hours, clock) = left * Minute - clock.ms
  BY <1>4 DEF getQuietSleepMs, AtLeastZero, left
<1>5. clock.min * Minute + clock.ms + (left * Minute - clock.ms) = (clock.min + left) * Minute
  BY <1>1, <1>2, Units DEF Time
<1>6. After(clock, left * Minute - clock.ms) =
        [min |-> (clock.min + left) % Day, ms |-> 0]
  <2>1. clock.min + left \in Nat
    BY <1>1, <1>2, Units DEF Time
  <2> QED
    BY <1>5, <2>1, Units, Multiples DEF After
<1>7. (clock.min + left) % Day = hours[2]
  <2>1. hours[2] \in Nat /\ hours[2] < Day
    BY <1>1, Units DEF Time
  <2> QED
    BY <1>2, <2>1, Units, Wrap
<1> QED
  BY <1>3, <1>4, <1>6, <1>7

(* After handleQuietHours it is not quiet, whatever time it was before.    *)
THEOREM WakesOutside ==
  ASSUME NEW clock \in Clock, NEW hours \in Windows
  PROVE  /\ After(clock, getQuietSleepMs(hours, clock)) \in Clock
         /\ ~isQuiet(hours, After(clock, getQuietSleepMs(hours, clock)))
<1>1. CASE isQuiet(hours, clock)
  <2>1. hours[1] \in Time /\ hours[2] \in Time
    BY <1>1 DEF Windows, isQuiet
  <2>2. After(clock, getQuietSleepMs(hours, clock)) = [min |-> hours[2], ms |-> 0]
    BY <1>1, SleepEndsOnTheMinute
  <2> QED
    BY <2>1, <2>2, EndIsOutside, Units DEF isQuiet, Clock
<1>2. CASE ~isQuiet(hours, clock)
  <2>1. clock.min \in Nat /\ clock.min < Day /\ clock.ms \in 0..(Minute - 1)
    BY Units DEF Clock, Time
  <2>2. /\ (clock.min * Minute + clock.ms) \div Minute = clock.min
        /\ (clock.min * Minute + clock.ms) % Minute = clock.ms
    BY <2>1, Units, Remainder
  <2>4. clock.min * Minute + clock.ms + 0 = clock.min * Minute + clock.ms
    BY <2>1, Units
  <2>5. clock.min % Day = clock.min
    BY <2>1, Units, Wrap
  <2>6. After(clock, 0) = [min |-> clock.min, ms |-> clock.ms]
    BY <2>2, <2>4, <2>5 DEF After
  <2>7. After(clock, 0) = clock
    BY <2>6 DEF Clock
  <2> QED
    BY <1>2, <2>7 DEF getQuietSleepMs
<1> QED
  BY <1>1, <1>2

-----------------------------------------------------------------------------
(* WorkLoop *)

(* A set of numbers has a least one. *)
LEMMA Least ==
  ASSUME NEW T, T \subseteq Nat, T # {}
  PROVE  \E m \in T : \A k \in T : m <= k
<1>1. PICK m \in T : \A k \in T : ~(<<k, m>> \in OpToRel(<, Nat))
  BY NatLessThanWellFounded, WFMin, Zenon
<1>2. \A k \in T : ~(k < m)
  <2> TAKE k \in T
  <2>1. k \in Nat /\ m \in Nat
    OBVIOUS
  <2>2. k < m => <<k, m>> \in OpToRel(<, Nat)
    BY <2>1 DEF OpToRel
  <2> QED
    BY <1>1, <2>2
<1>3. \A k \in T : m <= k
  BY <1>2
<1> QED
  BY <1>3

LEMMA Places ==
  ASSUME NEW n \in Nat, NEW K \in SUBSET (1..n)
  PROVE  /\ IsFiniteSet(K) /\ Cardinality(K) \in Nat
         /\ \A i \in K : i \in Nat /\ 1 <= i /\ i <= n
<1>1. IsFiniteSet(1..n)
  BY FS_Interval
<1>2. IsFiniteSet(K)
  BY <1>1, FS_Subset
<1>3. Cardinality(K) \in Nat
  BY <1>2, FS_CardinalityType
<1>4. \A i \in K : i \in Nat /\ 1 <= i /\ i <= n
  OBVIOUS
<1> QED
  BY <1>2, <1>3, <1>4

(* Filtered goes through the kept places in their order: of n places, each *)
(* k up to n is the number of those up to one of them.                     *)
LEMMA Ranked ==
  ASSUME NEW n \in Nat, NEW K \in SUBSET (1..n), NEW k \in 1..Cardinality(K)
  PROVE  \E i \in K : Cardinality({j \in K : j <= i}) = k
<1> DEFINE Upto(m) == {j \in K : j <= m}
           reached == {m \in Nat : Cardinality(Upto(m)) >= k}
<1>1. IsFiniteSet(K) /\ Cardinality(K) \in Nat
  BY Places
<1>2. \A m : IsFiniteSet(Upto(m)) /\ Cardinality(Upto(m)) \in Nat
  <2> TAKE m
  <2>1. Upto(m) \subseteq K
    OBVIOUS
  <2> HIDE DEF Upto
  <2> QED
    BY <1>1, <2>1, FS_Subset, FS_CardinalityType
<1>3. n \in reached
  <2>1. Upto(n) = K
    <3>1. \A j \in K : j <= n
      BY Places
    <3> QED
      BY <3>1
  <2> QED
    BY <1>1, <2>1
<1>4. PICK m \in reached : \A other \in reached : m <= other
  <2>1. reached \subseteq Nat /\ reached # {}
    BY <1>3
  <2> HIDE DEF reached
  <2> QED
    BY <2>1, Least
<1>5. m # 0
  <2>1. SUFFICES ASSUME m = 0 PROVE FALSE
    OBVIOUS
  <2>2. Upto(0) = {}
    <3>1. \A j \in K : ~(j <= 0)
      OBVIOUS
    <3> QED
      BY <3>1
  <2>3. Cardinality(Upto(0)) = 0
    BY <2>2, FS_EmptySet
  <2> QED
    BY <1>1, <1>4, <2>1, <2>3
<1>6. m - 1 \in Nat /\ Cardinality(Upto(m - 1)) < k
  <2>1. m - 1 \in Nat /\ m - 1 \notin reached
    <3>1. m \in Nat /\ m - 1 \in Nat /\ ~(m <= m - 1)
      BY <1>4, <1>5
    <3> HIDE DEF reached
    <3> QED
      BY <1>4, <3>1
  <2>2. Cardinality(Upto(m - 1)) \in Nat
    BY <1>2
  <2>3. ~(Cardinality(Upto(m - 1)) >= k)
    BY <2>1
  <2> HIDE DEF Upto, reached
  <2> QED
    BY <1>1, <2>1, <2>2, <2>3
<1>7. \A j \in K : j \in Nat
  OBVIOUS
<1>8. m \in K
  <2>1. SUFFICES ASSUME m \notin K PROVE FALSE
    OBVIOUS
  <2>2. Upto(m) = Upto(m - 1)
    <3>1. \A j \in K : j <= m <=> j <= m - 1
      BY <1>4, <1>7, <2>1
    <3> QED
      BY <3>1
  <2>3. Cardinality(Upto(m)) >= k
    BY <1>4
  <2> HIDE DEF Upto
  <2> QED
    BY <1>1, <1>2, <1>6, <2>2, <2>3
<1>9. Upto(m) = Upto(m - 1) \union {m} /\ m \notin Upto(m - 1)
  <2>1. \A j \in K : j <= m <=> j <= m - 1 \/ j = m
    BY <1>4, <1>7
  <2>2. ~(m <= m - 1)
    BY <1>4
  <2> QED
    BY <1>8, <2>1, <2>2
<1>10. Cardinality(Upto(m)) = Cardinality(Upto(m - 1)) + 1
  <2>1. IsFiniteSet(Upto(m - 1))
    BY <1>2
  <2> HIDE DEF Upto
  <2> QED
    BY <1>9, <2>1, FS_AddElement
<1>11. Cardinality(Upto(m)) >= k
  BY <1>4
<1>12. Cardinality(Upto(m)) = k
  <2>1. Cardinality(Upto(m - 1)) \in Nat /\ Cardinality(Upto(m)) \in Nat
    BY <1>2
  <2>2. k \in Nat
    BY <1>1
  <2> HIDE DEF Upto
  <2> QED
    BY <1>6, <1>10, <1>11, <2>1, <2>2
<1> QED
  BY <1>8, <1>12

(* So what is left of the queue is tickets that are kept. *)
LEMMA FilteredIsKept ==
  ASSUME queue \in Seq(Ticket)
  PROVE  /\ Filtered \in Seq(Ticket)
         /\ \A k \in 1..Len(Filtered) : Filtered[k] \in greenIds
<1>1. Len(queue) \in Nat /\ Kept \in SUBSET (1..Len(queue))
  BY DEF Kept
<1>2. IsFiniteSet(Kept) /\ Cardinality(Kept) \in Nat
  BY <1>1, Places
<1>3. \A i \in Kept : queue[i] \in Ticket /\ queue[i] \in greenIds
  BY <1>1 DEF Kept
<1>4. ASSUME NEW k \in 1..Cardinality(Kept)
      PROVE  Filtered[k] \in Ticket /\ Filtered[k] \in greenIds
  <2> DEFINE place == CHOOSE i \in Kept : Cardinality({j \in Kept : j <= i}) = k
  <2>1. place \in Kept
    BY <1>1, Ranked
  <2>2. Filtered[k] = queue[place]
    BY DEF Filtered
  <2> QED
    BY <1>3, <2>1, <2>2
<1>5. Filtered = [k \in 1..Cardinality(Kept) |-> Filtered[k]]
  BY DEF Filtered
<1>6. Filtered \in Seq(Ticket) /\ Len(Filtered) = Cardinality(Kept)
  BY <1>2, <1>4, <1>5
<1> QED
  BY <1>4, <1>6

(* What executeQueue iterates over is the beginning of what it is given. *)
LEMMA CappedIsPart ==
  ASSUME NEW S, NEW s \in Seq(S)
  PROVE  /\ Capped(s) \in Seq(S) /\ Len(Capped(s)) <= Len(s)
         /\ \A i \in 1..Len(Capped(s)) : Capped(s)[i] = s[i]
<1> DEFINE n == Smaller(Len(s), Smaller(MaxIterations, MAX_ITERATIONS_CAP))
<1>1. n \in Nat /\ n <= Len(s)
  BY LoopConfiguration DEF Smaller
<1>2. Capped(s) = SubSeq(s, 1, n)
  BY DEF Capped, FirstOf
<1> HIDE DEF n
<1>3. \A i \in 1..n : s[i] \in S
  BY <1>1
<1>4. /\ SubSeq(s, 1, n) \in Seq(S)
      /\ Len(SubSeq(s, 1, n)) = IF 1 <= n THEN n - 1 + 1 ELSE 0
      /\ \A i \in 1..(n - 1 + 1) : SubSeq(s, 1, n)[i] = s[1 + i - 1]
  BY <1>1, <1>3, SubSeqProperties
<1>5. /\ Len(SubSeq(s, 1, n)) = n
      /\ \A i \in 1..n : SubSeq(s, 1, n)[i] = s[i]
  BY <1>1, <1>4
<1> QED
  BY <1>1, <1>2, <1>4, <1>5

(* An AFK loop that has graded its queue goes through green tickets only;  *)
(* strict mode does not go through any when one was red.                   *)
Screened ==
  /\ phase \in {"idle", "batch", "save"} => executed = {}
  /\ mode # "interactive" /\ HasGate =>
       /\ executed \subseteq Greens
       /\ phase \in {"check", "gate", "pipeline"} =>
            /\ \A i \in 1..Len(indices) : indices[i] \in Greens
            /\ ~(mode = "strict" /\ hasReds)

(* An iteration that is under way is one of those there are, and, but for  *)
(* autopilot, is for a ticket.                                             *)
Iterating ==
  /\ phase \in {"idle", "batch", "save"} => index = 1
  /\ phase \in {"gate", "pipeline"} => index <= Len(indices)
  /\ phase = "gate" => HasGate
  /\ mode # "autopilot" => indices \in Seq(Ticket)

(* The next ticket of a queue to be graded, where `verdicts` are those     *)
(* there are: it has at most one element.                                  *)
FirstUngraded(q, verdicts) ==
  {t \in BatchOf(q) : /\ verdicts[t] = "none"
                      /\ \A u \in BatchOf(q) \intersect Before(q, t) : verdicts[u] # "none"}

(* What is graded in a batch is in the checkpoint, but for the grade that  *)
(* has just come back.  A grade that was paid for and is not there is that *)
(* of the ticket which is graded next.                                     *)
Checkpointed ==
  /\ paid \subseteq BatchOf(batch)
  /\ {t \in paid : partial[t] = "none"} \subseteq FirstUngraded(batch, partial)
  /\ phase \in {"batch", "save"} => batch = queue
  /\ phase = "batch" =>
       /\ \A t \in Ticket : graded[t] # "none" => partial[t] = graded[t]
       /\ {t \in paid : graded[t] = "none"} \subseteq FirstUngraded(queue, graded)
  /\ phase = "save" => \A t \in paid : graded[t] # "none"

LoopInv == TypeOK /\ Iterating /\ Screened /\ Checkpointed

(* Of two tickets of a queue one comes first. *)
LEMMA OneIsFirst ==
  ASSUME NEW q \in Seq(Ticket), NEW verdicts,
         NEW t \in FirstUngraded(q, verdicts), NEW u \in FirstUngraded(q, verdicts)
  PROVE  t = u
<1>1. ASSUME NEW a \in BatchOf(q)
      PROVE  \E m \in 1..Len(q) : q[m] = a /\ \A k \in 1..Len(q) : q[k] = a => m <= k
  <2> DEFINE places == {i \in 1..Len(q) : q[i] = a}
  <2>1. places \subseteq Nat /\ places # {}
    BY <1>1 DEF BatchOf
  <2> HIDE DEF places
  <2>2. PICK m \in places : \A k \in places : m <= k
    BY <2>1, Least
  <2> QED
    BY <2>2 DEF places
<1>2. t \in BatchOf(q) /\ u \in BatchOf(q)
  BY DEF FirstUngraded
<1>3. PICK m \in 1..Len(q) : q[m] = t /\ \A k \in 1..Len(q) : q[k] = t => m <= k
  BY <1>1, <1>2
<1>4. PICK n \in 1..Len(q) : q[n] = u /\ \A k \in 1..Len(q) : q[k] = u => n <= k
  BY <1>1, <1>2
<1>5. ASSUME m < n PROVE t \in Before(q, u)
  <2>1. \A i \in 1..m : i \in 1..Len(q) /\ q[i] # u
    BY <1>3, <1>4, <1>5
  <2> QED
    BY <1>3, <2>1 DEF Before
<1>6. ASSUME n < m PROVE u \in Before(q, t)
  <2>1. \A i \in 1..n : i \in 1..Len(q) /\ q[i] # t
    BY <1>3, <1>4, <1>6
  <2> QED
    BY <1>4, <2>1 DEF Before
<1>7. ~(m < n) /\ ~(n < m)
  BY <1>2, <1>5, <1>6 DEF FirstUngraded
<1> QED
  BY <1>3, <1>4, <1>7

LEMMA EmptyQueue == \A S : <<>> \in Seq(S) /\ Len(<<>>) = 0
  OBVIOUS

LEMMA NoRounds == 0 \in 0..(MaxRounds - 1)
BY LoopConfiguration

LEMMA InitLoop == Init => LoopInv
<1> SUFFICES ASSUME Init PROVE LoopInv
  OBVIOUS
<1>1. TypeOK
  <2>1. partial \in Verdicts /\ graded \in Verdicts
    BY DEF Init, NoVerdicts, Verdicts
  <2>2. index \in 1..(Len(indices) + 1) /\ round \in 0..(MaxRounds - 1)
    BY NoRounds, EmptyQueue DEF Init
  <2> QED
    BY <2>1, <2>2, EmptyQueue DEF Init, TypeOK, Mode
<1>2. Iterating /\ Screened /\ Checkpointed
  BY EmptyQueue DEF Init, Iterating, Screened, Checkpointed, HasGate
<1> QED
  BY <1>1, <1>2 DEF LoopInv

(* A loop that ends leaves nothing but the checkpoint and the clock. *)
LEMMA LoopGone ==
  ASSUME LoopInv, EndLoop, UNCHANGED <<partial, batch, paid, now, window>>, crashes' \in Nat
  PROVE  LoopInv'
<1>1. /\ phase' = "idle" /\ mode' = "interactive" /\ bypass' = FALSE
      /\ queue' = <<>> /\ indices' = <<>> /\ graded' = NoVerdicts
      /\ index' = 1 /\ round' = 0 /\ executed' = {}
  BY DEF EndLoop
<1>2. TypeOK'
  <2>1. partial' \in Verdicts /\ graded' \in Verdicts
    BY <1>1 DEF LoopInv, TypeOK, NoVerdicts, Verdicts
  <2>2. index' \in 1..(Len(indices') + 1) /\ round' \in 0..(MaxRounds - 1)
    BY <1>1, NoRounds, EmptyQueue
  <2>3. now' \in Clock /\ window' \in Windows
    BY DEF LoopInv, TypeOK
  <2>4. batch' \in Seq(Ticket) /\ paid' \in SUBSET Ticket
    BY DEF LoopInv, TypeOK
  <2> QED
    BY <1>1, <2>1, <2>2, <2>3, <2>4, EmptyQueue DEF TypeOK, Mode
<1>3. Iterating' /\ Screened'
  BY <1>1, EmptyQueue DEF Iterating, Screened, HasGate
<1>4. Checkpointed'
  BY <1>1 DEF LoopInv, Checkpointed
<1> QED
  BY <1>2, <1>3, <1>4 DEF LoopInv

(* A step of one iteration: what is iterated over stays, and what was      *)
(* graded with it.                                                         *)
LEMMA Iterates ==
  ASSUME LoopInv, UNCHANGED <<loopVars, partial, paid, graded, window, crashes>>,
         phase \in {"check", "gate", "pipeline"},
         phase' \in {"check", "gate", "pipeline"},
         phase' \in {"gate", "pipeline"} => index' <= Len(indices),
         phase' = "gate" => HasGate,
         index' \in 1..(Len(indices) + 1), round' \in 0..(MaxRounds - 1), now' \in Clock,
         \/ executed' = executed
         \/ /\ mode # "autopilot" /\ index <= Len(indices)
            /\ executed' = executed \union {indices[index]}
  PROVE  LoopInv'
<1>1. /\ UNCHANGED <<mode, bypass, queue, indices, batch>>
      /\ UNCHANGED <<HasGate, Greens, hasReds>>
  BY DEF loopVars, HasGate, Greens, hasReds
<1>2. index \in 1..(Len(indices) + 1) /\ Len(indices) \in Nat
  BY DEF LoopInv, TypeOK
<1>3. ASSUME executed' # executed
      PROVE  /\ executed' = executed \union {indices[index]} /\ indices[index] \in Ticket
             /\ mode # "interactive" /\ HasGate => indices[index] \in Greens
  <2>1. /\ mode # "autopilot" /\ executed' = executed \union {indices[index]}
        /\ index \in 1..Len(indices)
    BY <1>2, <1>3
  <2>2. indices \in Seq(Ticket)
    BY <2>1 DEF LoopInv, Iterating
  <2> QED
    BY <2>1, <2>2 DEF LoopInv, Screened
<1>4. TypeOK'
  <2>1. executed' \in SUBSET Ticket
    BY <1>3 DEF LoopInv, TypeOK
  <2> QED
    BY <1>1, <2>1 DEF LoopInv, TypeOK
<1>5. Iterating'
  BY <1>1 DEF LoopInv, Iterating
<1>6. Screened'
  <2>1. phase' \notin {"idle", "batch", "save"}
    OBVIOUS
  <2>2. mode # "interactive" /\ HasGate => executed' \subseteq Greens
    BY <1>3 DEF LoopInv, Screened
  <2> QED
    BY <1>1, <2>1, <2>2 DEF LoopInv, Screened
<1>7. Checkpointed'
  BY <1>1 DEF LoopInv, Checkpointed
<1> QED
  BY <1>4, <1>5, <1>6, <1>7 DEF LoopInv

LEMMA AutopilotStarts == LoopInv /\ StartAutopilot => LoopInv'
<1> SUFFICES ASSUME LoopInv, StartAutopilot PROVE LoopInv'
  OBVIOUS
<1> DEFINE n == Smaller(MaxIterations, MAX_ITERATIONS_CAP)
<1>1. /\ phase = "idle" /\ phase' = "check" /\ mode' = "autopilot" /\ now' \in Clock
      /\ indices' = [i \in 1..n |-> NoTicket]
      /\ UNCHANGED <<bypass, queue, batch, partial, paid, graded, index, round, window,
                     executed, crashes>>
  BY DEF StartAutopilot
<1>2. n \in Nat
  BY LoopConfiguration DEF Smaller
<1> HIDE DEF n
<1>3. indices' \in Seq(Ticket \union {NoTicket}) /\ Len(indices') = n
  BY <1>1, <1>2
<1>4. index = 1 /\ executed = {}
  BY <1>1 DEF LoopInv, Iterating, Screened
<1>5. TypeOK'
  BY <1>1, <1>2, <1>3, <1>4 DEF LoopInv, TypeOK, Mode
<1>6. Iterating' /\ Screened'
  BY <1>1 DEF Iterating, Screened, HasGate
<1>7. Checkpointed'
  BY <1>1 DEF LoopInv, Checkpointed
<1> QED
  BY <1>5, <1>6, <1>7 DEF LoopInv

LEMMA DevLoopStarts ==
  ASSUME LoopInv, NEW q \in Queues, NEW m \in Mode \ {"autopilot"},
         NEW isBypass \in BOOLEAN, NEW resume \in BOOLEAN,
         StartDevLoop(q, m, isBypass, resume)
  PROVE  LoopInv'
<1>1. /\ phase = "idle" /\ mode' = m /\ bypass' = isBypass /\ queue' = q /\ now' \in Clock
      /\ UNCHANGED <<partial, index, round, window, executed, crashes>>
  BY DEF StartDevLoop
<1>2. index = 1 /\ executed = {} /\ q \in Seq(Ticket)
  BY <1>1, LoopConfiguration DEF LoopInv, Iterating, Screened
<1>3. partial \in Verdicts /\ graded \in Verdicts
  BY DEF LoopInv, TypeOK
<1>4. CASE m # "interactive" /\ ~isBypass
  <2>1. /\ phase' = "batch" /\ indices' = <<>>
        /\ graded' = [t \in Ticket |-> IF resume /\ t \in BatchOf(q) THEN partial[t] ELSE "none"]
        /\ batch' = q /\ paid' = (IF resume /\ q = batch THEN paid ELSE {})
    BY <1>4 DEF StartDevLoop
  <2>2. graded' \in Verdicts
    BY <1>3, <2>1 DEF Verdicts
  <2>3. TypeOK'
    <3>1. index' \in 1..(Len(indices') + 1)
      BY <1>1, <1>2, <2>1, EmptyQueue
    <3>2. indices' \in Seq(Ticket \union {NoTicket})
      BY <2>1, EmptyQueue
    <3>3. batch' \in Seq(Ticket) /\ paid' \in SUBSET Ticket
      BY <1>2, <2>1 DEF LoopInv, TypeOK
    <3> QED
      BY <1>1, <1>2, <2>1, <2>2, <3>1, <3>2, <3>3 DEF LoopInv, TypeOK
  <2>4. Iterating' /\ Screened'
    BY <1>1, <1>2, <2>1, EmptyQueue DEF Iterating, Screened
  <2>5. Checkpointed'
    <3>1. \A t \in Ticket :
            graded'[t] = IF resume /\ t \in BatchOf(q) THEN partial[t] ELSE "none"
      BY <2>1
    <3>2. \A t \in Ticket : graded'[t] # "none" => partial'[t] = graded'[t]
      BY <1>1, <3>1
    <3>3. CASE resume /\ q = batch
      <4>1. /\ paid' = paid /\ batch' = q /\ queue' = q /\ partial' = partial
            /\ paid \subseteq BatchOf(q) /\ BatchOf(q) \subseteq Ticket
            /\ {t \in paid : partial[t] = "none"} \subseteq FirstUngraded(q, partial)
        BY <1>1, <2>1, <3>3 DEF LoopInv, Checkpointed, BatchOf
      <4>2. \A t \in BatchOf(q) : graded'[t] = partial[t]
        BY <3>1, <3>3, <4>1
      <4>3. {t \in paid : graded'[t] = "none"} \subseteq FirstUngraded(q, graded')
        BY <4>1, <4>2 DEF FirstUngraded
      <4> QED
        BY <2>1, <3>2, <4>1, <4>3 DEF Checkpointed
    <3>4. CASE ~(resume /\ q = batch)
      <4>1. paid' = {} /\ batch' = q /\ queue' = q /\ phase' = "batch"
        BY <1>1, <2>1, <3>4
      <4> QED
        BY <3>2, <4>1 DEF Checkpointed
    <3> QED
      BY <3>3, <3>4
  <2> QED
    BY <2>3, <2>4, <2>5 DEF LoopInv
<1>5. CASE ~(m # "interactive" /\ ~isBypass)
  <2>1. phase' = "check" /\ indices' = Capped(q) /\ UNCHANGED <<graded, batch, paid>>
    BY <1>5 DEF StartDevLoop
  <2>2. indices' \in Seq(Ticket) /\ Len(indices') \in Nat
    BY <1>2, <2>1, CappedIsPart
  <2>3. TypeOK'
    <3>1. index' \in 1..(Len(indices') + 1)
      BY <1>1, <1>2, <2>2
    <3>2. indices' \in Seq(Ticket \union {NoTicket})
      BY <2>2
    <3> QED
      BY <1>1, <1>2, <2>1, <3>1, <3>2 DEF LoopInv, TypeOK
  <2>4. Iterating' /\ Screened'
    BY <1>1, <1>2, <1>5, <2>1, <2>2 DEF Iterating, Screened, HasGate
  <2>5. Checkpointed'
    BY <1>1, <2>1 DEF LoopInv, Checkpointed
  <2> QED
    BY <2>3, <2>4, <2>5 DEF LoopInv
<1> QED
  BY <1>4, <1>5

LEMMA BatchProceeds == LoopInv /\ Proceed => LoopInv'
<1> SUFFICES ASSUME LoopInv, Proceed PROVE LoopInv'
  OBVIOUS
<1>1. /\ phase = "batch" /\ CanProceed /\ phase' = "check" /\ indices' = Capped(Filtered)
      /\ UNCHANGED <<mode, bypass, queue, batch, partial, paid, graded, index, round, now,
                     window, executed, crashes>>
  BY DEF Proceed
<1>2. index = 1 /\ executed = {}
  BY <1>1 DEF LoopInv, Iterating, Screened
<1>3. /\ Filtered \in Seq(Ticket)
      /\ \A k \in 1..Len(Filtered) : Filtered[k] \in greenIds
  BY FilteredIsKept DEF LoopInv, TypeOK
<1> HIDE DEF Filtered
<1>4. /\ indices' \in Seq(Ticket) /\ Len(indices') \in Nat
      /\ \A k \in 1..Len(indices') : indices'[k] \in greenIds
  <2>1. /\ Capped(Filtered) \in Seq(Ticket) /\ Len(Capped(Filtered)) <= Len(Filtered)
        /\ \A i \in 1..Len(Capped(Filtered)) : Capped(Filtered)[i] = Filtered[i]
    BY <1>3, CappedIsPart
  <2> QED
    BY <1>1, <1>3, <2>1
<1>5. greenIds \subseteq Greens /\ ~(mode = "strict" /\ hasReds)
  BY <1>1 DEF CanProceed, greenIds, allGreen, Greens, InBatch, BatchOf
<1>6. UNCHANGED <<HasGate, Greens, hasReds>>
  BY <1>1 DEF HasGate, Greens, hasReds
<1>7. TypeOK'
  <2>1. index' \in 1..(Len(indices') + 1)
    BY <1>1, <1>2, <1>4
  <2>2. indices' \in Seq(Ticket \union {NoTicket})
    BY <1>4
  <2> QED
    BY <1>1, <1>2, <2>1, <2>2 DEF LoopInv, TypeOK
<1>8. Iterating'
  BY <1>1, <1>4 DEF Iterating
<1>9. Screened'
  BY <1>1, <1>2, <1>4, <1>5, <1>6 DEF Screened
<1>10. Checkpointed'
  BY <1>1 DEF LoopInv, Checkpointed
<1> QED
  BY <1>7, <1>8, <1>9, <1>10 DEF LoopInv

(* A grade comes back for the first ticket that has none. *)
LEMMA GradeComes ==
  ASSUME LoopInv, NEW t \in Ticket, NEW colour \in Colour, Grade(t, colour)
  PROVE  LoopInv'
<1>1. /\ phase = "batch" /\ phase' = "save" /\ graded' = [graded EXCEPT ![t] = colour]
      /\ paid' = paid \union {t}
      /\ t \in toGrade /\ Before(queue, t) \intersect toGrade = {}
      /\ UNCHANGED <<mode, bypass, queue, indices, batch, partial, index, round, now, window,
                     executed, crashes>>
  BY DEF Grade, loopVars
<1>2. graded' \in Verdicts
  BY <1>1 DEF LoopInv, TypeOK, Verdicts
<1>3. TypeOK'
  BY <1>1, <1>2 DEF LoopInv, TypeOK
<1>4. Iterating' /\ Screened'
  BY <1>1 DEF LoopInv, Iterating, Screened, HasGate
<1>5. Checkpointed'
  <2>1. /\ paid \subseteq BatchOf(queue) /\ batch = queue /\ queue \in Seq(Ticket)
        /\ {u \in paid : partial[u] = "none"} \subseteq FirstUngraded(queue, partial)
        /\ \A u \in Ticket : graded[u] # "none" => partial[u] = graded[u]
        /\ {u \in paid : graded[u] = "none"} \subseteq FirstUngraded(queue, graded)
        /\ graded \in Verdicts
    BY <1>1 DEF LoopInv, Checkpointed, TypeOK
  <2>2. BatchOf(queue) \subseteq Ticket
    BY DEF BatchOf
  <2>3. t \in FirstUngraded(queue, graded)
    BY <1>1 DEF FirstUngraded, toGrade, InBatch
  <2>4. {u \in paid : graded[u] = "none"} \subseteq {t}
    BY <2>1, <2>3, OneIsFirst
  <2>5. \A u \in paid' : graded'[u] # "none"
    BY <1>1, <2>1, <2>2, <2>4 DEF Verdicts, Colour
  <2>6. partial[t] = "none" => t \in FirstUngraded(queue, partial)
    BY <2>1, <2>2, <2>3 DEF FirstUngraded
  <2>7. {u \in paid' : partial[u] = "none"} \subseteq FirstUngraded(queue, partial)
    BY <1>1, <2>1, <2>6
  <2>8. paid' \subseteq BatchOf(queue)
    BY <1>1, <2>1, <2>3 DEF FirstUngraded
  <2> QED
    BY <1>1, <2>1, <2>5, <2>7, <2>8 DEF Checkpointed
<1> QED
  BY <1>3, <1>4, <1>5 DEF LoopInv

(* It is saved, with all that came before. *)
LEMMA GradeSaved ==
  ASSUME LoopInv, Checkpoint
  PROVE  LoopInv'
<1>1. /\ phase = "save" /\ phase' = "batch" /\ partial' = graded
      /\ UNCHANGED <<mode, bypass, queue, indices, batch, paid, graded, index, round, now,
                     window, executed, crashes>>
  BY DEF Checkpoint, loopVars
<1>2. TypeOK'
  BY <1>1 DEF LoopInv, TypeOK
<1>3. Iterating' /\ Screened'
  BY <1>1 DEF LoopInv, Iterating, Screened, HasGate, Greens, hasReds
<1>4. Checkpointed'
  <2>1. \A t \in paid : graded[t] # "none"
    BY <1>1 DEF LoopInv, Checkpointed
  <2>2. paid \subseteq BatchOf(batch) /\ batch = queue
    BY <1>1 DEF LoopInv, Checkpointed
  <2> QED
    BY <1>1, <2>1, <2>2 DEF Checkpointed
<1> QED
  BY <1>2, <1>3, <1>4 DEF LoopInv

LEMMA NextLoop == LoopInv /\ [Next]_vars => LoopInv'
<1> SUFFICES ASSUME LoopInv, [Next]_vars PROVE LoopInv'
  OBVIOUS
<1>1. /\ index \in 1..(Len(indices) + 1) /\ Len(indices) \in Nat
      /\ round \in 0..(MaxRounds - 1) /\ now \in Clock /\ window \in Windows
      /\ crashes \in Nat /\ MaxRounds \in Nat \ {0}
  BY LoopConfiguration DEF LoopInv, TypeOK
<1>2. ASSUME NEW t \in Ticket, NEW colour \in Colour, Grade(t, colour) PROVE LoopInv'
  BY <1>2, GradeComes
<1>3. CASE HaltBatch
  BY <1>1, <1>3, LoopGone DEF HaltBatch
<1>4. CASE QuietCheck
  <2>1. now' \in Clock
    BY <1>1, <1>4, WakesOutside DEF QuietCheck
  <2> QED
    BY <1>1, <1>4, <2>1, NoRounds, Iterates DEF QuietCheck, loopVars
<1>5. CASE GatePasses
  <2>1. HasGate /\ mode # "autopilot" /\ index <= Len(indices)
    BY <1>5 DEF GatePasses, LoopInv, Iterating, HasGate
  <2> QED
    BY <1>1, <1>5, <2>1, Iterates DEF GatePasses
<1>6. CASE GateRetries
  <2>1. HasGate /\ index <= Len(indices)
    BY <1>6 DEF GateRetries, LoopInv, Iterating
  <2> QED
    BY <1>1, <1>6, <2>1, Iterates DEF GateRetries
<1>7. CASE GateFails
  <2>1. index <= Len(indices)
    BY <1>7 DEF GateFails, LoopInv, Iterating
  <2> QED
    BY <1>1, <1>7, <2>1, Iterates DEF GateFails
<1>8. ASSUME NEW result \in Result, PipelineReturns(result)
      PROVE  LoopInv'
  <2>1. index <= Len(indices)
    BY <1>8 DEF PipelineReturns, LoopInv, Iterating
  <2>2. index' \in 1..(Len(indices) + 1)
    BY <1>1, <1>8, <2>1 DEF PipelineReturns
  <2> QED
    BY <1>1, <1>8, <2>2, Iterates DEF PipelineReturns
<1>9. CASE Finish
  BY <1>1, <1>9, LoopGone DEF Finish
<1>10. CASE Crash
  BY <1>1, <1>10, LoopGone DEF Crash
<1>11. CASE UNCHANGED vars
  BY <1>11 DEF vars, loopVars, LoopInv, TypeOK, Iterating, Screened, Checkpointed,
     HasGate, Greens, hasReds
<1>12. CASE Checkpoint
  BY <1>12, GradeSaved
<1>13. CASE CheckpointThrows
  BY <1>1, <1>13, LoopGone DEF CheckpointThrows
<1> QED
  BY <1>2, <1>3, <1>4, <1>5, <1>6, <1>7, <1>8, <1>9, <1>10, <1>11, <1>12, <1>13,
     AutopilotStarts, DevLoopStarts, BatchProceeds
  DEF Next, Start, OwnStep, Answer

LEMMA LoopAlways == Spec => []LoopInv
BY InitLoop, NextLoop, PTL DEF Spec

(* No iteration of either loop starts in quiet hours. *)
THEOREM QuietRespectedAlways == Spec => QuietRespected
<1>1. ASSUME LoopInv, [Next]_vars, phase = "check", phase' \in {"gate", "pipeline"}
      PROVE  ~InQuietHours(window, now') \/ UNCHANGED vars
  <2>1. CASE QuietCheck
    <3>1. now' = After(now, getQuietSleepMs(window, now))
      BY <2>1 DEF QuietCheck
    <3> QED
      BY <1>1, <3>1, WakesOutside, WindowIsCircular DEF LoopInv, TypeOK
  <2>2. CASE ~QuietCheck
    BY <1>1, <2>2
    DEF Next, Start, OwnStep, Answer, StartAutopilot, StartDevLoop, Grade, Checkpoint,
        CheckpointThrows, Proceed, HaltBatch, GatePasses, GateRetries, GateFails,
        PipelineReturns, Finish, Crash, EndLoop
  <2> QED
    BY <2>1, <2>2
<1>2. LoopInv /\ [Next]_vars =>
        [phase = "check" /\ phase' \in {"gate", "pipeline"} => ~InQuietHours(window, now')]_vars
  BY <1>1
<1> QED
  BY <1>2, InitLoop, NextLoop, PTL DEF Spec, QuietRespected

(* However often a batch is killed and resumed, one grade at most of those *)
(* that came back for it is not in the checkpoint.                         *)
THEOREM OneGradeAtStakeAlways == Spec => []OneGradeAtStake
<1>1. LoopInv => OneGradeAtStake
  <2> SUFFICES ASSUME LoopInv PROVE OneGradeAtStake
    OBVIOUS
  <2> DEFINE missing == {t \in paid : partial[t] = "none"}
  <2>1. missing \subseteq FirstUngraded(batch, partial) /\ batch \in Seq(Ticket)
    BY DEF LoopInv, Checkpointed, TypeOK
  <2>2. \A t, u \in missing : t = u
    BY <2>1, OneIsFirst
  <2> HIDE DEF missing
  <2>3. missing = {} \/ \E t : missing = {t}
    BY <2>2
  <2>4. Cardinality(missing) <= 1
    <3>1. missing = {} => Cardinality(missing) = 0
      BY FS_EmptySet
    <3>2. (\E t : missing = {t}) => Cardinality(missing) = 1
      BY FS_Singleton
    <3> QED
      BY <2>3, <3>1, <3>2
  <2> QED
    BY <2>4 DEF missing, OneGradeAtStake
<1> QED
  BY <1>1, LoopAlways, PTL

(* The loop's state has its type: the iteration it is in is one of those   *)
(* there are or the end, and the gate's rounds stay below their number.    *)
THEOREM LoopTyped == Spec => []TypeOK
<1>1. LoopInv => TypeOK
  BY DEF LoopInv
<1> QED
  BY <1>1, LoopAlways, PTL

(* The pipeline is started by an AFK loop only for tickets that the batch  *)
(* graded green, and by a strict one for none if one was red.              *)
THEOREM OnlyGreenRunsAlways == Spec => []OnlyGreenRuns
<1>1. LoopInv => OnlyGreenRuns
  <2> SUFFICES ASSUME LoopInv, mode # "interactive", HasGate
               PROVE  executed \subseteq Greens /\ (mode = "strict" /\ hasReds => executed = {})
    BY DEF OnlyGreenRuns
  <2>1. executed \subseteq Greens
    BY DEF LoopInv, Screened
  <2>2. mode = "strict" /\ hasReds => executed = {}
    BY DEF LoopInv, Screened, TypeOK
  <2> QED
    BY <2>1, <2>2
<1> QED
  BY <1>1, LoopAlways, PTL

=============================================================================
