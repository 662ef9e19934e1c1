----------------------------- MODULE QuietHours -----------------------------
(***************************************************************************)
(* The quiet-hours arithmetic of queue.ts, over a clock of minutes of the  *)
(* day and milliseconds of the minute.  A window is <<>> when it is not    *)
(* configured, or when parseTime rejects one of its ends; otherwise it is  *)
(* <<start, end>>, two minutes of the day, which may wrap past midnight.   *)
(***************************************************************************)
EXTENDS Integers

CONSTANTS
  Day,     \* minutes in a day (24 * 60)
  Minute   \* milliseconds in a minute (60_000)

ASSUME Units == Day \in Nat \ {0} /\ Minute \in Nat \ {0}

Time == 0..(Day - 1)
Windows == {<<>>} \union (Time \X Time)
Clock == [min : Time, ms : 0..(Minute - 1)]

isInQuietWindow_noWrap(nowMin, startMin, endMin) ==
  nowMin >= startMin /\ nowMin < endMin

isInQuietWindow(nowMin, startMin, endMin) ==
  IF startMin = endMin THEN FALSE
  ELSE IF startMin < endMin THEN nowMin >= startMin /\ nowMin < endMin
  ELSE nowMin >= startMin \/ nowMin < endMin

minutesUntilEnd_noWrap(nowMin, endMin) ==
  IF endMin > nowMin THEN endMin - nowMin ELSE 0

minutesUntilEnd(nowMin, endMin) ==
  IF endMin - nowMin <= 0 THEN endMin - nowMin + Day ELSE endMin - nowMin

isQuiet(window, now) ==
  window # <<>> /\ isInQuietWindow(now.min, window[1], window[2])

AtLeastZero(d) == IF d < 0 THEN 0 ELSE d

getQuietSleepMs(window, now) ==
  IF isQuiet(window, now)
  THEN AtLeastZero(minutesUntilEnd(now.min, window[2]) * Minute - now.ms)
  ELSE 0

(* The clock d milliseconds later. *)
After(now, d) ==
  LET ms == now.min * Minute + now.ms + d
  IN  [min |-> (ms \div Minute) % Day, ms |-> ms % Minute]
(* What a quiet window means: counted round the clock from its start, the  *)
(* time comes before its end. *)
InQuietHours(window, now) ==
  /\ window # <<>>
  /\ (now.min - window[1]) % Day < (window[2] - window[1]) % Day
=============================================================================
