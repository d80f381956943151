---------------------------- MODULE IntervalTimer ----------------------------
(***************************************************************************)
(* The timers of src/gamecube.c: one paces the rumble reports, and four    *)
(* watch for ports that answer nothing.  They compare readings of a clock  *)
(* of 32 bits that starts over every 71 minutes.  One timer is modelled:   *)
(* each pass of the main loop reads the clock and asks it once.            *)
(***************************************************************************)
EXTENDS Integers

CONSTANTS
  W,           \* the clock counts modulo W: 2^32
  Period,      \* the interval asked for
  MaxPass      \* the longest time between two passes of the main loop

\* 16 ms and 100 ms; no pass takes an hour.
ASSUME TimerAssumption ==
  /\ W \in Nat /\ Period \in Nat \ {0} /\ MaxPass \in Nat \ {0}
  /\ Period + MaxPass < W

VARIABLES
  clock,       \* time_us_32()
  last_time,   \* interval_s
  fired,       \* what the last call returned; "none" before the first
  since        \* history: the time the last call had to judge

timerVars == <<clock, last_time, fired, since>>

\* The statics are zero, and the main loop starts some time after the clock.
TimerInit ==
  /\ clock \in 0 .. W - 1 - MaxPass
  /\ last_time = 0
  /\ fired = "none"
  /\ since = clock

\* The clock has started over when the reading is the smaller one.
Elapsed_NoWrap(last, this) == IF this < last THEN 0 ELSE this - last
Elapsed_OffByW(last, this) == IF this < last THEN W - last + this + 1 ELSE this - last
Elapsed(last, this) ==
  IF this < last THEN (W - 1 - last) + this ELSE this - last

\* Two equal readings are no time, whatever the interval.
Expired(last, this) == this # last /\ Elapsed(last, this) >= Period

\* d passes between two calls, and the clock goes on.
Reading_NoWrap(d) == clock + d
Reading(d) == (clock + d) % W

\* Bound on the history; a timer that fires never comes near it.
Capped(time) == IF time < W THEN time ELSE W - 1

interval_run(d) ==
  LET this == Reading(d)
      expired == Expired(last_time, this)
  IN /\ clock' = this
     /\ fired' = IF expired THEN "yes" ELSE "no"
     /\ last_time' = IF expired THEN this ELSE last_time
     /\ since' = IF fired = "yes" THEN d ELSE Capped(since + d)

\* interval_resettable_run with reset set; without it, it is interval_run.
Restart(d) ==
  /\ clock' = Reading(d)
  /\ fired' = "no"
  /\ last_time' = Reading(d)
  /\ since' = 0

TimerNext == \E d \in 0 .. MaxPass : interval_run(d) \/ Restart(d)

TimerSpec == TimerInit /\ [][TimerNext]_timerVars

\* The main loop goes on, and its passes take time.
FairTimerSpec ==
  TimerSpec /\ WF_timerVars(\E d \in 1 .. MaxPass : interval_run(d) \/ Restart(d))

-----------------------------------------------------------------------------
TimerTypeOK ==
  /\ clock \in 0 .. W - 1
  /\ last_time \in 0 .. W - 1
  /\ fired \in {"none", "yes", "no"}
  /\ since \in 0 .. W - 1

\* However often the clock started over, the timer fires only when its interval
\* has passed, gamecube.c:66-72 and 104-110: a port is restarted after 100 ms
\* without an answer, never between two polls.
NeverEarly == fired = "yes" => since >= Period

\* A pass that finds more than the interval gone never leaves the timer running:
\* the tick lost where the clock starts over, gamecube.c:58, is all it is late by.
NeverMissed == fired = "no" => since <= Period

\* A timer that is no longer restarted fires again and again, whatever the
\* readings it meets, the one equal to last_time included.
Restarts == \E d \in 0 .. MaxPass : Restart(d)
FiresAgain == <>[][~Restarts]_timerVars => []<>(fired = "yes")
=============================================================================
