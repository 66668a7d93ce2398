----------------------------- MODULE LowBattery -----------------------------
(***************************************************************************)
(* The low battery indication (indicator.c): the key at LOW_BAT_IND_INDEX  *)
(* blinks LOW_BAT_LED_BLINK_TIMES times when the battery is found empty    *)
(* and when a key is pressed with it, but not more often than once in      *)
(* LOW_BAT_LED_TRIG_INTERVAL, unless it was turned off in between.  The    *)
(* interval is taken from the real time clock, which counts on in stop     *)
(* mode and starts again at 0 every day.                                   *)
(*                                                                         *)
(* An indication that is running keeps lpm_task from entering low power.   *)
(* rtc_timer_clear is left out: the clock never exceeds RTC_MAX_TIME, the  *)
(* length of a day.                                                        *)
(***************************************************************************)
EXTENDS Naturals, FiniteSetsExt

CONSTANTS
    DAY,                        \* how long the clock counts
    LOW_BAT_LED_TRIG_INTERVAL,
    LOW_BAT_LED_BLINK_TIMES

ASSUME DayAssumption ==
    /\ LOW_BAT_LED_TRIG_INTERVAL \in Nat /\ LOW_BAT_LED_BLINK_TIMES \in 1 .. 14
    /\ DAY \in Nat /\ DAY > LOW_BAT_LED_TRIG_INTERVAL + 1

VARIABLES
    rtc,                \* rtc_timer_read_ms()
    rtc_time,
    bat_low_ind_state,  \* its low bits, the number of the blink, and bit 7, lit
    \* history, read by the properties only
    since,              \* time since the last start, up to the interval and one
                        \* more, which also stands for no start since the reset
    midnight,           \* the clock showed 0 at the last start
    turned_off          \* turned off since the last start, or never started

lowBatVars == <<rtc, rtc_time, bat_low_ind_state, since, midnight, turned_off>>

Idle == [blink |-> 0, lit |-> FALSE]
Long == LOW_BAT_LED_TRIG_INTERVAL + 1

LowBatInit ==
    /\ rtc = 0 /\ rtc_time = 0
    /\ bat_low_ind_state = Idle
    /\ since = Long
    /\ midnight = FALSE /\ turned_off = TRUE

\* Time passes: LOW_BAT_LED_BLINK_PERIOD, the unit of the clock here.
Elapse ==
    /\ rtc' = (rtc + 1) % DAY
    /\ since' = IF since = Long THEN since ELSE since + 1

\* Mutant of CheckOverflow: the clock is trusted to count on.
CheckOverflowNone == rtc_time

\* What becomes of rtc_time after the clock has started again.  While an
\* indication is running every key adds to it: anything above a day, far below
\* 2^32, is kept as a day.
CheckOverflow ==
    IF rtc_time <= rtc THEN rtc_time
    ELSE IF bat_low_ind_state = Idle THEN rtc ELSE Min({rtc_time + rtc, DAY})

\* t - rtc_time > LOW_BAT_LED_TRIG_INTERVAL for unsigned numbers
IntervalOver(r) == r > rtc \/ rtc - r > LOW_BAT_LED_TRIG_INTERVAL

\* Indicating at first time or after the interval
IndicationDue(r) == (r = 0 \/ IntervalOver(r)) /\ bat_low_ind_state = Idle

\* indicator_battery_low_backlit_enable(true)
Enable ==
    /\ \/ /\ IndicationDue(CheckOverflow)
          /\ rtc_time' = rtc
          /\ bat_low_ind_state' = [blink |-> 1, lit |-> FALSE]
          /\ since' = 0
          /\ midnight' = (rtc = 0) /\ turned_off' = FALSE
       \/ /\ ~IndicationDue(CheckOverflow)
          /\ rtc_time' = CheckOverflow
          /\ UNCHANGED <<bat_low_ind_state, since, midnight, turned_off>>
    /\ UNCHANGED rtc

\* indicator_battery_low_backlit_enable(false): the connection has ended, the module
\* went to sleep from pairing, the battery is critical, or the cable was plugged in
Disable ==
    /\ rtc_time' = 0
    /\ bat_low_ind_state' = Idle
    /\ turned_off' = TRUE
    /\ UNCHANGED <<rtc, since, midnight>>

\* indicator_battery_low, a period after the last change
Blink ==
    /\ bat_low_ind_state.blink \in 1 .. LOW_BAT_LED_BLINK_TIMES
    /\ bat_low_ind_state' =
         IF bat_low_ind_state.lit
           THEN [blink |-> bat_low_ind_state.blink + 1, lit |-> FALSE]
           ELSE [bat_low_ind_state EXCEPT !.lit = TRUE]
    /\ Elapse
    /\ UNCHANGED <<rtc_time, midnight, turned_off>>

\* indicator_battery_low in the next round of the loop after the last blink
EndBlinking ==
    /\ bat_low_ind_state.blink > LOW_BAT_LED_BLINK_TIMES
    /\ bat_low_ind_state' = Idle
    /\ UNCHANGED <<rtc, rtc_time, since, midnight, turned_off>>

RtcTick == Elapse /\ UNCHANGED <<rtc_time, bat_low_ind_state, midnight, turned_off>>

LowBatNext == Enable \/ Disable \/ Blink \/ EndBlinking \/ RtcTick

LowBatSpec == LowBatInit /\ [][LowBatNext]_lowBatVars

-----------------------------------------------------------------------------
\* Properties.

\* The blink number fits the four bits it is masked with and the clock its day.
LowBatTypeOK ==
    /\ rtc \in 0 .. DAY - 1 /\ rtc_time \in 0 .. DAY
    /\ bat_low_ind_state \in [blink : 0 .. LOW_BAT_LED_BLINK_TIMES + 1, lit : BOOLEAN]
    /\ since \in 0 .. Long /\ midnight \in BOOLEAN /\ turned_off \in BOOLEAN

Starts == bat_low_ind_state = Idle /\ bat_low_ind_state' # Idle

\* The battery does not blink more often than once in the interval, over midnight
\* too, with two exceptions: the indication was turned off since the last start
\* (indicator.c 570, after which the next start counts as the first), or the clock
\* shows exactly 0 now or did so at the last start.
NotTooOften ==
    [][Starts => since = Long \/ turned_off \/ rtc = 0 \/ midnight]_lowBatVars
=============================================================================
