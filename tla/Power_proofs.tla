---------------------------- MODULE Power_proofs ----------------------------
(***************************************************************************)
(* Proofs about Battery, LowBattery and Lpm, for all thresholds, counts,   *)
(* intervals and pins that the assumptions of the three modules allow, and *)
(* for MCPower, whose behaviours are behaviours of each of the three.      *)
(***************************************************************************)
EXTENDS MCPower, TLAPS

-----------------------------------------------------------------------------
\* The battery monitor.

USE VoltageAssumption, CountAssumption

\* Every check that counts for critical also counts for empty, and the cable
\* clears both: the counter for critical is ahead only when the other is full.
CountersInStep == critical_low <= bat_empty \/ battery_is_empty

\* A full counter turned the indicator on.
FullCounterWarned == battery_is_empty => warned

\* BatteryTypeOK in two parts: the numbers and the flags.
Numbers ==
    /\ voltage \in Voltages \cup {FULL_VOLTAGE_VALUE}
    /\ bat_empty \in 0 .. BATTERY_EMPTY_COUNT + 1
    /\ critical_low \in 0 .. CRITICAL_LOW_COUNT + 1
    /\ power_on_sample \in 0 .. VOLTAGE_POWER_ON_MEASURE_COUNT
    /\ elapsed \in 0 .. 2
Flags ==
    /\ wireless \in BOOLEAN /\ connected \in BOOLEAN /\ backlight \in BOOLEAN
    /\ cable \in BOOLEAN /\ asked \in BOOLEAN /\ warned \in BOOLEAN

BInv == BatteryTypeOK /\ CountersInStep /\ FullCounterWarned

(* BatteryTypeOK is its two parts, before and after a step.                  *)
LEMMA TypeParts == (BatteryTypeOK <=> Numbers /\ Flags) /\ (BatteryTypeOK' <=> Numbers' /\ Flags')
  BY DEF BatteryTypeOK, Numbers, Flags

(* The counters start at 0.                                                 *)
LEMMA InitBInv == BatteryInit => BInv
  <1> SUFFICES ASSUME BatteryInit PROVE BInv
    OBVIOUS
  <1>1. Numbers
    BY DEF BatteryInit, Numbers
  <1>2. Flags
    BY DEF BatteryInit, Flags
  <1>3. bat_empty = 0 /\ critical_low = 0
    BY DEF BatteryInit
  <1>4. CountersInStep /\ FullCounterWarned
    BY <1>3 DEF CountersInStep, FullCounterWarned, battery_is_empty
  <1> QED BY <1>1, <1>2, <1>4, TypeParts DEF BInv

(* battery_check_empty and battery_check_critical_low keep their counters   *)
(* in range and in step.                                                    *)
LEMMA Counts ==
  ASSUME Numbers, CountersInStep
  PROVE  /\ EmptyCount \in 0 .. BATTERY_EMPTY_COUNT + 1
         /\ CriticalCount \in 0 .. CRITICAL_LOW_COUNT + 1
         /\ CriticalCount <= EmptyCount \/ EmptyCount > BATTERY_EMPTY_COUNT
  <1>1. voltage \in Nat
    BY DEF Numbers
  <1> QED BY <1>1 DEF Numbers, CountersInStep, battery_is_empty, EmptyCount, CriticalCount

(* One call of battery_task that samples.                                   *)
LEMMA CheckBInv == BInv /\ Check => BInv'
  <1> SUFFICES ASSUME BInv, Check PROVE BInv'
    OBVIOUS
  <1>1. Numbers /\ Flags /\ CountersInStep /\ FullCounterWarned
    BY TypeParts DEF BInv
  <1>2. /\ EmptyCount \in 0 .. BATTERY_EMPTY_COUNT + 1
        /\ CriticalCount \in 0 .. CRITICAL_LOW_COUNT + 1
        /\ CriticalCount <= EmptyCount \/ EmptyCount > BATTERY_EMPTY_COUNT
    BY <1>1, Counts
  <1>3. \/ bat_empty' = 0 /\ critical_low' = 0
        \/ bat_empty' = EmptyCount /\ critical_low' = CriticalCount
    BY DEF Check
  <1>4. /\ bat_empty' \in 0 .. BATTERY_EMPTY_COUNT + 1
        /\ critical_low' \in 0 .. CRITICAL_LOW_COUNT + 1
        /\ critical_low' <= bat_empty' \/ bat_empty' > BATTERY_EMPTY_COUNT
    BY <1>2, <1>3
  <1>5. power_on_sample' \in 0 .. VOLTAGE_POWER_ON_MEASURE_COUNT
    BY <1>1 DEF Check, Measure, Numbers
  <1>6. voltage' = voltage /\ elapsed' = 0
    BY DEF Check
  <1>7. Numbers'
    BY <1>1, <1>4, <1>5, <1>6 DEF Numbers
  <1>8. Flags'
    BY <1>1 DEF Check, Measure, world, Flags
  <1>9. CountersInStep'
    BY <1>4 DEF CountersInStep, battery_is_empty
  <1>10. FullCounterWarned'
    <2>1. CASE cable
      <3>1. bat_empty' = 0
        BY <2>1 DEF Check
      <3> QED BY <3>1 DEF FullCounterWarned, battery_is_empty
    <2>2. CASE ~cable
      <3>1. SUFFICES ASSUME bat_empty' > BATTERY_EMPTY_COUNT PROVE warned'
        BY DEF FullCounterWarned, battery_is_empty
      <3>2. EmptyCount > BATTERY_EMPTY_COUNT
        BY <2>2, <3>1 DEF Check
      <3>3. bat_empty <= BATTERY_EMPTY_COUNT \/ bat_empty > BATTERY_EMPTY_COUNT
        BY <1>1 DEF Numbers
      <3>4. Warns \/ battery_is_empty
        BY <3>2, <3>3 DEF Warns, battery_is_empty
      <3>5. Warns \/ warned
        BY <1>1, <3>4 DEF FullCounterWarned
      <3>6. warned' = (~cable /\ (warned \/ Warns))
        BY DEF Check
      <3> QED BY <2>2, <3>5, <3>6
    <2> QED BY <2>1, <2>2
  <1> QED BY <1>7, <1>8, <1>9, <1>10, TypeParts DEF BInv

(* Everything else leaves the counters alone or clears both.                *)
LEMMA NextBInv == BInv /\ [BatteryNext]_batteryVars => BInv'
  <1> SUFFICES ASSUME BInv, [BatteryNext]_batteryVars PROVE BInv'
    OBVIOUS
  <1>1. Numbers /\ Flags /\ CountersInStep /\ FullCounterWarned
    BY TypeParts DEF BInv
  <1>2. CASE Check
    BY <1>2, CheckBInv
  <1>3. CASE ClearOnCable
    <2>1. Numbers'
      BY <1>1, <1>3 DEF ClearOnCable, Numbers
    <2>2. Flags'
      BY <1>1, <1>3 DEF ClearOnCable, world, Flags
    <2>3. bat_empty' = 0 /\ critical_low' = 0
      BY <1>3 DEF ClearOnCable
    <2>4. CountersInStep' /\ FullCounterWarned'
      BY <2>3 DEF CountersInStep, FullCounterWarned, battery_is_empty
    <2> QED BY <2>1, <2>2, <2>4, TypeParts DEF BInv
  <1>4. ASSUME Numbers', Flags', UNCHANGED <<bat_empty, critical_low, warned>>
        PROVE  BInv'
    <2>1. CountersInStep' /\ FullCounterWarned'
      BY <1>1, <1>4 DEF CountersInStep, FullCounterWarned, battery_is_empty
    <2> QED BY <1>4, <2>1, TypeParts DEF BInv
  <1>5. ASSUME NEW v, v \in Voltages, Deliver(v) PROVE BInv'
    <2>1. Numbers'
      BY <1>1, <1>5 DEF Deliver, Numbers
    <2>2. Flags'
      BY <1>1, <1>5 DEF Deliver, world, Flags
    <2> QED BY <1>4, <1>5, <2>1, <2>2 DEF Deliver
  <1>6. CASE DeliverNothing \/ BatteryTick \/ Around \/ UNCHANGED batteryVars
    <2>1. Numbers'
      <3>1. UNCHANGED <<voltage, bat_empty, critical_low, power_on_sample>>
        BY <1>6 DEF DeliverNothing, BatteryTick, Around, batteryVars
      <3>2. elapsed' = elapsed \/ (elapsed < 2 /\ elapsed' = elapsed + 1)
        BY <1>6 DEF DeliverNothing, BatteryTick, Around, batteryVars
      <3> QED BY <1>1, <3>1, <3>2 DEF Numbers
    <2>2. Flags'
      BY <1>1, <1>6 DEF DeliverNothing, BatteryTick, Around, batteryVars, world, Flags
    <2>3. UNCHANGED <<bat_empty, critical_low, warned>>
      BY <1>6 DEF DeliverNothing, BatteryTick, Around, batteryVars
    <2> QED BY <1>4, <2>1, <2>2, <2>3
  <1> QED BY <1>2, <1>3, <1>5, <1>6 DEF BatteryNext

(* The radio is never turned off for a critical battery before the low      *)
(* battery indicator was turned on (battery_check_empty and                 *)
(* battery_check_critical_low), whatever the counts and thresholds.         *)
THEOREM WarningComesFirst == BatterySpec => [](BatteryTypeOK /\ WarnedFirst)
  <1>1. BInv => BatteryTypeOK /\ WarnedFirst
    <2> SUFFICES ASSUME BInv PROVE WarnedFirst
      BY DEF BInv
    <2>1. battery_is_critical_low => battery_is_empty
      BY TypeParts DEF BInv, Numbers, CountersInStep, battery_is_empty,
         battery_is_critical_low
    <2> QED BY <2>1 DEF BInv, FullCounterWarned, WarnedFirst
  <1> QED BY <1>1, InitBInv, NextBInv, PTL DEF BatterySpec

(* A battery found critical stays so until the cable is plugged in, whatever *)
(* voltage the module reports afterwards.                                    *)
THEOREM CriticalLatches == BatterySpec => StaysCritical
  <1>1. BInv /\ [BatteryNext]_batteryVars
        => [battery_is_critical_low /\ ~cable => battery_is_critical_low']_batteryVars
    <2> SUFFICES ASSUME BInv, BatteryNext, battery_is_critical_low, ~cable
                 PROVE  critical_low' = critical_low
      BY DEF battery_is_critical_low
    <2>1. CASE Check
      BY <2>1 DEF Check, CriticalCount, battery_is_critical_low
    <2>2. CASE ClearOnCable
      BY <2>2 DEF ClearOnCable
    <2>3. CASE (\E v \in Voltages : Deliver(v)) \/ DeliverNothing \/ BatteryTick \/ Around
      BY <2>3 DEF Deliver, DeliverNothing, BatteryTick, Around
    <2> QED BY <2>1, <2>2, <2>3 DEF BatteryNext
  <1> QED BY <1>1, InitBInv, NextBInv, PTL DEF BatterySpec, StaysCritical

(* A product grows with its second factor.                                  *)
LEMMA ProductMonotone ==
  ASSUME NEW d \in Nat, NEW x \in Int, NEW y \in Int, x <= y
  PROVE  d * x <= d * y
  OBVIOUS

(* The quotient of a division, rounded down.                                *)
LEMMA Quotient ==
  ASSUME NEW a \in Nat, NEW d \in Nat, d > 0
  PROVE  /\ a \div d \in Int
         /\ d * (a \div d) <= a
         /\ a < d * ((a \div d) + 1)
  OBVIOUS

(* Scaled keeps to 0 .. n and reaches n only at hi: battery_get_percentage   *)
(* rounds down.                                                              *)
LEMMA ScaledRange ==
  ASSUME NEW x \in Nat, NEW lo \in Nat, NEW hi \in Nat, NEW n \in Nat,
         lo <= x, x <= hi, lo < hi, n > 0
  PROVE  /\ Scaled(x, lo, hi, n) \in 0 .. n
         /\ x = hi <=> Scaled(x, lo, hi, n) = n
  <1> DEFINE d == hi - lo
             a == x - lo
             q == (a * n) \div d
  <1>1. a \in Nat /\ d \in Nat /\ d > 0 /\ a <= d /\ (x = hi <=> a = d)
    OBVIOUS
  <1>2. Scaled(x, lo, hi, n) = q
    BY DEF Scaled
  <1> HIDE DEF d, a
  <1>3. a * n \in Nat /\ a * n <= d * n
    BY <1>1, ProductMonotone
  <1>4. q \in Int /\ d * q <= a * n /\ a * n < d * (q + 1)
    BY <1>1, <1>3, Quotient
  <1> HIDE DEF q
  <1>5. q >= 0
    <2> SUFFICES ASSUME q + 1 <= 0 PROVE FALSE
      BY <1>4
    <2>1. d * (q + 1) <= d * 0
      BY <1>1, <1>4, ProductMonotone
    <2> QED BY <1>1, <1>3, <1>4, <2>1
  <1>6. q <= n
    <2> SUFFICES ASSUME n + 1 <= q PROVE FALSE
      BY <1>4
    <2>1. d * (n + 1) <= d * q
      BY <1>1, <1>4, ProductMonotone
    <2> QED BY <1>1, <1>3, <1>4, <2>1
  <1>7. ASSUME a = d PROVE q = n
    <2> SUFFICES ASSUME q + 1 <= n PROVE FALSE
      BY <1>4, <1>6
    <2>1. d * (q + 1) <= d * n
      BY <1>1, <1>4, ProductMonotone
    <2> QED BY <1>1, <1>4, <1>7, <2>1
  <1>8. ASSUME q = n PROVE a = d
    <2> SUFFICES ASSUME a + 1 <= d PROVE FALSE
      BY <1>1
    <2>1. n * (a + 1) <= n * d
      BY <1>1, ProductMonotone
    <2> QED BY <1>1, <1>4, <1>8, <2>1
  <1> QED BY <1>1, <1>2, <1>4, <1>5, <1>6, <1>7, <1>8

(* The two uses of Scaled: the upper part of the curve and the lower one.   *)
LEMMA UpperRange ==
  ASSUME NEW v \in Nat, EMPTY_VOLTAGE_VALUE <= v, v <= FULL_VOLTAGE_VALUE
  PROVE  Scaled(v, EMPTY_VOLTAGE_VALUE, FULL_VOLTAGE_VALUE, 80) \in 0 .. 80
  <1>1. \A n \in Nat : n > 0 => Scaled(v, EMPTY_VOLTAGE_VALUE, FULL_VOLTAGE_VALUE, n) \in 0 .. n
    BY ScaledRange
  <1>2. 80 \in Nat /\ 80 > 0
    OBVIOUS
  <1> QED BY <1>1, <1>2, Zenon

(* The lower part ends at 20 percent, with the voltage of an empty battery. *)
LEMMA LowerRange ==
  ASSUME NEW v \in Nat, SHUTDOWN_VOLTAGE_VALUE <= v, v <= EMPTY_VOLTAGE_VALUE
  PROVE  /\ Scaled(v, SHUTDOWN_VOLTAGE_VALUE, EMPTY_VOLTAGE_VALUE, 20) \in 0 .. 20
         /\ v = EMPTY_VOLTAGE_VALUE
            <=> Scaled(v, SHUTDOWN_VOLTAGE_VALUE, EMPTY_VOLTAGE_VALUE, 20) = 20
  <1>1. \A n \in Nat : n > 0
          => /\ Scaled(v, SHUTDOWN_VOLTAGE_VALUE, EMPTY_VOLTAGE_VALUE, n) \in 0 .. n
             /\ v = EMPTY_VOLTAGE_VALUE
                <=> Scaled(v, SHUTDOWN_VOLTAGE_VALUE, EMPTY_VOLTAGE_VALUE, n) = n
    BY ScaledRange
  <1> QED BY <1>1

(* Scaled never falls when the voltage rises.                               *)
LEMMA ScaledMonotone ==
  ASSUME NEW x \in Nat, NEW y \in Nat, NEW lo \in Nat, NEW hi \in Nat, NEW n \in Nat,
         lo <= x, x <= y, lo < hi
  PROVE  Scaled(x, lo, hi, n) <= Scaled(y, lo, hi, n)
  <1> DEFINE d == hi - lo
             a == x - lo
             b == y - lo
             p == (a * n) \div d
             q == (b * n) \div d
  <1>1. a \in Nat /\ b \in Nat /\ d \in Nat /\ d > 0 /\ a <= b
    OBVIOUS
  <1>2. Scaled(x, lo, hi, n) = p /\ Scaled(y, lo, hi, n) = q
    BY DEF Scaled
  <1> HIDE DEF d, a, b
  <1>3. a * n \in Nat /\ b * n \in Nat /\ a * n <= b * n
    BY <1>1, ProductMonotone
  <1>4. p \in Int /\ d * p <= a * n
    BY <1>1, <1>3, Quotient
  <1>5. q \in Int /\ b * n < d * (q + 1)
    BY <1>1, <1>3, Quotient
  <1> HIDE DEF p, q
  <1>6. SUFFICES ASSUME q + 1 <= p PROVE FALSE
    BY <1>2, <1>4, <1>5
  <1>7. d * (q + 1) <= d * p
    BY <1>1, <1>4, <1>5, <1>6, ProductMonotone
  <1> QED BY <1>1, <1>3, <1>4, <1>5, <1>7

(* The parts of the curve that battery_get_percentage puts together, and     *)
(* where they meet.                                                          *)
LEMMA PercentageParts ==
  ASSUME NEW v \in Nat
  PROVE  /\ v > FULL_VOLTAGE_VALUE => Percentage(v) = 100
         /\ EMPTY_VOLTAGE_VALUE < v /\ v <= FULL_VOLTAGE_VALUE
            => /\ Percentage(v) = Scaled(v, EMPTY_VOLTAGE_VALUE, FULL_VOLTAGE_VALUE, 80) + 20
               /\ Percentage(v) \in 20 .. 100
         /\ SHUTDOWN_VOLTAGE_VALUE < v /\ v <= EMPTY_VOLTAGE_VALUE
            => /\ Percentage(v) = Scaled(v, SHUTDOWN_VOLTAGE_VALUE, EMPTY_VOLTAGE_VALUE, 20)
               /\ Percentage(v) \in 0 .. 20
               /\ v = EMPTY_VOLTAGE_VALUE <=> Percentage(v) = 20
         /\ v <= SHUTDOWN_VOLTAGE_VALUE => Percentage(v) = 0
  <1>1. ASSUME EMPTY_VOLTAGE_VALUE < v, v <= FULL_VOLTAGE_VALUE
        PROVE  /\ Percentage(v) = Scaled(v, EMPTY_VOLTAGE_VALUE, FULL_VOLTAGE_VALUE, 80) + 20
               /\ Percentage(v) \in 20 .. 100
    <2>1. Scaled(v, EMPTY_VOLTAGE_VALUE, FULL_VOLTAGE_VALUE, 80) \in 0 .. 80
      BY <1>1, UpperRange
    <2> QED BY <1>1, <2>1 DEF Percentage
  <1>2. ASSUME SHUTDOWN_VOLTAGE_VALUE < v, v <= EMPTY_VOLTAGE_VALUE
        PROVE  /\ Percentage(v) = Scaled(v, SHUTDOWN_VOLTAGE_VALUE, EMPTY_VOLTAGE_VALUE, 20)
               /\ Percentage(v) \in 0 .. 20
               /\ v = EMPTY_VOLTAGE_VALUE <=> Percentage(v) = 20
    <2>1. /\ Scaled(v, SHUTDOWN_VOLTAGE_VALUE, EMPTY_VOLTAGE_VALUE, 20) \in 0 .. 20
          /\ v = EMPTY_VOLTAGE_VALUE
             <=> Scaled(v, SHUTDOWN_VOLTAGE_VALUE, EMPTY_VOLTAGE_VALUE, 20) = 20
      BY <1>2, LowerRange
    <2> QED BY <1>2, <2>1 DEF Percentage
  <1>3. v > FULL_VOLTAGE_VALUE => Percentage(v) = 100
    BY DEF Percentage
  <1>4. v <= SHUTDOWN_VOLTAGE_VALUE => Percentage(v) = 0
    BY DEF Percentage
  <1> QED BY <1>1, <1>2, <1>3, <1>4

(* Across the parts too, a higher voltage is never a lower percentage.       *)
LEMMA PercentageMonotone ==
  ASSUME NEW v \in Nat, NEW w \in Nat, v <= w
  PROVE  Percentage(v) <= Percentage(w)
  <1>1. CASE v <= SHUTDOWN_VOLTAGE_VALUE
    BY <1>1, PercentageParts
  <1>2. CASE SHUTDOWN_VOLTAGE_VALUE < v /\ v <= EMPTY_VOLTAGE_VALUE
    <2>1. CASE w <= EMPTY_VOLTAGE_VALUE
      <3>1. Scaled(v, SHUTDOWN_VOLTAGE_VALUE, EMPTY_VOLTAGE_VALUE, 20)
            <= Scaled(w, SHUTDOWN_VOLTAGE_VALUE, EMPTY_VOLTAGE_VALUE, 20)
        BY <1>2, ScaledMonotone
      <3> QED BY <1>2, <2>1, <3>1, PercentageParts
    <2>2. CASE w > EMPTY_VOLTAGE_VALUE
      BY <1>2, <2>2, PercentageParts
    <2> QED BY <2>1, <2>2
  <1>3. CASE EMPTY_VOLTAGE_VALUE < v /\ v <= FULL_VOLTAGE_VALUE
    <2>1. CASE w <= FULL_VOLTAGE_VALUE
      <3>1. Scaled(v, EMPTY_VOLTAGE_VALUE, FULL_VOLTAGE_VALUE, 80)
            <= Scaled(w, EMPTY_VOLTAGE_VALUE, FULL_VOLTAGE_VALUE, 80)
        BY <1>3, ScaledMonotone
      <3>2. /\ Percentage(v) = Scaled(v, EMPTY_VOLTAGE_VALUE, FULL_VOLTAGE_VALUE, 80) + 20
            /\ Percentage(w) = Scaled(w, EMPTY_VOLTAGE_VALUE, FULL_VOLTAGE_VALUE, 80) + 20
        BY <1>3, <2>1, PercentageParts
      <3>3. /\ Scaled(v, EMPTY_VOLTAGE_VALUE, FULL_VOLTAGE_VALUE, 80) \in 0 .. 80
            /\ Scaled(w, EMPTY_VOLTAGE_VALUE, FULL_VOLTAGE_VALUE, 80) \in 0 .. 80
        BY <1>3, <2>1, UpperRange
      <3> QED BY <3>1, <3>2, <3>3
    <2>2. CASE w > FULL_VOLTAGE_VALUE
      BY <1>3, <2>2, PercentageParts
    <2> QED BY <2>1, <2>2
  <1>4. CASE v > FULL_VOLTAGE_VALUE
    BY <1>4, PercentageParts
  <1> QED BY <1>1, <1>2, <1>3, <1>4

(* For all thresholds, the level battery_get_percentage reports is a         *)
(* percentage, is below 20 exactly when battery_check_empty counts, and      *)
(* never falls when the voltage rises.                                       *)
THEOREM LevelIsRight == BatterySpec => []LevelAgrees
  <1>1. BInv => LevelAgrees
    <2> SUFFICES ASSUME BInv PROVE LevelAgrees
      OBVIOUS
    <2>1. voltage \in Nat
      BY TypeParts DEF BInv, Numbers
    <2>2. Percentage(voltage) \in 0 .. 100
      BY <2>1, PercentageParts
    <2>3. Percentage(voltage) < 20 <=> voltage < EMPTY_VOLTAGE_VALUE
      BY <2>1, PercentageParts
    <2>4. ASSUME NEW v \in Voltages, v >= voltage PROVE Percentage(v) >= Percentage(voltage)
      <3>1. v \in Nat /\ voltage <= v
        BY <2>1, <2>4
      <3>2. Percentage(voltage) <= Percentage(v)
        BY <2>1, <3>1, PercentageMonotone
      <3>3. Percentage(v) \in Int
        BY <3>1, PercentageParts
      <3>4. Percentage(voltage) \in Int
        BY <2>2
      <3> QED BY <3>2, <3>3, <3>4
    <2> QED BY <2>2, <2>3, <2>4 DEF LevelAgrees
  <1> QED BY <1>1, InitBInv, NextBInv, PTL DEF BatterySpec

-----------------------------------------------------------------------------
\* The low battery indication.

\* While the interval runs and nothing has turned the indication off, rtc_time is
\* not 0, which would count as no indication yet; and either the clock has not
\* passed it by more than the time since the start, or the clock has started again
\* and check_overflow will find rtc_time ahead of it.
StartRemembered ==
    since # Long /\ ~midnight /\ ~turned_off
    => /\ rtc_time # 0
       /\ rtc < rtc_time \/ rtc - rtc_time <= since

\* LowBatTypeOK in two parts: the times and the rest.
Times == rtc \in 0 .. DAY - 1 /\ rtc_time \in 0 .. DAY /\ since \in 0 .. Long
Blinking ==
    /\ bat_low_ind_state \in [blink : 0 .. LOW_BAT_LED_BLINK_TIMES + 1, lit : BOOLEAN]
    /\ midnight \in BOOLEAN /\ turned_off \in BOOLEAN

LowBatInv == Times /\ Blinking /\ StartRemembered

(* LowBatTypeOK is its two parts.                                           *)
LEMMA LowBatParts == LowBatTypeOK <=> Times /\ Blinking
  BY DEF LowBatTypeOK, Times, Blinking

(* What the clock and the interval are.                                     *)
LEMMA DayFacts ==
  /\ DAY \in Nat /\ Long \in Nat /\ Long > 0 /\ Long < DAY
  /\ LOW_BAT_LED_TRIG_INTERVAL \in Nat /\ Long = LOW_BAT_LED_TRIG_INTERVAL + 1
  /\ LOW_BAT_LED_BLINK_TIMES \in Nat /\ LOW_BAT_LED_BLINK_TIMES > 0
  BY DayAssumption DEF Long

(* The clock starts at 0 and no indication has been given.                  *)
LEMMA InitLowBatInv == LowBatInit => LowBatInv
  <1> SUFFICES ASSUME LowBatInit PROVE LowBatInv
    OBVIOUS
  <1>1. Times
    BY DayFacts DEF LowBatInit, Times
  <1>2. bat_low_ind_state \in [blink : 0 .. LOW_BAT_LED_BLINK_TIMES + 1, lit : BOOLEAN]
    BY DayFacts DEF LowBatInit, Idle
  <1>3. midnight \in BOOLEAN /\ turned_off \in BOOLEAN
    BY DEF LowBatInit
  <1>4. StartRemembered
    BY DEF LowBatInit, StartRemembered
  <1> QED BY <1>1, <1>2, <1>3, <1>4 DEF LowBatInv, Blinking

(* What check_overflow leaves: rtc_time where the clock has not started      *)
(* again; the clock itself when nothing blinks; or a time still ahead.       *)
LEMMA Overflow ==
  ASSUME Times
  PROVE  /\ CheckOverflow \in 0 .. DAY
         /\ \/ rtc_time <= rtc /\ CheckOverflow = rtc_time
            \/ rtc_time > rtc /\ bat_low_ind_state = Idle /\ CheckOverflow = rtc
            \/ rtc_time > rtc /\ bat_low_ind_state # Idle /\ CheckOverflow > rtc
  <1>1. rtc \in Nat /\ rtc < DAY /\ rtc_time \in Nat /\ rtc_time <= DAY
    BY DayFacts DEF Times
  <1>2. ASSUME NEW a \in Nat, NEW b \in Nat PROVE Min({a, b}) = IF a <= b THEN a ELSE b
    BY DEF Min
  <1>3. Min({rtc_time + rtc, DAY}) = IF rtc_time + rtc <= DAY THEN rtc_time + rtc ELSE DAY
    BY <1>1, <1>2, DayFacts
  <1> QED BY <1>1, <1>3, DayFacts DEF CheckOverflow

(* Time passes: the clock may start again, the interval may end.             *)
LEMMA ElapseLowBat ==
  ASSUME Times, StartRemembered, Elapse, UNCHANGED <<rtc_time, midnight, turned_off>>
  PROVE  Times' /\ StartRemembered'
  <1>1. /\ rtc \in Nat /\ rtc < DAY /\ rtc_time \in Nat /\ rtc_time <= DAY
        /\ since \in Nat /\ since <= Long
    BY DayFacts DEF Times
  <1>2. rtc' = IF rtc + 1 = DAY THEN 0 ELSE rtc + 1
    <2>1. rtc' = (rtc + 1) % DAY
      BY DEF Elapse
    <2>2. CASE rtc + 1 = DAY
      BY <1>1, <2>1, <2>2, DayFacts
    <2>3. CASE rtc + 1 < DAY
      BY <1>1, <2>1, <2>3, DayFacts
    <2> QED BY <1>1, <2>2, <2>3, DayFacts
  <1>3. since' = IF since = Long THEN since ELSE since + 1
    BY DEF Elapse
  <1>4. Times'
    BY <1>1, <1>2, <1>3, DayFacts DEF Times, Long
  <1>5. ASSUME since' # Long, ~midnight', ~turned_off'
        PROVE  rtc_time' # 0 /\ (rtc' < rtc_time' \/ rtc' - rtc_time' <= since')
    <2>1. since # Long /\ ~midnight /\ ~turned_off /\ since' = since + 1
      BY <1>3, <1>5
    <2>2. rtc_time # 0 /\ (rtc < rtc_time \/ rtc - rtc_time <= since)
      BY <2>1 DEF StartRemembered
    <2> QED BY <1>1, <1>2, <2>1, <2>2
  <1> QED BY <1>4, <1>5 DEF StartRemembered, Long

(* An indication is due within the interval only when the clock shows 0 or   *)
(* the last one was turned off.                                              *)
LEMMA DueInInterval ==
  ASSUME Times, StartRemembered, IndicationDue(CheckOverflow)
  PROVE  since = Long \/ turned_off \/ rtc = 0 \/ midnight
  <1>1. /\ rtc \in Nat /\ rtc < DAY /\ rtc_time \in Nat /\ rtc_time <= DAY
        /\ since \in Nat /\ since <= Long
    BY DayFacts DEF Times
  <1>2. SUFFICES ASSUME since # Long, ~midnight, ~turned_off PROVE rtc = 0
    OBVIOUS
  <1>3. /\ rtc_time # 0 /\ (rtc < rtc_time \/ rtc - rtc_time <= since)
        /\ since <= LOW_BAT_LED_TRIG_INTERVAL
    BY <1>1, <1>2, DayFacts DEF StartRemembered
  <1>4. /\ CheckOverflow = 0 \/ CheckOverflow > rtc
           \/ rtc - CheckOverflow > LOW_BAT_LED_TRIG_INTERVAL
        /\ bat_low_ind_state = Idle
    BY DEF IndicationDue, IntervalOver
  <1> QED BY <1>1, <1>3, <1>4, Overflow, DayFacts

(* A key or an empty battery: indicator_battery_low_backlit_enable(true).    *)
LEMMA EnableLowBat ==
  ASSUME LowBatInv, Enable
  PROVE  LowBatInv'
  <1>1. Times /\ Blinking /\ StartRemembered
    BY DEF LowBatInv
  <1>2. /\ rtc \in Nat /\ rtc < DAY /\ rtc_time \in Nat /\ rtc_time <= DAY
        /\ since \in Nat /\ since <= Long
    BY <1>1, DayFacts DEF Times
  <1>3. CASE IndicationDue(CheckOverflow)
    <2>1. /\ rtc_time' = rtc /\ rtc' = rtc /\ since' = 0 /\ midnight' = (rtc = 0)
          /\ turned_off' = FALSE
          /\ bat_low_ind_state' = [blink |-> 1, lit |-> FALSE]
      BY <1>3 DEF Enable
    <2>2. Times'
      BY <1>2, <2>1, DayFacts DEF Times, Long
    <2>3. Blinking'
      <3>1. midnight' \in BOOLEAN /\ turned_off' \in BOOLEAN
        BY <2>1, Zenon
      <3>2. bat_low_ind_state' \in [blink : 0 .. LOW_BAT_LED_BLINK_TIMES + 1, lit : BOOLEAN]
        BY <2>1, DayFacts
      <3> QED BY <3>1, <3>2 DEF Blinking
    <2>4. StartRemembered'
      <3>1. midnight' \/ rtc # 0
        BY <2>1, Zenon
      <3>2. rtc # 0 => rtc_time' # 0 /\ rtc' - rtc_time' <= since'
        BY <1>2, <2>1
      <3> QED BY <3>1, <3>2 DEF StartRemembered
    <2> QED BY <2>2, <2>3, <2>4 DEF LowBatInv
  <1>4. CASE ~IndicationDue(CheckOverflow)
    <2>1. /\ rtc_time' = CheckOverflow /\ rtc' = rtc
          /\ UNCHANGED <<bat_low_ind_state, since, midnight, turned_off>>
      BY <1>4 DEF Enable
    <2>2. CheckOverflow \in Nat /\ CheckOverflow <= DAY
      BY <1>1, Overflow, DayFacts
    <2>3. Times'
      BY <1>2, <2>1, <2>2, DayFacts DEF Times, Long
    <2>4. Blinking'
      BY <1>1, <2>1 DEF Blinking
    <2>5. ASSUME since # Long, ~midnight, ~turned_off
          PROVE  /\ CheckOverflow # 0
                 /\ rtc < CheckOverflow \/ rtc - CheckOverflow <= since
      <3>1. rtc_time # 0 /\ (rtc < rtc_time \/ rtc - rtc_time <= since)
        BY <1>1, <2>5 DEF StartRemembered
      <3>2. bat_low_ind_state = Idle => CheckOverflow # 0
        BY <1>4 DEF IndicationDue
      <3> QED BY <1>1, <1>2, <2>2, <3>1, <3>2, Overflow
    <2>6. StartRemembered'
      BY <2>1, <2>5 DEF StartRemembered, Long
    <2> QED BY <2>3, <2>4, <2>6 DEF LowBatInv
  <1> QED BY <1>3, <1>4

(* Every step of the indication and of the clock.                            *)
LEMMA NextLowBatInv == LowBatInv /\ [LowBatNext]_lowBatVars => LowBatInv'
  <1> SUFFICES ASSUME LowBatInv, [LowBatNext]_lowBatVars PROVE LowBatInv'
    OBVIOUS
  <1>1. Times /\ Blinking /\ StartRemembered
    BY DEF LowBatInv
  <1>2. bat_low_ind_state.blink \in 0 .. LOW_BAT_LED_BLINK_TIMES + 1
    BY <1>1 DEF Blinking
  <1>3. CASE Enable
    BY <1>3, EnableLowBat
  <1>4. CASE Disable
    <2>1. /\ rtc' = rtc /\ rtc_time' = 0 /\ since' = since /\ midnight' = midnight
          /\ turned_off' = TRUE
      BY <1>4 DEF Disable
    <2>2. Times' /\ StartRemembered'
      BY <1>1, <2>1, DayFacts DEF Times, StartRemembered, Long
    <2>3. Blinking'
      BY <1>1, <1>4, DayFacts DEF Disable, Idle, Blinking
    <2> QED BY <2>2, <2>3 DEF LowBatInv
  <1>5. CASE Blink
    <2>1. Times' /\ StartRemembered'
      BY <1>1, <1>5, ElapseLowBat DEF Blink
    <2>2. CASE bat_low_ind_state.lit
      <3>1. bat_low_ind_state' = [blink |-> bat_low_ind_state.blink + 1, lit |-> FALSE]
        BY <1>5, <2>2 DEF Blink
      <3>2. bat_low_ind_state.blink + 1 \in 0 .. LOW_BAT_LED_BLINK_TIMES + 1
        BY <1>5, DayFacts DEF Blink
      <3>3. Blinking'
        BY <1>1, <1>5, <3>1, <3>2 DEF Blink, Blinking
      <3> QED BY <2>1, <3>3 DEF LowBatInv
    <2>3. CASE ~bat_low_ind_state.lit
      <3>1. bat_low_ind_state' = [bat_low_ind_state EXCEPT !.lit = TRUE]
        BY <1>5, <2>3 DEF Blink
      <3>2. Blinking'
        BY <1>1, <1>5, <3>1 DEF Blink, Blinking
      <3> QED BY <2>1, <3>2 DEF LowBatInv
    <2> QED BY <2>2, <2>3
  <1>6. CASE EndBlinking
    <2>1. UNCHANGED <<rtc, rtc_time, since, midnight, turned_off>> /\ bat_low_ind_state' = Idle
      BY <1>6 DEF EndBlinking
    <2>2. Blinking'
      BY <1>1, <2>1, DayFacts DEF Blinking, Idle
    <2> QED BY <1>1, <2>1, <2>2 DEF Times, StartRemembered, Long, LowBatInv
  <1>7. CASE RtcTick
    <2>1. Times' /\ StartRemembered'
      BY <1>1, <1>7, ElapseLowBat DEF RtcTick
    <2>2. Blinking'
      BY <1>1, <1>7 DEF RtcTick, Blinking
    <2> QED BY <2>1, <2>2 DEF LowBatInv
  <1>8. CASE UNCHANGED lowBatVars
    BY <1>1, <1>8 DEF lowBatVars, Times, Blinking, StartRemembered, Long, LowBatInv
  <1> QED BY <1>3, <1>4, <1>5, <1>6, <1>7, <1>8 DEF LowBatNext

(* The times of the indication stay in a day and its blinks in four bits,    *)
(* however long the interval and the day are.                                *)
THEOREM LowBatTypes == LowBatSpec => []LowBatTypeOK
  <1>1. LowBatInv => LowBatTypeOK
    BY LowBatParts DEF LowBatInv
  <1> QED BY <1>1, InitLowBatInv, NextLowBatInv, PTL DEF LowBatSpec

(* The indication does not start twice within LOW_BAT_LED_TRIG_INTERVAL,     *)
(* over midnight too, unless it was turned off in between or the clock shows *)
(* exactly 0 at one of the starts (indicator_battery_low_backlit_enable and  *)
(* rtc_timer's overflow).                                                    *)
THEOREM BlinksSeldom == LowBatSpec => NotTooOften
  <1>1. LowBatInv /\ [LowBatNext]_lowBatVars
        => [Starts => since = Long \/ turned_off \/ rtc = 0 \/ midnight]_lowBatVars
    <2> SUFFICES ASSUME LowBatInv, LowBatNext, Starts
                 PROVE  since = Long \/ turned_off \/ rtc = 0 \/ midnight
      OBVIOUS
    <2>1. bat_low_ind_state.blink = 0 /\ bat_low_ind_state' # bat_low_ind_state
      BY DEF Starts, Idle
    <2>2. ~Blink /\ ~EndBlinking
      BY <2>1, DayFacts DEF Blink, EndBlinking
    <2>3. ~Disable /\ ~RtcTick
      BY <2>1 DEF Starts, Disable, RtcTick
    <2>4. Enable
      BY <2>2, <2>3 DEF LowBatNext
    <2>5. IndicationDue(CheckOverflow)
      BY <2>1, <2>4 DEF Enable
    <2> QED BY <2>5, DueInInterval DEF LowBatInv
  <1> QED BY <1>1, InitLowBatInv, NextLowBatInv, PTL DEF LowBatSpec, NotTooOften

-----------------------------------------------------------------------------
\* Low power mode.

\* The phases of the main loop in which no wake-up event is enabled, and the
\* lines whose events a phase has enabled.
Awake == {"keys", "radio", "lpm", "chosen"}
Events(p) ==
    IF p \in Awake THEN {}
    ELSE IF p = "int" THEN {IntPin}
    ELSE IF p = "usb" THEN {IntPin, UsbPin}
    ELSE Lines

\* LpmTypeOK in three parts: the main loop, its clocks and the interrupts.
LoopTypes ==
    /\ transport \in TRANSPORT_WIRELESS \cup {"USB"}
    /\ {lpm_time_up, usbd, frame, usb_power, indicating, lit} \subseteq BOOLEAN
    /\ power_mode \in {"RUN", "STOP"}
    /\ matrix \subseteq Rows /\ down \subseteq Rows
    /\ phase \in {"keys", "radio", "lpm", "chosen", "int", "usb", "armed", "masked",
                  "cleared", "stop"}
ClockTypes == {idle_time, uptime, quiet} \subseteq 0 .. RUN_MODE_PROCESS_TIME + 1
LineTypes ==
    /\ armed \subseteq Lines /\ pr \subseteq armed /\ early \subseteq Lines
    /\ fell \subseteq Lines /\ nvic \subseteq Vectors /\ ispr \subseteq Vectors

\* An event enabled in this round is armed until its edge is handled, and before
\* one is handled every event of the phase is, and every vector enabled.
ArmedByPhase ==
    /\ armed \subseteq Events(phase)
    /\ early = {} => armed = Events(phase) /\ nvic = Vectors
    /\ phase \in Awake => early = {}

\* Before interrupts are disabled only a line whose vector is disabled is pending.
PendingIsDisabled == ~Masked => \A l \in pr : Vector[l] \notin nvic

\* An edge since interrupts were disabled is pending in the NVIC, unless an
\* earlier one has masked its line.
EdgeIsPending ==
    /\ ~Masked => fell = {}
    /\ \A l \in fell \cap armed : Vector[l] \in ispr

\* On a wireless transport the timer never runs ahead of the time without a key.
TimerBehind ==
    transport \in TRANSPORT_WIRELESS
    => idle_time <= quiet /\ (lpm_time_up => quiet > RUN_MODE_PROCESS_TIME)

LineInv == LineTypes /\ ArmedByPhase /\ PendingIsDisabled /\ EdgeIsPending
LpmInv  == LoopTypes /\ ClockTypes /\ TimerBehind /\ LineInv

(* LpmTypeOK is its three parts.                                             *)
LEMMA LpmParts == LpmTypeOK <=> LoopTypes /\ ClockTypes /\ LineTypes
  BY DEF LpmTypeOK, LoopTypes, ClockTypes, LineTypes

(* The interrupt hardware stays as it is, and so does what is known of it.   *)
LEMMA LinesUnchanged ==
  ASSUME LineInv, UNCHANGED <<exti, early, fell>>,
         phase' \in Awake <=> phase \in Awake, Events(phase') = Events(phase),
         Masked' <=> Masked
  PROVE  LineInv'
  <1>1. LineTypes'
    BY DEF LineInv, LineTypes, exti
  <1>2. ArmedByPhase'
    BY DEF LineInv, ArmedByPhase, exti
  <1>3. PendingIsDisabled'
    BY DEF LineInv, PendingIsDisabled, exti
  <1>4. EdgeIsPending'
    BY DEF LineInv, EdgeIsPending, exti
  <1> QED BY <1>1, <1>2, <1>3, <1>4 DEF LineInv

(* The steps of the main loop that do not go to sleep, the tick and the      *)
(* lights leave the interrupts alone.                                        *)
LEMMA AwakeLines ==
  ASSUME LineInv, UNCHANGED <<exti, early, fell>>, phase \in Awake, phase' \in Awake
  PROVE  LineInv'
  <1>1. Events(phase') = Events(phase) /\ (Masked' <=> Masked)
    BY DEF Events, Awake, Masked
  <1> QED BY <1>1, LinesUnchanged

(* Nothing is enabled at power on.                                           *)
LEMMA InitLpmInv == LpmInit => LpmInv
  <1> SUFFICES ASSUME LpmInit PROVE LpmInv
    OBVIOUS
  <1>1. LoopTypes
    <2>1. {lpm_time_up, usbd, frame, usb_power, indicating, lit} \subseteq BOOLEAN
      BY DEF LpmInit
    <2> QED BY <2>1 DEF LpmInit, LoopTypes
  <1>2. ClockTypes
    BY LpmAssumption DEF LpmInit, ClockTypes
  <1>3. TimerBehind
    BY DEF LpmInit, TimerBehind
  <1>4. LineTypes
    BY DEF LpmInit, LineTypes
  <1>5. ArmedByPhase /\ PendingIsDisabled /\ EdgeIsPending
    BY DEF LpmInit, ArmedByPhase, PendingIsDisabled, EdgeIsPending, Events, Awake
  <1> QED BY <1>1, <1>2, <1>3, <1>4, <1>5 DEF LpmInv, LineInv

(* A step that restarts the timer, or leaves the time without a key alone,   *)
(* keeps the timer behind.                                                   *)
LEMMA TimerKept ==
  ASSUME ClockTypes, TimerBehind,
         \/ TimerReset /\ quiet' \in {0, quiet}
         \/ transport' = transport /\ UNCHANGED <<lpm_time_up, idle_time, quiet>>
         \/ transport' \notin TRANSPORT_WIRELESS /\ idle_time' \in {0, uptime, idle_time}
            /\ quiet' \in {0, quiet},
         uptime' = uptime
  PROVE  ClockTypes' /\ TimerBehind'
  <1>1. /\ idle_time \in 0 .. RUN_MODE_PROCESS_TIME + 1 /\ uptime \in 0 .. RUN_MODE_PROCESS_TIME + 1
        /\ quiet \in 0 .. RUN_MODE_PROCESS_TIME + 1
    BY DEF ClockTypes
  <1>2. ClockTypes'
    BY <1>1, LpmAssumption DEF ClockTypes, TimerReset
  <1>3. TimerBehind'
    BY <1>1, LpmAssumption DEF TimerBehind, TimerReset
  <1> QED BY <1>2, <1>3

(* An edge: handled at once, or pending, or of a line without an event.      *)
LEMMA EdgeLines ==
  ASSUME LineInv, NEW l \in Lines, Edge(l), phase' = phase
  PROVE  LineInv'
  <1>1. LineTypes /\ ArmedByPhase /\ PendingIsDisabled /\ EdgeIsPending
    BY DEF LineInv
  <1>2. (Masked' <=> Masked) /\ Events(phase') = Events(phase) /\ Vector[l] \in Vectors
    BY DEF Masked, Events, Vectors
  <1>3. fell' = IF Masked THEN fell \cup {l} ELSE fell
    BY DEF Edge
  <1>4. CASE l \in armed /\ Vector[l] \in nvic /\ ~Masked
    <2>1. /\ armed' = armed \ {l} /\ nvic' = nvic \ {Vector[l]} /\ early' = early \cup {l}
          /\ pr' = pr /\ ispr' = ispr /\ fell' = fell
      BY <1>3, <1>4 DEF Edge, Handle
    <2>2. l \notin pr
      BY <1>1, <1>4 DEF PendingIsDisabled
    <2>3. phase \notin Awake
      BY <1>1, <1>4 DEF ArmedByPhase, Events
    <2>4. LineTypes'
      BY <1>1, <2>1, <2>2 DEF LineTypes
    <2>5. ArmedByPhase'
      BY <1>1, <1>2, <2>1, <2>3 DEF ArmedByPhase
    <2>6. PendingIsDisabled'
      BY <1>1, <1>2, <2>1 DEF PendingIsDisabled
    <2>7. EdgeIsPending'
      BY <1>1, <1>2, <2>1 DEF EdgeIsPending
    <2> QED BY <2>4, <2>5, <2>6, <2>7 DEF LineInv
  <1>5. CASE ~(l \in armed /\ Vector[l] \in nvic /\ ~Masked)
    <2>1. /\ pr' = IF l \in armed THEN pr \cup {l} ELSE pr
          /\ ispr' = IF l \in armed THEN ispr \cup {Vector[l]} ELSE ispr
          /\ armed' = armed /\ nvic' = nvic /\ early' = early
      BY <1>5 DEF Edge
    <2>2. LineTypes'
      BY <1>1, <1>2, <1>3, <2>1 DEF LineTypes
    <2>3. ArmedByPhase'
      BY <1>1, <1>2, <2>1 DEF ArmedByPhase
    <2>4. PendingIsDisabled'
      BY <1>1, <1>2, <1>5, <2>1 DEF PendingIsDisabled
    <2>5. EdgeIsPending'
      BY <1>1, <1>2, <1>3, <2>1 DEF EdgeIsPending
    <2> QED BY <2>2, <2>3, <2>4, <2>5 DEF LineInv
  <1> QED BY <1>4, <1>5

(* Enabling an event of the module or the cable, or those of the rows with   *)
(* their vectors.                                                            *)
LEMMA ArmLines ==
  ASSUME LineInv, ArmInt \/ ArmUsb \/ ArmRows
  PROVE  LineInv'
  <1>1. LineTypes /\ ArmedByPhase /\ PendingIsDisabled /\ EdgeIsPending
    BY DEF LineInv
  <1>2. PICK L \in {{IntPin}, {UsbPin}, Rows} :
             /\ armed' = armed \cup L /\ pr' = pr \ L
             /\ UNCHANGED <<ispr, early, fell>>
             /\ Events(phase') = Events(phase) \cup L
             /\ \/ nvic' = nvic
                \/ L = Rows /\ nvic' = nvic \cup {Vector[r] : r \in Rows}
    <2>1. CASE ArmInt
      <3>1. Arm({IntPin}, "chosen", "int") /\ nvic' = nvic
        BY <2>1 DEF ArmInt
      <3>2. Events(phase') = Events(phase) \cup {IntPin}
        BY <3>1 DEF Arm, Events, Awake
      <3> QED BY <3>1, <3>2 DEF Arm
    <2>2. CASE ArmUsb
      <3>1. Arm({UsbPin}, "int", "usb") /\ nvic' = nvic
        BY <2>2 DEF ArmUsb
      <3>2. Events(phase') = Events(phase) \cup {UsbPin}
        BY <3>1 DEF Arm, Events, Awake
      <3> QED BY <3>1, <3>2 DEF Arm
    <2>3. CASE ArmRows
      <3>1. Arm(Rows, "usb", "armed") /\ nvic' = nvic \cup {Vector[r] : r \in Rows}
        BY <2>3 DEF ArmRows
      <3>2. Events(phase') = Events(phase) \cup Rows
        BY <3>1 DEF Arm, Events, Awake, Lines
      <3> QED BY <3>1, <3>2 DEF Arm
    <2> QED BY <2>1, <2>2, <2>3
  <1>3. ~Masked /\ ~Masked' /\ phase' \notin Awake
    BY DEF ArmInt, ArmUsb, ArmRows, Arm, Masked, Awake
  <1>4. L \subseteq Lines /\ {Vector[r] : r \in Rows} \subseteq Vectors
    BY <1>2 DEF Lines, Vectors
  <1>5. LineTypes'
    BY <1>1, <1>2, <1>4 DEF LineTypes
  <1>6. ArmedByPhase'
    BY <1>1, <1>2, <1>3, <1>4 DEF ArmedByPhase
  <1>7. PendingIsDisabled'
    <2> SUFFICES ASSUME NEW l \in pr' PROVE Vector[l] \notin nvic'
      BY DEF PendingIsDisabled
    <2>1. l \in pr /\ l \notin L /\ l \in Lines
      BY <1>1, <1>2 DEF LineTypes
    <2>2. Vector[l] \notin nvic
      BY <1>1, <1>3, <2>1 DEF PendingIsDisabled
    <2>3. L = Rows => Vector[l] \notin {Vector[r] : r \in Rows}
      BY <2>1, VectorAssumption DEF Lines
    <2> QED BY <1>2, <2>2, <2>3
  <1>8. EdgeIsPending'
    BY <1>1, <1>2, <1>3 DEF EdgeIsPending
  <1> QED BY <1>5, <1>6, <1>7, <1>8 DEF LineInv

(* chSysDisable, the pending bits, and the instruction that waits.           *)
LEMMA MaskedLines ==
  ASSUME LineInv, DisableInterrupts \/ ClearPending \/ Wfi
  PROVE  LineInv'
  <1>1. LineTypes /\ ArmedByPhase /\ EdgeIsPending
    BY DEF LineInv
  <1>2. /\ UNCHANGED <<armed, nvic, ispr, early, fell>> /\ pr' \in {{}, pr}
        /\ Masked' /\ phase' \notin Awake /\ Events(phase') = Events(phase)
    BY DEF DisableInterrupts, ClearPending, Wfi, exti, Masked, Awake, Events
  <1>3. LineTypes'
    BY <1>1, <1>2 DEF LineTypes
  <1>4. ArmedByPhase'
    BY <1>1, <1>2 DEF ArmedByPhase
  <1>5. PendingIsDisabled'
    BY <1>2 DEF PendingIsDisabled
  <1>6. EdgeIsPending'
    BY <1>1, <1>2 DEF EdgeIsPending
  <1> QED BY <1>3, <1>4, <1>5, <1>6 DEF LineInv

(* After a wake-up nothing is enabled or pending, as at power on.            *)
LEMMA WakeUpLines ==
  ASSUME WakeUp
  PROVE  LineInv'
  <1>1. /\ armed' = {} /\ pr' = {} /\ ispr' = {} /\ nvic' = Vectors
        /\ early' = {} /\ fell' = {} /\ phase' = "keys"
    BY DEF WakeUp
  <1>2. LineTypes'
    BY <1>1 DEF LineTypes, Lines, Vectors
  <1>3. ArmedByPhase' /\ PendingIsDisabled' /\ EdgeIsPending'
    BY <1>1 DEF ArmedByPhase, PendingIsDisabled, EdgeIsPending, Events, Awake, Vectors
  <1> QED BY <1>2, <1>3 DEF LineInv

(* Every step keeps what is known of the interrupts.                         *)
LEMMA NextLineInv == LoopTypes /\ LineInv /\ [LpmNext]_lpmVars => LineInv'
  <1> SUFFICES ASSUME LoopTypes, LineInv, [LpmNext]_lpmVars PROVE LineInv'
    OBVIOUS
  <1>1. CASE \/ KeyboardTask \/ WirelessTask \/ LpmTask \/ LpmTick \/ LedsOff
             \/ \E t \in TRANSPORT_WIRELESS \cup {"USB"} : SetTransport(t)
    <2>1. UNCHANGED <<exti, early, fell>>
      BY <1>1 DEF KeyboardTask, WirelessTask, LpmTask, LpmTick, LedsOff, SetTransport
    <2>2. phase \in Awake /\ phase' \in Awake
      BY <1>1 DEF KeyboardTask, WirelessTask, LpmTask, LpmTick, LedsOff, SetTransport, Awake,
                  mcu
    <2> QED BY <2>1, <2>2, AwakeLines
  <1>2. CASE ArmInt \/ ArmUsb \/ ArmRows
    BY <1>2, ArmLines
  <1>3. CASE DisableInterrupts \/ ClearPending \/ Wfi
    BY <1>3, MaskedLines
  <1>4. CASE WakeUp
    BY <1>4, WakeUpLines
  <1>5. ASSUME NEW r \in Rows, Press(r) PROVE LineInv'
    <2>1. Edge(r) /\ phase' = phase /\ r \in Lines
      BY <1>5 DEF Press, mcu, Lines
    <2> QED BY <2>1, EdgeLines
  <1>6. CASE Frame
    <2>1. Edge(IntPin) /\ phase' = phase /\ IntPin \in Lines
      BY <1>6 DEF Frame, mcu, Lines
    <2> QED BY <2>1, EdgeLines
  <1>7. CASE Cable
    <2>1. Edge(UsbPin) /\ phase' = phase /\ UsbPin \in Lines
      BY <1>7 DEF Cable, mcu, Lines
    <2> QED BY <2>1, EdgeLines
  <1>8. CASE (\E r \in Rows : Release(r)) \/ UNCHANGED lpmVars
    <2>1. UNCHANGED <<exti, early, fell>> /\ phase' = phase
      BY <1>8 DEF Release, NoEdge, lpmVars, mcu
    <2>2. Events(phase') = Events(phase) /\ (Masked' <=> Masked)
      BY <2>1 DEF Events, Masked
    <2> QED BY <2>1, <2>2, LinesUnchanged
  <1> QED BY <1>1, <1>2, <1>3, <1>4, <1>5, <1>6, <1>7, <1>8 DEF LpmNext, MainLoop

(* The clocks: a tick keeps their order, and the timer is only found up      *)
(* when the time without a key is.                                           *)
LEMMA NextClocks == LpmInv /\ [LpmNext]_lpmVars => ClockTypes' /\ TimerBehind'
  <1> SUFFICES ASSUME LpmInv, [LpmNext]_lpmVars PROVE ClockTypes' /\ TimerBehind'
    OBVIOUS
  <1>1. ClockTypes /\ TimerBehind
    BY DEF LpmInv
  <1>2. /\ idle_time \in 0 .. RUN_MODE_PROCESS_TIME + 1 /\ uptime \in 0 .. RUN_MODE_PROCESS_TIME + 1
        /\ quiet \in 0 .. RUN_MODE_PROCESS_TIME + 1
    BY <1>1 DEF ClockTypes
  <1>3. CASE KeyboardTask
    <2>1. transport' = transport /\ uptime' = uptime
      BY <1>3 DEF KeyboardTask
    <2>2. \/ TimerReset /\ quiet' = 0
          \/ transport \notin TRANSPORT_WIRELESS /\ idle_time' = idle_time /\ quiet' = 0
          \/ UNCHANGED <<lpm_time_up, idle_time, quiet>>
      BY <1>3 DEF KeyboardTask, TRANSPORT_WIRELESS
    <2> QED BY <1>1, <2>1, <2>2, TimerKept
  <1>4. ASSUME NEW t \in TRANSPORT_WIRELESS \cup {"USB"}, SetTransport(t)
        PROVE  ClockTypes' /\ TimerBehind'
    <2>1. transport' = t /\ uptime' = uptime /\ quiet' = 0
      BY <1>4 DEF SetTransport
    <2>2. \/ TimerReset
          \/ transport' \notin TRANSPORT_WIRELESS /\ idle_time' = uptime
      BY <1>4, <2>1 DEF SetTransport, TimerStop, TRANSPORT_WIRELESS
    <2> QED BY <1>1, <2>1, <2>2, TimerKept
  <1>5. CASE WirelessTask
    <2>1. transport' = transport /\ uptime' = uptime /\ quiet' = quiet
      BY <1>5 DEF WirelessTask
    <2>2. TimerReset \/ UNCHANGED <<lpm_time_up, idle_time>>
      BY <1>5 DEF WirelessTask
    <2> QED BY <1>1, <2>1, <2>2, TimerKept
  <1>6. CASE LpmTask
    <2> DEFINE timeUp == lpm_time_up \/ idle_time > RUN_MODE_PROCESS_TIME
    <2>1. /\ lpm_time_up' = timeUp
          /\ idle_time' = IF timeUp /\ ~lpm_time_up THEN uptime ELSE idle_time
          /\ transport' = transport /\ uptime' = uptime /\ quiet' = quiet
      BY <1>6 DEF LpmTask
    <2>2. ClockTypes'
      BY <1>2, <2>1 DEF ClockTypes
    <2>3. ASSUME transport \in TRANSPORT_WIRELESS, timeUp PROVE quiet > RUN_MODE_PROCESS_TIME
      BY <1>1, <1>2, <2>3, LpmAssumption DEF TimerBehind
    <2>4. ASSUME transport \in TRANSPORT_WIRELESS PROVE idle_time' <= quiet
      <3>1. idle_time <= quiet
        BY <1>1, <2>4 DEF TimerBehind
      <3>2. CASE timeUp
        BY <1>2, <2>1, <2>3, <2>4, <3>1, <3>2, LpmAssumption
      <3>3. CASE ~timeUp
        BY <2>1, <3>1, <3>3
      <3> QED BY <3>2, <3>3
    <2>5. TimerBehind'
      BY <2>1, <2>3, <2>4 DEF TimerBehind
    <2> QED BY <2>2, <2>5
  <1>7. CASE LpmTick
    <2>1. /\ idle_time' = Later(idle_time) /\ uptime' = Later(uptime) /\ quiet' = Later(quiet)
          /\ transport' = transport /\ lpm_time_up' = lpm_time_up
      BY <1>7 DEF LpmTick
    <2>2. ClockTypes'
      BY <1>2, <2>1, LpmAssumption DEF ClockTypes, Later
    <2>3. idle_time <= quiet => idle_time' <= quiet'
      BY <1>2, <2>1, LpmAssumption DEF Later
    <2>4. quiet > RUN_MODE_PROCESS_TIME => quiet' > RUN_MODE_PROCESS_TIME
      BY <1>2, <2>1, LpmAssumption DEF Later
    <2>5. TimerBehind'
      BY <1>1, <2>1, <2>3, <2>4 DEF TimerBehind
    <2> QED BY <2>2, <2>5
  <1>8. CASE WakeUp
    <2>1. TimerReset /\ uptime' = uptime /\ quiet' = quiet
      BY <1>8 DEF WakeUp
    <2> QED BY <1>1, <2>1, TimerKept
  <1>9. CASE \/ ArmInt \/ ArmUsb \/ ArmRows \/ DisableInterrupts \/ ClearPending \/ Wfi
             \/ (\E r \in Rows : Press(r) \/ Release(r)) \/ Frame \/ Cable \/ LedsOff
             \/ UNCHANGED lpmVars
    <2>1. UNCHANGED <<transport, lpm_time_up, idle_time, uptime, quiet>>
      BY <1>9 DEF ArmInt, ArmUsb, ArmRows, Arm, DisableInterrupts, ClearPending, Wfi, Press,
                  Release, Frame, Cable, LedsOff, lpmVars, mcu, clock
    <2> QED BY <1>1, <2>1, TimerKept
  <1> QED BY <1>3, <1>4, <1>5, <1>6, <1>7, <1>8, <1>9 DEF LpmNext, MainLoop

(* The state of the main loop and its surroundings has its type.             *)
LEMMA NextLoopTypes == LoopTypes /\ [LpmNext]_lpmVars => LoopTypes'
  <1> SUFFICES ASSUME LoopTypes, [LpmNext]_lpmVars PROVE LoopTypes'
    OBVIOUS
  <1> DEFINE Switches == {lpm_time_up, usbd, frame, usb_power, indicating, lit} \subseteq BOOLEAN
             Places == /\ transport \in TRANSPORT_WIRELESS \cup {"USB"}
                       /\ power_mode \in {"RUN", "STOP"}
                       /\ matrix \subseteq Rows /\ down \subseteq Rows
                       /\ phase \in {"keys", "radio", "lpm", "chosen", "int", "usb", "armed",
                                     "masked", "cleared", "stop"}
  <1>1. Switches /\ Places
    BY DEF LoopTypes
  <1>2. ASSUME Switches', Places' PROVE LoopTypes'
    BY <1>2 DEF LoopTypes
  <1>3. CASE KeyboardTask
    <2>1. Switches'
      BY <1>1, <1>3 DEF KeyboardTask, TimerReset, user
    <2>2. Places'
      BY <1>1, <1>3 DEF KeyboardTask, user
    <2> QED BY <1>2, <2>1, <2>2
  <1>4. ASSUME NEW t \in TRANSPORT_WIRELESS \cup {"USB"}, SetTransport(t) PROVE LoopTypes'
    <2>1. Switches'
      BY <1>1, <1>4 DEF SetTransport, TimerReset, TimerStop, user
    <2>2. Places'
      BY <1>1, <1>4 DEF SetTransport, user
    <2> QED BY <1>2, <2>1, <2>2
  <1>5. CASE WirelessTask
    <2>1. Switches'
      BY <1>1, <1>5 DEF WirelessTask, TimerReset
    <2>2. Places'
      BY <1>1, <1>5 DEF WirelessTask
    <2> QED BY <1>2, <2>1, <2>2
  <1>6. CASE LpmTask
    <2>1. Switches'
      BY <1>1, <1>6 DEF LpmTask, user, leds
    <2>2. Places'
      BY <1>1, <1>6 DEF LpmTask, user
    <2> QED BY <1>2, <2>1, <2>2
  <1>7. CASE WakeUp
    <2>1. Switches'
      BY <1>1, <1>7 DEF WakeUp, TimerReset, user, leds
    <2>2. Places'
      BY <1>1, <1>7 DEF WakeUp, user
    <2> QED BY <1>2, <2>1, <2>2
  <1>8. CASE ArmInt \/ ArmUsb \/ ArmRows \/ DisableInterrupts \/ ClearPending \/ Wfi \/ LpmTick
    <2>1. UNCHANGED <<transport, lpm_time_up, power_mode, matrix, usbd, user, leds>>
      BY <1>8 DEF ArmInt, ArmUsb, ArmRows, Arm, DisableInterrupts, ClearPending, Wfi, LpmTick
    <2>2. phase' \in {"int", "usb", "armed", "masked", "cleared", "stop", phase}
      BY <1>8 DEF ArmInt, ArmUsb, ArmRows, Arm, DisableInterrupts, ClearPending, Wfi, LpmTick
    <2>3. Switches'
      BY <1>1, <2>1 DEF user, leds
    <2>4. Places'
      BY <1>1, <2>1, <2>2 DEF user
    <2> QED BY <1>2, <2>3, <2>4
  <1>9. CASE \/ (\E r \in Rows : Press(r) \/ Release(r)) \/ Frame \/ Cable \/ LedsOff
             \/ UNCHANGED lpmVars
    <2>1. UNCHANGED mcu /\ down' \subseteq Rows
      BY <1>1, <1>9 DEF Press, Release, Frame, Cable, LedsOff, lpmVars, user
    <2>2. {frame', usb_power', indicating', lit'} \subseteq BOOLEAN
      BY <1>1, <1>9 DEF Press, Release, Frame, Cable, LedsOff, lpmVars, user, leds
    <2>3. Switches'
      BY <1>1, <2>1, <2>2 DEF mcu
    <2>4. Places'
      BY <1>1, <2>1 DEF mcu
    <2> QED BY <1>2, <2>3, <2>4
  <1> QED BY <1>3, <1>4, <1>5, <1>6, <1>7, <1>8, <1>9 DEF LpmNext, MainLoop

(* LpmInv is inductive.                                                      *)
LEMMA NextLpmInv == LpmInv /\ [LpmNext]_lpmVars => LpmInv'
  BY NextLoopTypes, NextClocks, NextLineInv DEF LpmInv

(* Whatever the pins and vectors, the main loop, its clocks and the          *)
(* interrupt hardware stay in range; no event is pending on a line that is   *)
(* not enabled.                                                              *)
THEOREM LpmTypes == LpmSpec => []LpmTypeOK
  <1>1. LpmInv => LpmTypeOK
    BY LpmParts DEF LpmInv, LineInv
  <1> QED BY <1>1, InitLpmInv, NextLpmInv, PTL DEF LpmSpec

(* An edge that comes after chSysDisable, before or after stop_mode_entry    *)
(* clears the pending bits, ends stop mode: it is pending in the NVIC and    *)
(* its vector is enabled.                                                    *)
THEOREM WakeUpsAreKept == LpmSpec => []NoLostWakeUp
  <1>1. LpmInv => NoLostWakeUp
    <2> SUFFICES ASSUME LpmInv, phase = "stop", early = {}, fell # {} PROVE Wakes
      BY DEF NoLostWakeUp
    <2>1. PICK l \in fell : TRUE
      OBVIOUS
    <2>2. armed = Lines /\ nvic = Vectors
      BY DEF LpmInv, LineInv, ArmedByPhase, Events, Awake
    <2>3. l \in Lines /\ Vector[l] \in ispr
      BY <2>2 DEF LpmInv, LineInv, LineTypes, EdgeIsPending
    <2>4. Vector[l] \in nvic
      BY <2>2, <2>3 DEF Vectors
    <2> QED BY <2>3, <2>4 DEF Wakes
  <1> QED BY <1>1, InitLpmInv, NextLpmInv, PTL DEF LpmSpec

(* lpm_task goes to sleep only when no key was handled, and no wireless      *)
(* transport chosen, for longer than RUN_MODE_PROCESS_TIME.                  *)
THEOREM SleepIsEarned == LpmSpec => SleepsWhenQuiet
  <1>1. LpmInv /\ [LpmNext]_lpmVars
        => [phase = "lpm" /\ phase' = "chosen" => quiet > RUN_MODE_PROCESS_TIME]_lpmVars
    <2> SUFFICES ASSUME LpmInv, LpmNext, phase = "lpm", phase' = "chosen"
                 PROVE  quiet > RUN_MODE_PROCESS_TIME
      OBVIOUS
    <2>1. LpmTask
      BY DEF LpmNext, MainLoop, KeyboardTask, WirelessTask, ArmInt, ArmUsb, ArmRows, Arm,
             DisableInterrupts, ClearPending, Wfi, WakeUp, SetTransport, Press, Release,
             Frame, Cable, LpmTick, LedsOff, mcu
    <2>2. /\ transport \in TRANSPORT_WIRELESS
          /\ lpm_time_up \/ idle_time > RUN_MODE_PROCESS_TIME
      BY <2>1 DEF LpmTask
    <2>3. idle_time <= quiet /\ (lpm_time_up => quiet > RUN_MODE_PROCESS_TIME)
      BY <2>2 DEF LpmInv, TimerBehind
    <2>4. /\ idle_time \in 0 .. RUN_MODE_PROCESS_TIME + 1
          /\ quiet \in 0 .. RUN_MODE_PROCESS_TIME + 1
      BY DEF LpmInv, ClockTypes
    <2> QED BY <2>2, <2>3, <2>4, LpmAssumption
  <1> QED BY <1>1, InitLpmInv, NextLpmInv, PTL DEF LpmSpec, SleepsWhenQuiet

-----------------------------------------------------------------------------
\* The three together, as MCPower runs them.

(* A behaviour of MCPower is one of each part: a part that is not followed   *)
(* stands still.                                                             *)
LEMMA PartsOfPower ==
  (Init /\ [][Next]_vars) => BatterySpec /\ LowBatSpec /\ LpmSpec
  <1>1. Init => BatteryInit /\ LowBatInit /\ LpmInit
    BY DEF Init
  <1>2. [Next]_vars
        => [BatteryNext]_batteryVars /\ [LowBatNext]_lowBatVars /\ [LpmNext]_lpmVars
    BY DEF Next, BatteryPart, IndicationPart, LpmPart, vars
  <1> QED BY <1>1, <1>2, PTL DEF BatterySpec, LowBatSpec, LpmSpec

(* Counters, clocks and interrupt hardware stay in range in every behaviour  *)
(* of the three modules, fair or not.                                        *)
THEOREM PowerTypes == (Init /\ [][Next]_vars) => []TypeOK
  <1>1. LpmSpec => []LpmTypeOK
    BY LpmTypes
  <1>2. LowBatSpec => []LowBatTypeOK
    BY LowBatTypes
  <1>3. BatterySpec => [](BatteryTypeOK /\ WarnedFirst)
    BY WarningComesFirst
  <1>4. BatteryTypeOK /\ LowBatTypeOK /\ LpmTypeOK => TypeOK
    BY DEF TypeOK
  <1> QED BY <1>1, <1>2, <1>3, <1>4, PartsOfPower, PTL
=============================================================================
