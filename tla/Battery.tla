------------------------------ MODULE Battery ------------------------------
(***************************************************************************)
(* The battery monitor (battery.c).  battery_task looks at the voltage it  *)
(* was last told, counts how often it was too low, turns the radio off     *)
(* when it was too low for long, and only then asks the module for a new   *)
(* value, which comes later in a status frame or not at all.  With the     *)
(* backlight off and the samples after power on taken it does not ask any  *)
(* more, and counts the old value again and again.                         *)
(***************************************************************************)
EXTENDS Naturals

CONSTANTS
    Voltages,       \* bound: the voltages, in mV, that can be measured
    FULL_VOLTAGE_VALUE, EMPTY_VOLTAGE_VALUE, SHUTDOWN_VOLTAGE_VALUE,
    BATTERY_EMPTY_COUNT, CRITICAL_LOW_COUNT,
    VOLTAGE_POWER_ON_MEASURE_COUNT

ASSUME VoltageAssumption ==
    /\ Voltages \subseteq Nat
    /\ FULL_VOLTAGE_VALUE \in Nat /\ EMPTY_VOLTAGE_VALUE \in Nat
    /\ SHUTDOWN_VOLTAGE_VALUE \in Nat
    /\ SHUTDOWN_VOLTAGE_VALUE < EMPTY_VOLTAGE_VALUE
    /\ EMPTY_VOLTAGE_VALUE < FULL_VOLTAGE_VALUE
ASSUME CountAssumption ==
    /\ BATTERY_EMPTY_COUNT \in Nat /\ CRITICAL_LOW_COUNT \in Nat
    /\ VOLTAGE_POWER_ON_MEASURE_COUNT \in Nat
    /\ BATTERY_EMPTY_COUNT <= CRITICAL_LOW_COUNT
\* What keeps the uint16_t voltages and the uint8_t counters from wrapping.
ASSUME WidthAssumption ==
    /\ Voltages \subseteq 0 .. 65535 /\ FULL_VOLTAGE_VALUE <= 65535
    /\ CRITICAL_LOW_COUNT < 255 /\ VOLTAGE_POWER_ON_MEASURE_COUNT < 255

VARIABLES
    voltage,           \* what the firmware was last told
    bat_empty,
    critical_low,
    power_on_sample,
    \* what the task reads
    elapsed,           \* since bat_monitor_timer_buffer: 0, 1 after
                       \* BACKLIGHT_OFF_VOLTAGE_MEASURE_INTERVAL, 2 after
                       \* VOLTAGE_MEASURE_INTERVAL
    wireless,          \* the transport is a wireless one
    connected,         \* wireless_state is WT_CONNECTED
    backlight,         \* the LED matrix is enabled
    cable,             \* usb_power_connected()
    \* the module
    asked,             \* a measurement it was asked for and has not delivered
    \* history, read by the properties only
    warned             \* the low battery indicator was turned on since the
                       \* counters were last reset

batteryVars == <<voltage, bat_empty, critical_low, power_on_sample, elapsed, wireless,
          connected, backlight, cable, asked, warned>>
world == <<wireless, connected, backlight, cable>>

BatteryInit ==
    /\ voltage = FULL_VOLTAGE_VALUE
    /\ bat_empty = 0 /\ critical_low = 0 /\ power_on_sample = 0
    /\ elapsed = 0
    /\ wireless \in BOOLEAN /\ connected = FALSE
    /\ backlight \in BOOLEAN /\ cable \in BOOLEAN
    /\ asked = FALSE /\ warned = FALSE

battery_is_empty == bat_empty > BATTERY_EMPTY_COUNT
battery_is_critical_low == critical_low > CRITICAL_LOW_COUNT
battery_power_on_sample == power_on_sample < VOLTAGE_POWER_ON_MEASURE_COUNT

\* x of the way from lo to hi, in units of 1 / n
Scaled(x, lo, hi, n) == ((x - lo) * n) \div (hi - lo)

\* Mutant of Percentage: the 20 percent are not added.
PercentageNoOffset(v) ==
    IF v > FULL_VOLTAGE_VALUE THEN 100
    ELSE IF v > EMPTY_VOLTAGE_VALUE
         THEN Scaled(v, EMPTY_VOLTAGE_VALUE, FULL_VOLTAGE_VALUE, 80)
    ELSE IF v > SHUTDOWN_VOLTAGE_VALUE
         THEN Scaled(v, SHUTDOWN_VOLTAGE_VALUE, EMPTY_VOLTAGE_VALUE, 20)
    ELSE 0

\* battery_get_percentage at voltage v
Percentage(v) ==
    IF v > FULL_VOLTAGE_VALUE THEN 100
    ELSE IF v > EMPTY_VOLTAGE_VALUE
         THEN Scaled(v, EMPTY_VOLTAGE_VALUE, FULL_VOLTAGE_VALUE, 80) + 20
    ELSE IF v > SHUTDOWN_VOLTAGE_VALUE
         THEN Scaled(v, SHUTDOWN_VOLTAGE_VALUE, EMPTY_VOLTAGE_VALUE, 20)
    ELSE 0

-----------------------------------------------------------------------------
\* battery_task.

Active == wireless /\ (connected \/ battery_power_on_sample)

Due ==
    \/ elapsed = 2
    \/ battery_power_on_sample /\ ~backlight /\ elapsed = 1

\* Mutant of EmptyCount: the counter is not limited.
EmptyCountUnlimited == IF voltage < EMPTY_VOLTAGE_VALUE THEN bat_empty + 1 ELSE bat_empty

\* The counter battery_check_empty leaves.
EmptyCount ==
    IF voltage < EMPTY_VOLTAGE_VALUE /\ bat_empty <= BATTERY_EMPTY_COUNT
    THEN bat_empty + 1 ELSE bat_empty

\* Mutant of CriticalCount: a voltage that recovers resets a full count too.
CriticalCountForgets ==
    IF voltage >= SHUTDOWN_VOLTAGE_VALUE THEN 0
    ELSE IF critical_low <= CRITICAL_LOW_COUNT THEN critical_low + 1 ELSE critical_low

\* Mutant of CriticalCount: one low value is enough.
CriticalCountHasty ==
    IF voltage < SHUTDOWN_VOLTAGE_VALUE THEN CRITICAL_LOW_COUNT + 1 ELSE critical_low

\* The counter battery_check_critical_low leaves.
CriticalCount ==
    IF critical_low > CRITICAL_LOW_COUNT THEN critical_low
    ELSE IF voltage < SHUTDOWN_VOLTAGE_VALUE THEN critical_low + 1 ELSE 0

\* battery_check_empty has just turned the indicator on; it also ends sampling.
Warns == bat_empty <= BATTERY_EMPTY_COUNT /\ EmptyCount > BATTERY_EMPTY_COUNT

\* Mutant of Measure: never asks with the samples after power on taken.
MeasureAtPowerOnOnly ==
    LET taken == IF Warns THEN VOLTAGE_POWER_ON_MEASURE_COUNT ELSE power_on_sample
        more == taken < VOLTAGE_POWER_ON_MEASURE_COUNT
    IN /\ asked' = (asked \/ more)
       /\ power_on_sample' = IF more THEN taken + 1 ELSE taken

\* The end of the sampling branch: ask the module if there is a reason to.
Measure ==
    LET taken == IF Warns THEN VOLTAGE_POWER_ON_MEASURE_COUNT ELSE power_on_sample
        more == taken < VOLTAGE_POWER_ON_MEASURE_COUNT
    IN /\ asked' = (asked \/ more \/ backlight)
       /\ power_on_sample' = IF more THEN taken + 1 ELSE taken

\* The sampling branch, with the counters that the cable then clears.
Check ==
    /\ Active /\ Due
    /\ bat_empty' = IF cable THEN 0 ELSE EmptyCount
    /\ critical_low' = IF cable THEN 0 ELSE CriticalCount
    /\ warned' = (~cable /\ (warned \/ Warns))
    /\ Measure
    /\ elapsed' = 0
    /\ UNCHANGED <<voltage, world>>

\* Not yet time, or nothing to measure for: only the cable counts.
ClearOnCable ==
    /\ ~(Active /\ Due)
    /\ cable /\ (bat_empty # 0 \/ critical_low # 0)
    /\ bat_empty' = 0 /\ critical_low' = 0
    /\ warned' = FALSE
    /\ UNCHANGED <<voltage, power_on_sample, elapsed, world, asked>>

-----------------------------------------------------------------------------
\* What happens around it.

\* A status frame with LK_EVT_MSK_BATT: battery_calculate_voltage.  Values below
\* 100 are ignored.  The module also reports by itself.
Deliver(v) ==
    /\ voltage' = v
    /\ asked' = FALSE
    /\ UNCHANGED <<bat_empty, critical_low, power_on_sample, elapsed, world, warned>>

DeliverNothing ==
    /\ asked
    /\ asked' = FALSE
    /\ UNCHANGED <<voltage, bat_empty, critical_low, power_on_sample, elapsed, world,
                   warned>>

BatteryTick ==
    /\ elapsed < 2
    /\ elapsed' = elapsed + 1
    /\ UNCHANGED <<voltage, bat_empty, critical_low, power_on_sample, world, asked,
                   warned>>

\* The user, and the connection: it does not come up with a critical battery.
Around ==
    /\ \/ wireless' = ~wireless /\ UNCHANGED <<connected, backlight, cable>>
       \/ /\ connected \/ ~battery_is_critical_low
          /\ connected' = ~connected
          /\ UNCHANGED <<wireless, backlight, cable>>
       \/ backlight' = ~backlight /\ UNCHANGED <<wireless, connected, cable>>
       \/ cable' = ~cable /\ UNCHANGED <<wireless, connected, backlight>>
    /\ UNCHANGED <<voltage, bat_empty, critical_low, power_on_sample, elapsed, asked,
                   warned>>

BatteryNext ==
    \/ Check \/ ClearOnCable
    \/ (\E v \in Voltages : Deliver(v)) \/ DeliverNothing
    \/ BatteryTick \/ Around

BatterySpec == BatteryInit /\ [][BatteryNext]_batteryVars

\* The main loop calls battery_task for ever, time passes, and a module that is
\* asked again and again answers some time.
Answered == asked /\ \E v \in Voltages : Deliver(v)
BatteryFairSpec ==
    /\ BatterySpec
    /\ WF_batteryVars(Check) /\ WF_batteryVars(BatteryTick) /\ SF_batteryVars(Answered)

-----------------------------------------------------------------------------
\* Properties.

BatteryTypeOK ==
    /\ voltage \in Voltages \cup {FULL_VOLTAGE_VALUE}
    /\ bat_empty \in 0 .. BATTERY_EMPTY_COUNT + 1
    /\ critical_low \in 0 .. CRITICAL_LOW_COUNT + 1
    /\ power_on_sample \in 0 .. VOLTAGE_POWER_ON_MEASURE_COUNT
    /\ elapsed \in 0 .. 2
    /\ wireless \in BOOLEAN /\ connected \in BOOLEAN /\ backlight \in BOOLEAN
    /\ cable \in BOOLEAN /\ asked \in BOOLEAN /\ warned \in BOOLEAN

\* The radio is never turned off for a critical battery before the low battery
\* indicator was turned on, whatever values come and however often the cable
\* resets the two counters.
WarnedFirst == battery_is_critical_low => warned

\* Once found critical the battery stays so, even if the voltage recovers when
\* the radio is off, until the cable is plugged in.
StaysCritical ==
    [][battery_is_critical_low /\ ~cable => battery_is_critical_low']_batteryVars

\* The level reported to the host is a percentage, never falls when the voltage
\* rises, and is below 20 exactly when battery_check_empty counts.
LevelAgrees ==
    /\ Percentage(voltage) \in 0 .. 100
    /\ Percentage(voltage) < 20 <=> voltage < EMPTY_VOLTAGE_VALUE
    /\ \A v \in Voltages : v >= voltage => Percentage(v) >= Percentage(voltage)

\* On a connection that stays up with the backlight on and no cable, a battery
\* that only delivers values below the limit is eventually found critical.
LowIsNoticed ==
    /\ <>[](wireless /\ connected /\ backlight /\ ~cable)
    /\ <>[][\A v \in Voltages : Deliver(v) => v < SHUTDOWN_VOLTAGE_VALUE]_batteryVars
    => <>battery_is_critical_low
=============================================================================
