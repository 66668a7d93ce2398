SPECIFICATION FairSpec
CONSTANTS
    Voltages <- MCVoltages
    FULL_VOLTAGE_VALUE = 4100
    EMPTY_VOLTAGE_VALUE = 3500
    SHUTDOWN_VOLTAGE_VALUE = 3300
    BATTERY_EMPTY_COUNT = 2
    CRITICAL_LOW_COUNT = 4
    VOLTAGE_POWER_ON_MEASURE_COUNT = 3
    DAY = 24
    LOW_BAT_LED_TRIG_INTERVAL = 9
    LOW_BAT_LED_BLINK_TIMES = 3
    Rows = {"r5", "r6"}
    IntPin = "INT"
    UsbPin = "USB"
    Vector <- MCVector
    RUN_MODE_PROCESS_TIME = 1
INVARIANTS
    TypeOK
    WarnedFirst
    LevelAgrees
    NoLostWakeUp
PROPERTIES
    StaysCritical
    LowIsNoticed
    NotTooOften
    SleepsWhenQuiet
    SleepsAgain
    UsbIsBack
