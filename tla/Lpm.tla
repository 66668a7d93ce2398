--------------------------------- MODULE Lpm ---------------------------------
(***************************************************************************)
(* Low power mode: the idle timer and the conditions to sleep (lpm.c), the *)
(* power mode (lpm_stm32f401.c), and the stop mode with the interrupts     *)
(* that end it (lp_sleep.c), on a board without mode switches that keeps   *)
(* USB connected (p1).                                                     *)
(*                                                                         *)
(* The main loop goes through the phases                                   *)
(*   keys     keyboard_task: the matrix is scanned                         *)
(*   radio    wireless_task up to lpm_task: a frame of the module is read  *)
(*   lpm      lpm_task                                                     *)
(* and, when it goes to sleep, through the steps between which a key, a    *)
(* frame or the cable may change a pin:                                    *)
(*   chosen   USB is stopped, no wake-up event is enabled yet              *)
(*   int, usb the events of the module and of the cable are enabled        *)
(*   armed    the events of the rows are enabled as well                   *)
(*   masked   chSysDisable                                                 *)
(*   cleared  the pending bits are cleared                                 *)
(*   stop     in stop mode, waiting for an interrupt                       *)
(***************************************************************************)
EXTENDS Naturals

CONSTANTS
    Rows,                  \* the rows of the matrix
    IntPin, UsbPin,        \* the lines of the module and of the USB power
    Vector,                \* [Lines -> interrupt vectors]: rows share some
    RUN_MODE_PROCESS_TIME

ASSUME LpmAssumption ==
    /\ IntPin \notin Rows /\ UsbPin \notin Rows /\ IntPin # UsbPin
    /\ DOMAIN Vector = Rows \cup {IntPin, UsbPin}
    /\ RUN_MODE_PROCESS_TIME \in Nat
\* Pins B1 and B0 are the only ones on their vectors.  With a vector shared with a
\* row, lowpower_before_config would enable it again after it has been handled.
ASSUME VectorAssumption ==
    /\ Vector[IntPin] # Vector[UsbPin]
    /\ \A r \in Rows : Vector[r] \notin {Vector[IntPin], Vector[UsbPin]}

Lines   == Rows \cup {IntPin, UsbPin}
Vectors == {Vector[l] : l \in Lines}

VARIABLES
    transport,
    lpm_time_up,
    idle_time,     \* time since lpm_timer_buffer
    uptime,        \* time since boot, at which timer_read32 is 0
    power_mode,
    matrix,        \* the rows with a key down, as scanned last
    usbd,          \* whether the USB driver runs
    phase,
    \* interrupt hardware
    armed,         \* EXTI: lines with an event enabled
    pr,            \* EXTI: lines with a pending event
    nvic,          \* NVIC: vectors enabled
    ispr,          \* NVIC: vectors pending
    \* surroundings
    down,          \* the rows with a key down
    frame,         \* whether the module holds its interrupt pin low
    usb_power,     \* whether USB power is there
    indicating,    \* indicator_is_running(), or the board is not idle
    lit,           \* ~rgb_matrix_is_driver_shutdown()
    \* history, read by the properties only
    quiet,         \* time since the last key event or switch to a wireless transport
    early,         \* lines whose event was handled before interrupts were disabled
    fell           \* lines with an edge since interrupts were disabled

mcu   == <<transport, lpm_time_up, idle_time, power_mode, matrix, usbd, phase>>
exti  == <<armed, pr, nvic, ispr>>
user  == <<down, frame, usb_power>>
leds  == <<indicating, lit>>
clock == <<uptime, idle_time, quiet>>
lpmVars  == <<mcu, uptime, exti, user, leds, quiet, early, fell>>

TRANSPORT_WIRELESS == {"BLUETOOTH", "P2P4"}

\* A time that only matters until it is above RUN_MODE_PROCESS_TIME.
Later(t) == IF t > RUN_MODE_PROCESS_TIME THEN t ELSE t + 1

LpmInit ==
    /\ transport \in TRANSPORT_WIRELESS \cup {"USB"}
    /\ lpm_time_up = FALSE
    /\ idle_time = 0 /\ uptime = 0 /\ quiet = 0
    /\ power_mode = "RUN"
    /\ matrix = {} /\ down = {}
    /\ usbd = TRUE
    /\ phase = "keys"
    /\ armed = {} /\ pr = {} /\ ispr = {}
    /\ nvic = Vectors
    /\ frame \in BOOLEAN /\ usb_power \in BOOLEAN /\ indicating = TRUE /\ lit \in BOOLEAN
    /\ early = {} /\ fell = {}

\* lpm_timer_reset
TimerReset == lpm_time_up' = FALSE /\ idle_time' = 0

\* lpm_timer_stop: the timer does not stop, it starts at time 0.
TimerStop == lpm_time_up' = FALSE /\ idle_time' = uptime

-----------------------------------------------------------------------------
\* The main loop.

\* Scanning the matrix: a change is handled as key events, which restart the
\* timer on a wireless transport (process_record_wireless) and may turn the
\* backlight on.
KeyboardTask ==
    /\ phase = "keys"
    /\ phase' = "radio"
    /\ matrix' = down
    /\ \/ /\ matrix' # matrix
          /\ \/ transport \in TRANSPORT_WIRELESS /\ TimerReset
             \/ transport = "USB" /\ UNCHANGED <<lpm_time_up, idle_time>>
          /\ quiet' = 0
          /\ lit' \in {lit, TRUE}
       \/ /\ matrix' = matrix
          /\ UNCHANGED <<lpm_time_up, idle_time, quiet, lit>>
    /\ UNCHANGED <<transport, uptime, power_mode, usbd, exti, user, indicating, early, fell>>

\* Mutant of SetTransport: the timer of a wireless transport is not restarted.
SetTransportKeepTimer(t) ==
    /\ phase = "keys" /\ t # transport
    /\ transport' = t
    /\ IF t = "USB" THEN TimerStop ELSE UNCHANGED <<lpm_time_up, idle_time>>
    /\ quiet' = 0
    /\ phase' = "radio"
    /\ indicating' = (t # "USB")
    /\ UNCHANGED <<uptime, power_mode, matrix, usbd, exti, user, lit, early, fell>>

\* set_transport for a mode key: the indication of the old transport stops, and
\* connecting on a wireless one starts a new one.
SetTransport(t) ==
    /\ phase = "keys" /\ t # transport
    /\ transport' = t
    /\ IF t = "USB" THEN TimerStop ELSE TimerReset
    /\ quiet' = 0
    /\ phase' = "radio"
    /\ indicating' = (t # "USB")
    /\ UNCHANGED <<uptime, power_mode, matrix, usbd, exti, user, lit, early, fell>>

\* wireless_task before lpm_task: a frame is read when the pin is low.  One that
\* tells of a connection may start an indication and restart the timer.
WirelessTask ==
    /\ phase = "radio"
    /\ phase' = "lpm"
    /\ frame' = FALSE
    /\ \/ /\ frame
          /\ indicating' \in {indicating, transport # "USB"}
          /\ TimerReset \/ UNCHANGED <<lpm_time_up, idle_time>>
       \/ UNCHANGED <<indicating, lpm_time_up, idle_time>>
    /\ UNCHANGED <<transport, uptime, power_mode, matrix, usbd, exti, down, usb_power, lit,
                   quiet, early, fell>>

\* lpm_set as called by pre_enter_low_power_mode: it stores the mode even when
\* it refuses.
LpmSetStop == power_mode = "RUN"

\* Mutant of LpmTask: USB is only ever stopped here.
LpmTaskNoUsb ==
    LET timeUp == lpm_time_up \/ idle_time > RUN_MODE_PROCESS_TIME
        sleeps == /\ transport \in TRANSPORT_WIRELESS /\ timeUp
                  /\ ~indicating /\ ~lit /\ matrix = {} /\ ~usb_power
    IN /\ phase = "lpm"
       /\ lpm_time_up' = timeUp
       /\ idle_time' = IF timeUp /\ ~lpm_time_up THEN uptime ELSE idle_time
       /\ power_mode' = IF sleeps THEN "STOP" ELSE power_mode
       /\ phase' = IF sleeps /\ LpmSetStop THEN "chosen" ELSE "keys"
       /\ usbd' = (usbd /\ phase' = "keys")
       /\ UNCHANGED <<transport, uptime, matrix, exti, user, leds, quiet, early, fell>>

\* lpm_task up to the point at which interrupts matter.  PM_STOP is above
\* PM_SLEEP, so the cable alone keeps the board awake.
LpmTask ==
    LET timeUp == lpm_time_up \/ idle_time > RUN_MODE_PROCESS_TIME
        sleeps == /\ transport \in TRANSPORT_WIRELESS /\ timeUp
                  /\ ~indicating /\ ~lit /\ matrix = {} /\ ~usb_power
    IN /\ phase = "lpm"
       /\ lpm_time_up' = timeUp
       /\ idle_time' = IF timeUp /\ ~lpm_time_up THEN uptime ELSE idle_time
       /\ power_mode' = IF sleeps THEN "STOP" ELSE power_mode
       /\ phase' = IF sleeps /\ LpmSetStop THEN "chosen" ELSE "keys"
       /\ usbd' = CASE sleeps /\ LpmSetStop -> FALSE [] usb_power -> TRUE [] OTHER -> usbd
       /\ UNCHANGED <<transport, uptime, matrix, exti, user, leds, quiet, early, fell>>

-----------------------------------------------------------------------------
\* Going to sleep: pre_enter_low_power_mode, enter_power_mode, stop_mode_entry.

\* An enabled event forgets what was pending on its line.
Arm(L, from, to) ==
    /\ phase = from
    /\ phase' = to
    /\ armed' = armed \cup L
    /\ pr' = pr \ L
    /\ UNCHANGED <<transport, lpm_time_up, clock, power_mode, matrix, usbd, ispr, user,
                   leds, early, fell>>

\* palEnableLineEvent for the module, then for the USB power.
ArmInt == Arm({IntPin}, "chosen", "int") /\ UNCHANGED nvic
ArmUsb == Arm({UsbPin}, "int", "usb") /\ UNCHANGED nvic

\* lowpower_before_config, under chSysLock; it also enables the vectors.
ArmRows ==
    /\ Arm(Rows, "usb", "armed")
    /\ nvic' = nvic \cup {Vector[l] : l \in Rows}

\* chSysDisable in enter_power_mode
DisableInterrupts ==
    /\ phase = "armed"
    /\ phase' = "masked"
    /\ UNCHANGED <<transport, lpm_time_up, clock, power_mode, matrix, usbd, exti, user,
                   leds, early, fell>>

\* Mutant of ClearPending: the pending interrupts are cleared too, as the loop
\* would with << for <.
ClearPendingAll ==
    /\ phase = "masked"
    /\ phase' = "cleared"
    /\ pr' = {} /\ ispr' = {}
    /\ UNCHANGED <<transport, lpm_time_up, clock, power_mode, matrix, usbd, armed, nvic,
                   user, leds, early, fell>>

\* stop_mode_entry clears EXTI->PR.  Its loop over the NVIC tests and clears only
\* bit 0 of each word, (0x01UL < j), and no EXTI vector is there.
ClearPending ==
    /\ phase = "masked"
    /\ phase' = "cleared"
    /\ pr' = {}
    /\ UNCHANGED <<transport, lpm_time_up, clock, power_mode, matrix, usbd, armed, nvic,
                   ispr, user, leds, early, fell>>

\* __WFI
Wfi ==
    /\ phase = "cleared"
    /\ phase' = "stop"
    /\ UNCHANGED <<transport, lpm_time_up, clock, power_mode, matrix, usbd, exti, user,
                   leds, early, fell>>

\* What ends stop mode: a pending interrupt that is enabled.
Wakes == ispr \cap nvic # {}

\* Mutant of WakeUp: the power mode is not set back.
WakeUpNoSet ==
    /\ phase = "stop" /\ Wakes
    /\ phase' = "keys"
    /\ armed' = {} /\ pr' = {} /\ ispr' = {} /\ nvic' = Vectors
    /\ matrix' = {}
    /\ TimerReset
    /\ early' = {} /\ fell' = {}
    /\ UNCHANGED <<transport, uptime, quiet, usbd, user, leds, power_mode>>

\* The end of enter_power_mode, the handlers of what is pending, lpm_wakeup with
\* halInit and matrix_init, and the rest of lpm_task.  USB is not started here:
\* the transport is a wireless one.
WakeUp ==
    /\ phase = "stop" /\ Wakes
    /\ phase' = "keys"
    /\ armed' = {} /\ pr' = {} /\ ispr' = {} /\ nvic' = Vectors
    /\ matrix' = {}
    /\ TimerReset
    /\ power_mode' = "RUN"
    /\ early' = {} /\ fell' = {}
    /\ UNCHANGED <<transport, uptime, quiet, usbd, user, leds>>

-----------------------------------------------------------------------------
\* Edges.  Before chSysDisable the handler of an edge runs at once.  Once
\* interrupts are disabled it stays pending.

\* The EXTI handlers: mask the line, disable the vector, clear what is pending.
Handle(l) ==
    /\ armed' = armed \ {l}
    /\ nvic' = nvic \ {Vector[l]}
    /\ early' = early \cup {l}
    /\ UNCHANGED <<pr, ispr>>

Masked == phase \in {"masked", "cleared", "stop"}

Edge(l) ==
    /\ fell' = IF Masked THEN fell \cup {l} ELSE fell
    /\ IF l \in armed /\ Vector[l] \in nvic /\ ~Masked
         THEN Handle(l)
         ELSE /\ pr' = IF l \in armed THEN pr \cup {l} ELSE pr
              /\ ispr' = IF l \in armed THEN ispr \cup {Vector[l]} ELSE ispr
              /\ UNCHANGED <<armed, nvic, early>>

NoEdge == UNCHANGED <<exti, early, fell>>

\* A key of row r goes down, a falling edge; or up, which no event is enabled for.
Press(r) ==
    /\ r \notin down
    /\ down' = down \cup {r}
    /\ Edge(r)
    /\ UNCHANGED <<mcu, uptime, quiet, leds, frame, usb_power>>

Release(r) ==
    /\ r \in down
    /\ down' = down \ {r}
    /\ NoEdge
    /\ UNCHANGED <<mcu, uptime, quiet, leds, frame, usb_power>>

\* The module has a frame and pulls its pin low until it is read.
Frame ==
    /\ ~frame
    /\ frame' = TRUE
    /\ Edge(IntPin)
    /\ UNCHANGED <<mcu, uptime, quiet, leds, down, usb_power>>

\* The cable is plugged in or pulled: both edges count.
Cable ==
    /\ usb_power' = ~usb_power
    /\ Edge(UsbPin)
    /\ UNCHANGED <<mcu, uptime, quiet, leds, down, frame>>

\* Time passes, not in stop mode, in which the timers stand still.
LpmTick ==
    /\ phase \in {"keys", "radio", "lpm"}
    /\ idle_time' = Later(idle_time) /\ uptime' = Later(uptime) /\ quiet' = Later(quiet)
    /\ clock' # clock
    /\ UNCHANGED <<transport, lpm_time_up, power_mode, matrix, usbd, phase, exti, user,
                   leds, early, fell>>

\* An indication ends, or the backlight times out.
LedsOff ==
    /\ phase \in {"keys", "radio", "lpm"}
    /\ \/ indicating /\ indicating' = FALSE /\ UNCHANGED lit
       \/ lit /\ lit' = FALSE /\ UNCHANGED indicating
    /\ UNCHANGED <<mcu, uptime, quiet, exti, user, early, fell>>

MainLoop ==
    \/ KeyboardTask \/ WirelessTask \/ LpmTask
    \/ ArmInt \/ ArmUsb \/ ArmRows \/ DisableInterrupts \/ ClearPending \/ Wfi \/ WakeUp

LpmNext ==
    \/ MainLoop
    \/ \E t \in TRANSPORT_WIRELESS \cup {"USB"} : SetTransport(t)
    \/ \E r \in Rows : Press(r) \/ Release(r)
    \/ Frame \/ Cable \/ LpmTick \/ LedsOff

LpmSpec == LpmInit /\ [][LpmNext]_lpmVars

\* The main loop runs for ever, time passes, and indications and the backlight
\* end.  WakeUp is part of the loop: a pending interrupt ends stop mode.
LpmFairSpec ==
    /\ LpmSpec
    /\ WF_lpmVars(MainLoop) /\ WF_lpmVars(LpmTick) /\ WF_lpmVars(LedsOff)

-----------------------------------------------------------------------------
\* Properties.

LpmTypeOK ==
    /\ transport \in TRANSPORT_WIRELESS \cup {"USB"}
    /\ {lpm_time_up, usbd, frame, usb_power, indicating, lit} \subseteq BOOLEAN
    /\ {idle_time, uptime, quiet} \subseteq 0 .. RUN_MODE_PROCESS_TIME + 1
    /\ power_mode \in {"RUN", "STOP"}
    /\ matrix \subseteq Rows /\ down \subseteq Rows
    /\ phase \in {"keys", "radio", "lpm", "chosen", "int", "usb", "armed", "masked",
                  "cleared", "stop"}
    /\ armed \subseteq Lines /\ pr \subseteq armed /\ early \subseteq Lines
    /\ fell \subseteq Lines /\ nvic \subseteq Vectors /\ ispr \subseteq Vectors

\* The board does not go to sleep within RUN_MODE_PROCESS_TIME of a key event or
\* of a switch to a wireless transport, although lpm_timer_stop leaves the timer
\* at a time long past and time_up is kept from one loop to the next.
SleepsWhenQuiet ==
    [][phase = "lpm" /\ phase' = "chosen" => quiet > RUN_MODE_PROCESS_TIME]_lpmVars

\* No wake-up is lost once interrupts are disabled: a key, a frame or the cable
\* ends stop mode even if its edge came before the pending bits were cleared,
\* unless an earlier edge had already been handled and its vector disabled.
NoLostWakeUp == phase = "stop" /\ early = {} /\ fell # {} => Wakes

\* Left alone on a wireless transport the board sleeps again and again, after
\* every wake-up.
SleepsAgain ==
    \A t \in TRANSPORT_WIRELESS :
        <>[](down = {} /\ ~frame /\ ~usb_power /\ transport = t) => []<>(phase = "stop")

\* The USB driver that sleep has stopped is running again for a host that is
\* plugged in and chosen.
UsbIsBack ==
    (usb_power /\ transport = "USB") ~> (usbd \/ ~usb_power \/ transport # "USB")
=============================================================================
