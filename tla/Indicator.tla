------------------------------ MODULE Indicator ------------------------------
(***************************************************************************)
(* The host indication (indicator.c), composed with the connection of      *)
(* Wireless: the LED of a host slot blinks while the keyboard is pairing   *)
(* or reconnecting and lights up when it has connected.  indicator_set is  *)
(* called by the event handlers and by wireless_connect; a transport       *)
(* switch stops the indication.  lpm_task does not enter low power while   *)
(* one is running.                                                         *)
(*                                                                         *)
(* value is the byte indicator_config.value: the slot and LED_ON.  type    *)
(* is the type in indicator_config whenever value is not 0, so it is not   *)
(* kept twice; next_period is how long a step of the indication lasts,     *)
(* and the model lets it last for any time.                                *)
(***************************************************************************)
EXTENDS Wireless

VARIABLES
    indicator_config,  \* the configuration in use, its value and elapsed time
    indicator_state,
    current_state,     \* statics of indicator_set
    current_host,
    reported           \* history: the last connection status handled

indVars == <<indicator_config, indicator_state, current_state, current_host>>

NONE     == 0
ON_OFF   == 3
BLINK    == 4

\* INDICATOR_CONFIG_...: type, on_time, off_time and duration
Config ==
    [pairing      |-> [type |-> BLINK,  on |-> 1000, off |-> 1000, duration |-> 0],
     connected    |-> [type |-> ON_OFF, on |-> 2000, off |-> 250,  duration |-> 2000],
     reconnecting |-> [type |-> BLINK,  on |-> 100,  off |-> 100,  duration |-> 600],
     disconnected |-> [type |-> NONE,   on |-> 100,  off |-> 100,  duration |-> 600]]

\* HOST_P2P4G | 1 for the 2.4 GHz receiver
Slot(h) == IF h = P24G_INDEX THEN 17 ELSE h

Off == [of |-> "disconnected", lit |-> FALSE, slot |-> 0, elapsed |-> 0]

\* indicator_config.value is not 0
Running(c) == c.lit \/ c.slot # 0

IndInit ==
    /\ Init
    /\ indicator_config = Off
    /\ indicator_state = "RESET"
    /\ current_state = "RESET"
    /\ current_host = 0
    /\ reported = "RESET"

-----------------------------------------------------------------------------

\* Mutant of TimerCb: the time that has passed is not counted.
TimerCbNoElapsed(c) ==
    LET k      == Config[c.of]
        lit    == IF k.type = BLINK THEN ~c.lit ELSE c.elapsed = 0
        period == IF lit THEN k.on ELSE IF k.type = BLINK THEN k.off ELSE k.duration - k.on
    IN IF ~Running(c) \/ k.type = NONE THEN Off
       ELSE IF (k.duration = 0 \/ c.elapsed <= k.duration) /\ period # 0
       THEN [c EXCEPT !.lit = lit]
       ELSE Off

\* indicator_timer_cb: the next step of an indication, or its end.  elapsed is
\* read only if there is a duration.
TimerCb(c) ==
    LET k      == Config[c.of]
        lit    == IF k.type = BLINK THEN ~c.lit ELSE c.elapsed = 0
        period == IF lit THEN k.on ELSE IF k.type = BLINK THEN k.off ELSE k.duration - k.on
    IN IF ~Running(c) \/ k.type = NONE THEN Off
       ELSE IF (k.duration = 0 \/ c.elapsed <= k.duration) /\ period # 0
       THEN [c EXCEPT !.lit = lit, !.elapsed = IF k.duration = 0 THEN 0 ELSE @ + period]
       ELSE Off

Started(of, lit, slot) == TimerCb([of |-> of, lit |-> lit, slot |-> slot, elapsed |-> 0])

\* Mutant of ConfigFor: a connection made by pairing only ends the blinking.
ConfigForReconnected(state, slot) ==
    CASE state = "CONNECTED" /\ indicator_state = "RECONNECTING" -> Started("connected", FALSE, slot)
      [] state = "CONNECTED" /\ indicator_state = "CONNECTED" -> indicator_config
      [] state = "CONNECTED" /\ indicator_state \notin {"CONNECTED", "RECONNECTING"} -> Off
      [] state = "PARING" -> Started("pairing", TRUE, slot)
      [] state = "RECONNECTING" -> Started("reconnecting", TRUE, slot)
      [] state \in {"DISCONNECTED", "SUSPEND"} -> Off

\* The switch of indicator_set.
ConfigFor(state, slot) ==
    CASE state = "CONNECTED" /\ indicator_state # "CONNECTED" -> Started("connected", FALSE, slot)
      [] state = "CONNECTED" /\ indicator_state = "CONNECTED" -> indicator_config
      [] state = "PARING" -> Started("pairing", TRUE, slot)
      [] state = "RECONNECTING" -> Started("reconnecting", TRUE, slot)
      [] state \in {"DISCONNECTED", "SUSPEND"} -> Off

\* indicator_set
IndicatorSet(state, h) ==
    LET hostChanged == current_host # Slot(h) /\ state # "DISCONNECTED"
        shown == transport # "USB"
                 /\ (current_state # state \/ hostChanged \/ state = "RECONNECTING")
    IN \/ /\ shown
          /\ current_host' = IF hostChanged THEN Slot(h) ELSE current_host
          /\ current_state' = state
          /\ indicator_state' = state
          /\ indicator_config' = ConfigFor(state, Slot(h))
       \/ /\ ~shown
          /\ UNCHANGED indVars

\* Mutant of EventIndication: the end of pairing shows nothing.
EventIndicationNoSleep(e) ==
    \/ /\ e.type \in {"CONNECTED", "RECONNECTING"} /\ IndicatorSet(e.type, e.host)
    \/ /\ e.type = "DISCOVERABLE" /\ IndicatorSet("PARING", e.host)
    \/ /\ e.type = "DISCONNECTED"
       /\ IndicatorSet(IF wireless_state = "CONNECTED" THEN "SUSPEND" ELSE "DISCONNECTED", e.host)
    \/ /\ e.type \notin {"CONNECTED", "RECONNECTING", "DISCOVERABLE", "DISCONNECTED"}
       /\ UNCHANGED indVars

\* What the handler of event e shows.
EventIndication(e) ==
    \/ /\ e.type \in {"CONNECTED", "RECONNECTING"} /\ IndicatorSet(e.type, e.host)
    \/ /\ e.type = "DISCOVERABLE" /\ IndicatorSet("PARING", e.host)
    \/ /\ e.type = "DISCONNECTED"
       /\ IndicatorSet(IF wireless_state = "CONNECTED" THEN "SUSPEND" ELSE "DISCONNECTED", e.host)
    \/ /\ e.type = "SLEEP" /\ wireless_state = "PARING" /\ IndicatorSet("SUSPEND", 0)
    \/ /\ \/ e.type = "SLEEP" /\ wireless_state # "PARING"
          \/ e.type \in {"RESET", "HID_INDICATOR", "PINCODE_ENTRY", "EXIT_PINCODE_ENTRY"}
       /\ UNCHANGED indVars

\* wireless_connect shows the reconnecting again if nothing is shown any more; a
\* low battery indication may be running as well.
ConnectIndication ==
    \/ /\ ~critical /\ wireless_state = "RECONNECTING" /\ ~Running(indicator_config)
       /\ IndicatorSet("RECONNECTING", host_index)
    \/ UNCHANGED indVars

\* indicator_stop and indicator_init in set_transport
SwitchIndication ==
    /\ transport' # transport
    /\ indicator_config' = Off
    /\ UNCHANGED <<indicator_state, current_state, current_host>>

\* indicator_task, which comes before lemokey_wireless_common_task, when the step
\* of the indication is over
IndicatorTask ==
    /\ phase = "common"
    /\ Running(indicator_config)
    /\ indicator_config' = TimerCb(indicator_config)
    /\ UNCHANGED <<indicator_state, current_state, current_host, reported, vars>>

ConnectionStatuses == Statuses \ {"HID_INDICATOR", "PINCODE_ENTRY", "EXIT_PINCODE_ENTRY"}

\* The composition: every step of the connection with what it shows.
IndNext ==
    \/ Next /\ SwitchIndication /\ UNCHANGED reported
    \/ /\ EventTask /\ EventIndication(Head(events))
       /\ reported' = IF Head(events).type \in ConnectionStatuses THEN Head(events).type ELSE reported
    \/ (SendKeyboard \/ SendExtra) /\ ConnectIndication /\ UNCHANGED reported
    \/ /\ Next /\ transport' = transport /\ ~EventTask /\ ~SendKeyboard /\ ~SendExtra
       /\ UNCHANGED <<indVars, reported>>
    \/ IndicatorTask

allVars == <<vars, indVars, reported>>

IndSpec == IndInit /\ [][IndNext]_allVars

-----------------------------------------------------------------------------
\* Properties.

\* Whatever order the events come in and whichever of them indicator_set drops
\* on USB or as a repetition, an indication that is running shows the state and
\* the host of the connection once all events are handled.
ShowsConnection ==
    Quiet /\ Running(indicator_config) =>
        CASE indicator_config.of = "pairing" -> wireless_state = "PARING"
          [] indicator_config.of = "reconnecting" -> wireless_state = "RECONNECTING"
          [] indicator_config.of = "connected" ->
                 wireless_state = "CONNECTED" /\ indicator_config.slot = Slot(host_index)

\* The statics of indicator_set never hide a new connection: the last event of
\* a series, if it reports a connection after any other status, lights up the
\* LED of its host.
ConnectionIsShown ==
    [][reported # "CONNECTED" /\ reported' = "CONNECTED" /\ Quiet' /\ transport # "USB"
         => indicator_config'.of = "connected" /\ indicator_config'.slot = Slot(host_index')
      ]_allVars

\* Once no event or key starts another indication, the one that is running ends,
\* unless the keyboard is pairing: nothing else keeps it from low power.
IndicationEnds ==
    <>[][EventTask \/ SendKeyboard \/ SendExtra => UNCHANGED indicator_config]_allVars
        => <>[](Running(indicator_config) => indicator_config.of = "pairing")
=============================================================================
