------------------------------ MODULE Wireless ------------------------------
(***************************************************************************)
(* The connection: wireless_state and what changes it (wireless.c), the    *)
(* transport switch (transport.c), the mode keys and the pairing key timer *)
(* (lemokey_wireless_common.c), the status frames of the radio module      *)
(* (lkbt51.c) and the module itself (external).                            *)
(*                                                                         *)
(* The main loop goes through the phases                                   *)
(*   keys     keyboard_task: keys are handled, and may switch transport    *)
(*   events   wireless_event_task, after one poll of the module            *)
(*   common   lemokey_wireless_common_task: the pairing key timer          *)
(*   battery  battery_task                                                 *)
(* A switch to a wireless transport leaves "keys" for "polling": it polls  *)
(* the module for 50 ms without handling the events that come in.  The     *)
(* module runs concurrently with all of it.                                *)
(*                                                                         *)
(* The event queue is the abstract one of EventFifo, which the ring of     *)
(* EventQueue is proved to implement.                                      *)
(***************************************************************************)
EXTENDS Naturals, Sequences

CONSTANTS
    BtHosts,     \* the bluetooth host slots, BT_HST1 .. BT_HST3
    P24G_INDEX,  \* the slot of the 2.4 GHz receiver
    LastHost,    \* 30: asks the module for the bluetooth slot used last
    Capacity,    \* WT_EVENT_QUEUE_SIZE - 1
    Repeats,     \* how often the module repeats a frame that is not acknowledged
    MaxFrames,   \* bound: status frames unread when keys and links act
    MaxResets    \* bound: how often the module restarts by itself

ASSUME HostAssumption ==
    /\ BtHosts \subseteq Nat \ {0} /\ BtHosts # {}
    /\ {P24G_INDEX, LastHost} \subseteq Nat \ ({0} \cup BtHosts)
    /\ P24G_INDEX # LastHost
    /\ Capacity \in Nat \ {0} /\ {Repeats, MaxFrames, MaxResets} \subseteq Nat

Hosts == BtHosts \cup {P24G_INDEX}

VARIABLES
    transport,
    wireless_state,
    host_index,
    led_state,           \* 0, or the host whose LED state this is
    pincodeEntry,
    firstDisconnect,     \* firstDisconnect, in the first second after boot
    critical,            \* battery_is_critical_low()
    pairing_key_timer,   \* whether a host key is held
    events,              \* the event queue
    phase,
    request,             \* host key that started the transport switch, or 0
    radio,               \* module: link state, slot, last bluetooth slot, unread
                         \* frames, reads of the first of them, restarts
    \* history, read by the properties only
    pairedOnUsb,         \* a held host key started pairing after MD_USB
    skipped              \* the last transport switch did not connect

mcu  == <<transport, wireless_state, host_index, led_state, pincodeEntry,
          firstDisconnect, critical, pairing_key_timer, events, phase, request>>
vars == <<mcu, radio, pairedOnUsb, skipped>>

Queue == INSTANCE EventFifo WITH Event <- {}, pending <- events, event <- phase

TRANSPORT_WIRELESS == {"BLUETOOTH", "P2P4"}

-----------------------------------------------------------------------------
\* The radio module.  A command takes effect at once; every change of state
\* adds a status frame, read later and in order.

\* A status frame and the event made of it.
Status(type, host) == [type |-> type, host |-> host]

\* Module state r after it moved to st on slot host, telling so.
Moved(r, st, host, status) ==
    [r EXCEPT !.st = st, !.host = host,
              !.last = IF host \in BtHosts THEN host ELSE @,
              !.frames = Append(@, Status(status, host))]

\* lkbt51_disconnect sends LKBT51_CMD_DISCONNECT.
Disconnected(r) == Moved(r, "IDLE", r.host, "DISCONNECTED")

\* A module that is connected tells that this link ends before it moves on.
Released(r) == IF r.st = "CONNECTED" THEN Disconnected(r) ELSE r

\* lkbt51_connect sends LKBT51_CMD_CONNECT: slot 0 is the current one.  Asked
\* for what it already has or is working on, the module says nothing.
Connecting(r, h) ==
    LET slot == CASE h = 0 -> r.host [] h = LastHost -> r.last [] OTHER -> h
    IN IF r.st \in {"RECONNECTING", "CONNECTED"} /\ r.host = slot
         THEN r
         ELSE Moved(Released(r), "RECONNECTING", slot, "RECONNECTING")

\* lkbt51_become_discoverable sends LKBT51_CMD_PAIRING, here with slot 0.
Pairing(r) == Moved(Released(r), "DISCOVERABLE", r.host, "DISCOVERABLE")

-----------------------------------------------------------------------------
\* The functions that change wireless_state together with the module.

Init ==
    /\ transport = "NONE"
    /\ wireless_state = "INITIALIZED"
    /\ host_index = 0
    /\ led_state = 0
    /\ pincodeEntry = FALSE
    /\ firstDisconnect = TRUE
    /\ critical = FALSE
    /\ pairing_key_timer = FALSE
    /\ events = <<>>
    /\ phase = "boot"
    /\ request = 0
    /\ \E h \in Hosts, l \in BtHosts :
           radio = [st |-> "IDLE", host |-> h, last |-> l,
                    frames |-> <<Status("DISCONNECTED", h)>>, reads |-> 0, resets |-> 0]
    /\ pairedOnUsb = FALSE
    /\ skipped = FALSE

\* Mutant of Connect: no test for a critical battery.
ConnectUnchecked ==
    /\ radio' = Connecting(radio, 0)
    /\ wireless_state' = "RECONNECTING"

\* wireless_connect
Connect ==
    \/ /\ critical
       /\ UNCHANGED <<wireless_state, radio>>
    \/ /\ ~critical
       /\ radio' = Connecting(radio, 0)
       /\ wireless_state' = "RECONNECTING"

\* wireless_connect_ex for a host key
ConnectEx(h) ==
    \/ /\ critical \/ (host_index = h /\ wireless_state = "CONNECTED")
       /\ UNCHANGED <<wireless_state, host_index, led_state, radio>>
    \/ /\ ~critical /\ ~(host_index = h /\ wireless_state = "CONNECTED")
       /\ host_index' = h
       /\ led_state' = 0
       /\ radio' = Connecting(radio, h)
       /\ wireless_state' = "RECONNECTING"

\* wireless_pairing_ex for slot 0
PairingEx ==
    \/ /\ critical
       /\ UNCHANGED <<wireless_state, host_index, radio>>
    \/ /\ ~critical
       /\ radio' = Pairing(radio)
       /\ wireless_state' = "PARING"
       /\ host_index' = 0

\* wireless_low_battery_shutdown
LowBatteryShutdown == radio' = Disconnected(radio)

\* Room for a key or a module step to add frames.
Room == Len(radio.frames) <= MaxFrames

-----------------------------------------------------------------------------
\* Switching transport.

\* set_transport(TRANSPORT_USB)
SwitchToUsb ==
    /\ transport' = "USB"
    /\ radio' = Disconnected(radio)
    /\ pairedOnUsb' = FALSE
    /\ skipped' = FALSE

\* set_transport(new) for a wireless transport, up to the polling; k is the
\* host key whose handler goes on after it, or 0.
SwitchToWireless(new, k) ==
    /\ transport' = new
    /\ radio' = Disconnected(radio)
    /\ phase' = "polling"
    /\ request' = k
    /\ pairedOnUsb' = FALSE
    /\ skipped' = FALSE

\* The module after its first frame was read: it repeats a connection status
\* when lkbt51_send_conn_evt_ack does not get through.
Read(r) ==
    {[r EXCEPT !.frames = Tail(@), !.reads = 0]} \cup
    IF Head(r.frames).type \notin {"HID_INDICATOR", "RESET"} /\ r.reads < Repeats
      THEN {[r EXCEPT !.reads = @ + 1]} ELSE {}

\* Mutant of ReadFrame: an event that finds the queue full is refused.
ReadFrameRefusing ==
    /\ radio.frames # <<>>
    /\ events' = IF Len(events) = Capacity THEN events
                 ELSE Append(events, Head(radio.frames))
    /\ radio' \in Read(radio)

\* lkbt51_task with a status frame ready
ReadFrame ==
    /\ radio.frames # <<>>
    /\ events' = Queue!Push(events, Head(radio.frames))
    /\ radio' \in Read(radio)

\* wireless_transport.task in the loop of bt_transport_enable
PollModule ==
    /\ phase = "polling"
    /\ ReadFrame
    /\ UNCHANGED <<transport, wireless_state, host_index, led_state, pincodeEntry,
                   firstDisconnect, critical, pairing_key_timer, phase, request,
                   pairedOnUsb, skipped>>

\* Mutant of EndPolling: asks for the current slot on any transport.
EndPollingCurrentSlot ==
    /\ phase = "polling"
    /\ phase' = "keys"
    /\ request' = 0
    /\ pairing_key_timer' = (pairing_key_timer \/ request # 0)
    /\ \/ critical /\ UNCHANGED <<wireless_state, radio>>
       \/ ~critical /\ radio' = Connecting(radio, 0) /\ wireless_state' = "RECONNECTING"
    /\ skipped' = (radio' = radio)
    /\ UNCHANGED <<transport, host_index, led_state, pincodeEntry, firstDisconnect,
                   critical, events, pairedOnUsb>>

\* Mutant of EndPolling: after boot a bluetooth transport takes the current slot.
EndPollingCurrentAtBoot ==
    /\ phase = "polling"
    /\ phase' = "keys"
    /\ request' = 0
    /\ pairing_key_timer' = (pairing_key_timer \/ request # 0)
    /\ \/ transport = "P2P4" /\ ConnectEx(P24G_INDEX)
       \/ transport = "BLUETOOTH" /\ ConnectEx(request)
    /\ skipped' = (radio' = radio)
    /\ UNCHANGED <<transport, pincodeEntry, firstDisconnect, critical, events,
                   pairedOnUsb>>

\* After 50 ms: wireless_connect_ex with the slot of the transport, then the
\* rest of the key's handler, which connects to the host asked for.
EndPolling ==
    /\ phase = "polling"
    /\ phase' = "keys"
    /\ request' = 0
    /\ pairing_key_timer' = (pairing_key_timer \/ request # 0)
    /\ \/ /\ transport = "P2P4"
          /\ ConnectEx(P24G_INDEX)
       \/ /\ transport = "BLUETOOTH" /\ request = 0
          /\ ConnectEx(LastHost)
       \/ /\ transport = "BLUETOOTH" /\ request # 0 /\ critical
          /\ UNCHANGED <<wireless_state, host_index, led_state, radio>>
       \/ /\ transport = "BLUETOOTH" /\ request # 0 /\ ~critical
          /\ host_index' = request
          /\ led_state' = 0
          /\ radio' = Connecting(Connecting(radio, LastHost), request)
          /\ wireless_state' = "RECONNECTING"
    /\ skipped' = (radio' = radio)
    /\ UNCHANGED <<transport, pincodeEntry, firstDisconnect, critical, events,
                   pairedOnUsb>>

-----------------------------------------------------------------------------
\* Phase "keys": process_record_lemokey_wireless and the host driver.

\* wireless_pre_task the first time: the transport stored in EEPROM.
PreTask ==
    /\ phase = "boot"
    /\ \/ \E t \in TRANSPORT_WIRELESS : SwitchToWireless(t, 0)
       \/ SwitchToUsb /\ phase' = "keys" /\ UNCHANGED request
       \/ phase' = "keys" /\ UNCHANGED <<transport, radio, request, pairedOnUsb, skipped>>
    /\ UNCHANGED <<wireless_state, host_index, led_state, pincodeEntry,
                   firstDisconnect, critical, pairing_key_timer, events>>

\* BT_HST1 .. BT_HST3 pressed
PressHost(h) ==
    /\ phase = "keys" /\ Room
    /\ \/ /\ transport # "BLUETOOTH"
          /\ SwitchToWireless("BLUETOOTH", h)
          /\ UNCHANGED <<wireless_state, host_index, led_state, pairing_key_timer>>
       \/ /\ transport = "BLUETOOTH"
          /\ pairing_key_timer' = TRUE
          /\ ConnectEx(h)
          /\ UNCHANGED <<transport, phase, request, pairedOnUsb, skipped>>
    /\ UNCHANGED <<pincodeEntry, firstDisconnect, critical, events>>

\* P2P4G pressed
PressP24g ==
    /\ phase = "keys" /\ Room
    /\ \/ /\ transport # "P2P4"
          /\ SwitchToWireless("P2P4", P24G_INDEX)
          /\ UNCHANGED pairing_key_timer
       \/ /\ transport = "P2P4"
          /\ pairing_key_timer' = TRUE
          /\ UNCHANGED <<transport, phase, request, radio, pairedOnUsb, skipped>>
    /\ UNCHANGED <<wireless_state, host_index, led_state, pincodeEntry,
                   firstDisconnect, critical, events>>

\* A host key released
ReleaseHost ==
    /\ phase = "keys"
    /\ pairing_key_timer
    /\ pairing_key_timer' = FALSE
    /\ UNCHANGED <<transport, wireless_state, host_index, led_state, pincodeEntry,
                   firstDisconnect, critical, events, phase, request, radio,
                   pairedOnUsb, skipped>>

\* MD_USB pressed with the cable plugged in
PressUsb ==
    /\ phase = "keys" /\ Room
    /\ transport # "USB"
    /\ SwitchToUsb
    /\ UNCHANGED <<wireless_state, host_index, led_state, pincodeEntry,
                   firstDisconnect, critical, pairing_key_timer, events, phase,
                   request>>

\* Mutant of SendKeyboard: keys are ignored after the module has gone to sleep.
SendKeyboardNotSuspended ==
    /\ phase = "keys" /\ Room
    /\ transport \in TRANSPORT_WIRELESS
    /\ wireless_state \notin {"CONNECTED", "PARING", "RESET", "SUSPEND"}
    /\ Connect
    /\ UNCHANGED <<transport, host_index, led_state, pincodeEntry, firstDisconnect,
                   critical, pairing_key_timer, events, phase, request,
                   pairedOnUsb, skipped>>

\* wireless_send_keyboard without a connection; connected or in PIN code entry it
\* only queues the report, and while pairing it does nothing.
SendKeyboard ==
    /\ phase = "keys" /\ Room
    /\ transport \in TRANSPORT_WIRELESS
    /\ wireless_state \notin {"CONNECTED", "PARING", "RESET"}
    /\ Connect
    /\ UNCHANGED <<transport, host_index, led_state, pincodeEntry, firstDisconnect,
                   critical, pairing_key_timer, events, phase, request,
                   pairedOnUsb, skipped>>

\* wireless_send_mouse, _system and _consumer connect while pairing too.
SendExtra ==
    /\ phase = "keys" /\ Room
    /\ transport \in TRANSPORT_WIRELESS
    /\ wireless_state = "PARING"
    /\ Connect
    /\ UNCHANGED <<transport, host_index, led_state, pincodeEntry, firstDisconnect,
                   critical, pairing_key_timer, events, phase, request,
                   pairedOnUsb, skipped>>

-----------------------------------------------------------------------------
\* wireless_task.

\* wireless_transport.task reads one frame if there is one.
TransportTask ==
    /\ phase = "keys"
    /\ phase' = "events"
    /\ \/ ReadFrame
       \/ radio.frames = <<>> /\ UNCHANGED <<events, radio>>
    /\ UNCHANGED <<transport, wireless_state, host_index, led_state, pincodeEntry,
                   firstDisconnect, critical, pairing_key_timer, request,
                   pairedOnUsb, skipped>>

\* Mutant of EnterDisconnectedKb: connects after boot on any transport.
EnterDisconnectedKbAnyTransport ==
    /\ \/ /\ firstDisconnect /\ ~critical
          /\ radio' = Connecting(radio, 0)
          /\ wireless_state' = "RECONNECTING"
       \/ /\ ~(firstDisconnect /\ ~critical)
          /\ wireless_state' = "DISCONNECTED"
          /\ UNCHANGED radio
    /\ firstDisconnect' = FALSE

\* wireless_enter_disconnected_kb, called with wireless_state DISCONNECTED:
\* connects if this is the module's first disconnect after boot.
EnterDisconnectedKb ==
    /\ \/ /\ firstDisconnect /\ transport = "BLUETOOTH" /\ ~critical
          /\ radio' = Connecting(radio, 0)
          /\ wireless_state' = "RECONNECTING"
       \/ /\ ~(firstDisconnect /\ transport = "BLUETOOTH" /\ ~critical)
          /\ wireless_state' = "DISCONNECTED"
          /\ UNCHANGED radio
    /\ firstDisconnect' = FALSE

\* Mutant of EnterDisconnected: the LED state is not reset.
EnterDisconnectedKeepLed ==
    /\ EnterDisconnectedKb
    /\ UNCHANGED <<host_index, pincodeEntry, led_state>>

\* wireless_enter_disconnected
EnterDisconnected ==
    /\ led_state' = 0
    /\ EnterDisconnectedKb
    /\ UNCHANGED <<host_index, pincodeEntry>>

\* wireless_enter_sleep
EnterSleep ==
    /\ led_state' = 0
    /\ wireless_state' = IF wireless_state = "PARING" THEN "SUSPEND" ELSE wireless_state
    /\ UNCHANGED <<host_index, pincodeEntry, firstDisconnect, radio>>

\* The handlers that set wireless_state and host_index from the event.
Enter(state, h) ==
    /\ wireless_state' = state
    /\ host_index' = h
    /\ UNCHANGED <<led_state, pincodeEntry, firstDisconnect, radio>>

\* wireless_event_task handles one event.
EventTask ==
    /\ phase = "events"
    /\ events # <<>>
    /\ events' = Tail(events)
    /\ LET e == Head(events) IN
       \/ e.type = "RESET" /\ Enter("RESET", host_index)
       \/ e.type = "CONNECTED" /\ Enter("CONNECTED", e.host)
       \/ e.type = "DISCOVERABLE" /\ Enter("PARING", e.host)
       \/ e.type = "RECONNECTING" /\ Enter("RECONNECTING", e.host)
       \/ e.type = "DISCONNECTED" /\ EnterDisconnected
       \/ e.type = "SLEEP" /\ EnterSleep
       \/ /\ e.type \in {"PINCODE_ENTRY", "EXIT_PINCODE_ENTRY"}
          /\ pincodeEntry' = (e.type = "PINCODE_ENTRY")
          /\ UNCHANGED <<wireless_state, host_index, led_state, firstDisconnect, radio>>
       \/ /\ e.type = "HID_INDICATOR"
          /\ led_state' = e.host
          /\ UNCHANGED <<wireless_state, host_index, pincodeEntry, firstDisconnect, radio>>
    /\ UNCHANGED <<transport, critical, pairing_key_timer, phase, request,
                   pairedOnUsb, skipped>>

EventsDone ==
    /\ phase = "events"
    /\ events = <<>>
    /\ phase' = "common"
    /\ UNCHANGED <<transport, wireless_state, host_index, led_state, pincodeEntry,
                   firstDisconnect, critical, pairing_key_timer, events, request,
                   radio, pairedOnUsb, skipped>>

\* lemokey_wireless_common_task, with the host key held for two seconds or not.
\* The host_idx it passes is never set: the handler's static one hides it.
CommonTask ==
    /\ phase = "common"
    /\ phase' = "battery"
    /\ \/ /\ pairing_key_timer /\ Room
          /\ pairing_key_timer' = FALSE
          /\ PairingEx
          /\ pairedOnUsb' = IF critical THEN pairedOnUsb ELSE transport = "USB"
       \/ UNCHANGED <<pairing_key_timer, wireless_state, host_index, radio, pairedOnUsb>>
    /\ UNCHANGED <<transport, led_state, pincodeEntry, firstDisconnect, critical,
                   events, request, skipped>>

\* battery_task: nothing new, battery_check_critical_low counts to its limit
\* (while connected, or with the samples taken after power on), the cable is
\* plugged in, or both at once.
BatteryTask ==
    /\ phase = "battery"
    /\ phase' = "keys"
    /\ \/ UNCHANGED <<critical, radio>>
       \/ /\ transport \in TRANSPORT_WIRELESS /\ ~critical /\ Room
          /\ critical' \in BOOLEAN
          /\ LowBatteryShutdown
       \/ /\ critical
          /\ critical' = FALSE
          /\ UNCHANGED radio
    /\ UNCHANGED <<transport, wireless_state, host_index, led_state, pincodeEntry,
                   firstDisconnect, pairing_key_timer, events, request,
                   pairedOnUsb, skipped>>

-----------------------------------------------------------------------------
\* What the module does by itself.

\* The host answers a connection request.
Reconnected ==
    /\ radio.st = "RECONNECTING" /\ Room
    /\ radio' = Moved(radio, "CONNECTED", radio.host, "CONNECTED")
    /\ UNCHANGED <<mcu, pairedOnUsb, skipped>>

\* A host pairs.
Paired ==
    /\ radio.st = "DISCOVERABLE" /\ Room
    /\ radio' = Moved(radio, "CONNECTED", radio.host, "CONNECTED")
    /\ UNCHANGED <<mcu, pairedOnUsb, skipped>>

\* The host goes away or does not answer in time.
LinkLost ==
    /\ radio.st \in {"RECONNECTING", "CONNECTED"} /\ Room
    /\ radio' = Disconnected(radio)
    /\ UNCHANGED <<mcu, pairedOnUsb, skipped>>

\* Nobody pairs for pairing_timeout seconds.
PairingTimeout ==
    /\ radio.st = "DISCOVERABLE" /\ Room
    /\ radio' = Moved(radio, "IDLE", radio.host, "SLEEP")
    /\ UNCHANGED <<mcu, pairedOnUsb, skipped>>

\* The host asks for a PIN, or for no more digits.
PinCode ==
    /\ radio.st = "DISCOVERABLE" /\ Room
    /\ \E s \in {"PINCODE_ENTRY", "EXIT_PINCODE_ENTRY"} :
           radio' = Moved(radio, "DISCOVERABLE", radio.host, s)
    /\ UNCHANGED <<mcu, pairedOnUsb, skipped>>

\* The host sets its keyboard LEDs.
HostLeds ==
    /\ radio.st = "CONNECTED" /\ Room
    /\ radio' = Moved(radio, "CONNECTED", radio.host, "HID_INDICATOR")
    /\ UNCHANGED <<mcu, pairedOnUsb, skipped>>

\* The module restarts: what it had to say is lost, it reports the reset and then
\* that it is disconnected.
ModuleReset ==
    /\ radio.resets < MaxResets
    /\ radio' = Disconnected(
                  Moved([radio EXCEPT !.frames = <<>>, !.reads = 0, !.resets = @ + 1],
                        "IDLE", radio.host, "RESET"))
    /\ UNCHANGED <<mcu, pairedOnUsb, skipped>>

\* The first second after boot is over.
BootOver ==
    /\ firstDisconnect
    /\ firstDisconnect' = FALSE
    /\ UNCHANGED <<transport, wireless_state, host_index, led_state, pincodeEntry,
                   critical, pairing_key_timer, events, phase, request, radio,
                   pairedOnUsb, skipped>>

Loop == PreTask \/ EndPolling \/ TransportTask \/ EventTask \/ EventsDone
        \/ CommonTask \/ BatteryTask

Next ==
    \/ PreTask \/ PollModule \/ EndPolling
    \/ (\E h \in BtHosts : PressHost(h)) \/ PressP24g \/ ReleaseHost \/ PressUsb
    \/ SendKeyboard \/ SendExtra
    \/ TransportTask \/ EventTask \/ EventsDone \/ CommonTask \/ BatteryTask
    \/ Reconnected \/ Paired \/ LinkLost \/ PairingTimeout \/ PinCode \/ HostLeds
    \/ ModuleReset \/ BootOver

Spec == Init /\ [][Next]_vars

\* The main loop runs for ever; somebody types; a host that is asked to connect
\* again and again answers some time; pairing times out.
FairSpec ==
    /\ Spec
    /\ WF_vars(Loop)
    /\ SF_vars(SendKeyboard)
    /\ SF_vars(Reconnected)
    /\ SF_vars(PairingTimeout)

-----------------------------------------------------------------------------
\* Properties.

WtStates == {"RESET", "INITIALIZED", "DISCONNECTED", "CONNECTED", "PARING",
             "RECONNECTING", "SUSPEND"}
Statuses == {"RESET", "CONNECTED", "DISCOVERABLE", "RECONNECTING", "DISCONNECTED",
             "PINCODE_ENTRY", "EXIT_PINCODE_ENTRY", "SLEEP", "HID_INDICATOR"}

Frames == [type : Statuses, host : Hosts]
Radios == [st : {"IDLE", "RECONNECTING", "CONNECTED", "DISCOVERABLE"},
           host : Hosts, last : BtHosts, frames : Seq(Frames),
           reads : 0 .. Repeats, resets : 0 .. MaxResets]

TypeOK ==
    /\ transport \in TRANSPORT_WIRELESS \cup {"NONE", "USB"}
    /\ wireless_state \in WtStates
    /\ host_index \in Hosts \cup {0, LastHost}
    /\ led_state \in Hosts \cup {0}
    /\ pincodeEntry \in BOOLEAN /\ firstDisconnect \in BOOLEAN /\ critical \in BOOLEAN
    /\ pairing_key_timer \in BOOLEAN /\ pairedOnUsb \in BOOLEAN /\ skipped \in BOOLEAN
    /\ events \in Seq(Frames) /\ Len(events) <= Capacity
    /\ phase \in {"boot", "keys", "polling", "events", "common", "battery"}
    /\ request \in Hosts \cup {0}
    /\ radio \in Radios

\* Nothing the module said is still unread or unhandled.
Quiet == radio.frames = <<>> /\ events = <<>>

\* Once everything is handled the firmware and the module agree on whether and
\* to whom there is a connection, although wireless_connect_ex and the pairing
\* timer set wireless_state themselves and a transport switch collects events
\* that are handled after the new connection request.
Agreement ==
    Quiet /\ phase # "polling" =>
        /\ wireless_state = "CONNECTED" <=> radio.st = "CONNECTED"
        /\ wireless_state = "CONNECTED" => host_index = radio.host

\* The keyboard LEDs of one host never show on a connection to another one.
LedsOfThisHost ==
    Quiet /\ wireless_state = "CONNECTED" => led_state \in {0, host_index}

\* On USB the radio stays silent, whatever was queued when MD_USB was pressed,
\* unless a host key still held starts pairing.
SilentOnUsb ==
    Quiet /\ transport = "USB" /\ ~pairedOnUsb => radio.st = "IDLE"

\* A connection is to a host of the transport that was chosen, unless the
\* switch to it did not connect: the module then keeps its former slot.
HostOfTransport ==
    Quiet /\ wireless_state = "CONNECTED" /\ ~skipped =>
        /\ transport = "BLUETOOTH" => host_index \in BtHosts
        /\ transport = "P2P4" => host_index = P24G_INDEX

\* A switch to a wireless transport disconnects and then connects again.
SwitchReconnects == [][EndPolling /\ ~critical => radio'.st = "RECONNECTING"]_vars

\* From the moment the battery is found critical the radio is off, whatever is
\* pressed, queued or switched, until the cable is plugged in.
SilentWhenCritical == critical => radio.st = "IDLE"

\* Keys pressed on a wireless transport lead to a connection again and again,
\* once the user leaves the mode keys alone and the battery lasts: no order of
\* frames, switches and pairing leaves the firmware in a state that ignores the
\* keys.
KeepsConnecting ==
    /\ <>[](/\ transport \in TRANSPORT_WIRELESS /\ ~critical
            /\ phase # "polling" /\ ~pairing_key_timer)
    /\ <>[][BatteryTask => UNCHANGED radio]_vars
    => []<>(wireless_state = "CONNECTED")
=============================================================================
