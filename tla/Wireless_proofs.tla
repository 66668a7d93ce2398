-------------------------- MODULE Wireless_proofs --------------------------
(***************************************************************************)
(* Proofs about Wireless for every set of host slots, queue capacity and   *)
(* number of repeated frames.                                              *)
(***************************************************************************)
EXTENDS Wireless, TLAPS

USE HostAssumption

-----------------------------------------------------------------------------
\* The module's operations.

(* Moving to a state of the module's keeps the module well typed.           *)
LEMMA MovedType ==
  ASSUME NEW r, r \in Radios,
         NEW st, st \in {"IDLE", "RECONNECTING", "CONNECTED", "DISCOVERABLE"},
         NEW host, host \in Hosts, NEW status, status \in Statuses
  PROVE  Moved(r, st, host, status) \in Radios /\ Moved(r, st, host, status).st = st
  <1>1. Status(status, host) \in Frames
    BY DEF Status, Frames
  <1>2. Append(r.frames, Status(status, host)) \in Seq(Frames)
    BY <1>1 DEF Radios
  <1> QED BY <1>2 DEF Moved, Radios, Hosts

(* LKBT51_CMD_DISCONNECT leaves the module idle.                            *)
LEMMA DisconnectedType ==
  ASSUME NEW r, r \in Radios
  PROVE  Disconnected(r) \in Radios /\ Disconnected(r).st = "IDLE"
  BY MovedType DEF Disconnected, Statuses, Radios

(* Giving up a link first keeps the module well typed.                      *)
LEMMA ReleasedType ==
  ASSUME NEW r, r \in Radios PROVE Released(r) \in Radios
  BY DisconnectedType DEF Released

(* LKBT51_CMD_CONNECT keeps the module well typed.                          *)
LEMMA ConnectingType ==
  ASSUME NEW r, r \in Radios, NEW h, h \in Hosts \cup {0, LastHost}
  PROVE  Connecting(r, h) \in Radios
  <1> DEFINE slot == CASE h = 0 -> r.host [] h = LastHost -> r.last [] OTHER -> h
  <1>1. slot \in Hosts
    BY DEF Radios, Hosts
  <1> HIDE DEF slot
  <1>2. Moved(Released(r), "RECONNECTING", slot, "RECONNECTING") \in Radios
    BY <1>1, ReleasedType, MovedType DEF Statuses
  <1> QED BY <1>2 DEF Connecting, slot

(* LKBT51_CMD_PAIRING keeps the module well typed.                          *)
LEMMA PairingType ==
  ASSUME NEW r, r \in Radios PROVE Pairing(r) \in Radios
  <1>1. r.host \in Hosts
    BY DEF Radios
  <1> QED BY <1>1, ReleasedType, MovedType DEF Pairing, Statuses

(* Reading a frame does not change the link.                                *)
LEMMA ReadType ==
  ASSUME NEW r, r \in Radios, r.frames # <<>>, NEW s, s \in Read(r)
  PROVE  s \in Radios /\ s.st = r.st
  <1>1. Tail(r.frames) \in Seq(Frames)
    BY DEF Radios
  <1>0. 0 \in 0 .. Repeats
    OBVIOUS
  <1>2. CASE s = [r EXCEPT !.frames = Tail(r.frames), !.reads = 0]
    BY <1>0, <1>1, <1>2 DEF Radios
  <1>3. CASE s = [r EXCEPT !.reads = r.reads + 1] /\ r.reads < Repeats
    BY <1>3 DEF Radios
  <1> QED BY <1>2, <1>3 DEF Read

(* lkbt51_task keeps the event queue within its capacity.                   *)
LEMMA ReadFrameType ==
  ASSUME TypeOK, ReadFrame
  PROVE  /\ events' \in Seq(Frames) /\ Len(events') <= Capacity
         /\ radio' \in Radios /\ radio'.st = radio.st
  <1>1. radio \in Radios /\ radio.frames # <<>> /\ radio' \in Read(radio)
    BY DEF TypeOK, ReadFrame
  <1>2. radio.frames \in Seq(Frames)
    BY <1>1 DEF Radios
  <1>3. Head(radio.frames) \in Frames
    BY <1>1, <1>2
  <1>4. events' = Queue!Push(events, Head(radio.frames))
    BY DEF ReadFrame
  <1>5. events' \in Seq(Frames) /\ Len(events') <= Capacity
    BY <1>3, <1>4 DEF TypeOK, Queue!Push
  <1> QED BY <1>1, <1>5, ReadType

-----------------------------------------------------------------------------
WInv == TypeOK /\ SilentWhenCritical

(* The firmware starts with a usable battery.                               *)
LEMMA InitWInv == Init => WInv
  <1> SUFFICES ASSUME Init PROVE WInv
    OBVIOUS
  <1>1. ASSUME NEW h, NEW l, h \in Hosts, l \in BtHosts,
               radio = [st |-> "IDLE", host |-> h, last |-> l,
                        frames |-> <<Status("DISCONNECTED", h)>>, reads |-> 0,
                        resets |-> 0]
        PROVE  radio \in Radios
    <2>1. Status("DISCONNECTED", h) \in Frames
      BY <1>1 DEF Status, Frames, Statuses
    <2>2. 0 \in 0 .. Repeats /\ 0 \in 0 .. MaxResets
      OBVIOUS
    <2>3. <<Status("DISCONNECTED", h)>> \in Seq(Frames)
      BY <2>1
    <2> QED BY <1>1, <2>2, <2>3 DEF Radios
  <1>2. radio \in Radios
    BY <1>1 DEF Init
  <1>3. events \in Seq(Frames) /\ Len(events) <= Capacity
    BY DEF Init
  <1>4. TypeOK
    BY <1>2, <1>3 DEF Init, TypeOK, WtStates
  <1> QED BY <1>4 DEF Init, WInv, SilentWhenCritical

(* What wireless_connect and wireless_connect_ex leave.                     *)
LEMMA ConnectType ==
  ASSUME TypeOK, Connect
  PROVE  /\ radio' \in Radios /\ wireless_state' \in WtStates
         /\ critical => radio' = radio
  <1>1. Connecting(radio, 0) \in Radios
    BY ConnectingType DEF TypeOK
  <1> QED BY <1>1 DEF Connect, TypeOK, WtStates

(* With a critical battery wireless_connect_ex leaves the module alone.     *)
LEMMA ConnectExType ==
  ASSUME TypeOK, NEW h, h \in Hosts \cup {LastHost}, ConnectEx(h)
  PROVE  /\ radio' \in Radios /\ wireless_state' \in WtStates
         /\ host_index' \in Hosts \cup {0, LastHost} /\ led_state' \in Hosts \cup {0}
         /\ critical => radio' = radio
  <1>1. Connecting(radio, h) \in Radios
    BY ConnectingType DEF TypeOK
  <1> QED BY <1>1 DEF ConnectEx, TypeOK, WtStates

(* Steps of the module alone.                                               *)
LEMMA ModuleStep ==
  ASSUME WInv, UNCHANGED <<mcu, pairedOnUsb, skipped>>, radio' \in Radios,
         radio.st = "IDLE" => radio'.st = "IDLE"
  PROVE  WInv'
  <1>1. TypeOK'
    BY DEF WInv, TypeOK, mcu
  <1>2. SilentWhenCritical'
    BY DEF WInv, SilentWhenCritical, mcu
  <1> QED BY <1>1, <1>2 DEF WInv

(* An idle module does nothing by itself.                                   *)
LEMMA ModuleWInv ==
    WInv /\ (Reconnected \/ Paired \/ LinkLost \/ PairingTimeout \/ PinCode \/ HostLeds)
    => WInv'
  <1> SUFFICES ASSUME WInv, Reconnected \/ Paired \/ LinkLost \/ PairingTimeout
                            \/ PinCode \/ HostLeds
               PROVE  WInv'
    OBVIOUS
  <1>1. radio \in Radios /\ radio.host \in Hosts
    BY DEF WInv, TypeOK, Radios
  <1>2. radio' \in Radios
    BY <1>1, MovedType, DisconnectedType
       DEF Reconnected, Paired, LinkLost, PairingTimeout, PinCode, HostLeds, Statuses
  <1>3. radio.st # "IDLE" /\ UNCHANGED <<mcu, pairedOnUsb, skipped>>
    BY DEF Reconnected, Paired, LinkLost, PairingTimeout, PinCode, HostLeds
  <1> QED BY <1>2, <1>3, ModuleStep

(* A restarted module is idle.                                              *)
LEMMA ModuleResetWInv == WInv /\ ModuleReset => WInv'
  <1> SUFFICES ASSUME WInv, ModuleReset PROVE WInv'
    OBVIOUS
  <1> DEFINE r == [radio EXCEPT !.frames = <<>>, !.reads = 0, !.resets = radio.resets + 1]
  <1>1. radio \in Radios /\ radio.resets < MaxResets
    BY DEF WInv, TypeOK, ModuleReset
  <1>2. 0 \in 0 .. Repeats /\ radio.resets + 1 \in 0 .. MaxResets
        /\ <<>> \in Seq(Frames)
    BY <1>1 DEF Radios
  <1>3. r \in Radios /\ radio.host \in Hosts
    BY <1>1, <1>2 DEF Radios
  <1>4. radio' = Disconnected(Moved(r, "IDLE", radio.host, "RESET"))
    BY DEF ModuleReset
  <1> HIDE DEF r
  <1>5. radio' \in Radios /\ radio'.st = "IDLE"
    BY <1>3, <1>4, MovedType, DisconnectedType DEF Statuses
  <1> QED BY <1>5, ModuleStep DEF ModuleReset

(* A transport switch begins by disconnecting.                              *)
LEMMA SwitchWInv == WInv /\ (PreTask \/ PressP24g \/ PressUsb) => WInv'
  <1> SUFFICES ASSUME WInv, PreTask \/ PressP24g \/ PressUsb PROVE WInv'
    OBVIOUS
  <1>1. Disconnected(radio) \in Radios /\ Disconnected(radio).st = "IDLE"
    BY DisconnectedType DEF WInv, TypeOK
  <1>2. radio' = radio \/ radio' = Disconnected(radio)
    BY DEF PreTask, PressP24g, PressUsb, SwitchToWireless, SwitchToUsb
  <1>3. radio' \in Radios /\ (radio.st = "IDLE" => radio'.st = "IDLE")
    BY <1>1, <1>2 DEF WInv, TypeOK
  <1>4. UNCHANGED <<wireless_state, host_index, led_state, pincodeEntry,
                    firstDisconnect, critical, events>>
    BY DEF PreTask, PressP24g, PressUsb
  <1>5. transport' \in TRANSPORT_WIRELESS \cup {"NONE", "USB"}
    BY DEF WInv, TypeOK, PreTask, PressP24g, PressUsb, SwitchToWireless, SwitchToUsb,
       TRANSPORT_WIRELESS
  <1>6. phase' \in {"boot", "keys", "polling", "events", "common", "battery"}
    BY DEF WInv, TypeOK, PreTask, PressP24g, PressUsb, SwitchToWireless
  <1>7. request' \in Hosts \cup {0}
    BY DEF WInv, TypeOK, PreTask, PressP24g, PressUsb, SwitchToWireless, Hosts
  <1>8. pairing_key_timer' \in BOOLEAN
    BY DEF WInv, TypeOK, PreTask, PressP24g, PressUsb
  <1>9. pairedOnUsb' \in BOOLEAN /\ skipped' \in BOOLEAN
    BY DEF WInv, TypeOK, PreTask, PressP24g, PressUsb, SwitchToWireless, SwitchToUsb
  <1>10. TypeOK'
    BY <1>3, <1>4, <1>5, <1>6, <1>7, <1>8, <1>9 DEF WInv, TypeOK
  <1> QED BY <1>3, <1>4, <1>10 DEF WInv, SilentWhenCritical

(* A host key switches or connects.                                         *)
LEMMA PressHostWInv ==
  ASSUME WInv, NEW h \in BtHosts, PressHost(h) PROVE WInv'
  <1>1. TypeOK /\ h \in Hosts
    BY DEF WInv, Hosts
  <1>2. CASE /\ SwitchToWireless("BLUETOOTH", h)
             /\ UNCHANGED <<wireless_state, host_index, led_state, pairing_key_timer>>
    <2>1. radio' \in Radios /\ radio'.st = "IDLE"
      BY <1>1, <1>2, DisconnectedType DEF SwitchToWireless, TypeOK
    <2>2. TypeOK'
      BY <1>1, <1>2, <2>1 DEF PressHost, SwitchToWireless, TypeOK, TRANSPORT_WIRELESS
    <2> QED BY <2>1, <2>2 DEF WInv, SilentWhenCritical
  <1>3. CASE /\ pairing_key_timer' = TRUE /\ ConnectEx(h)
             /\ UNCHANGED <<transport, phase, request, pairedOnUsb, skipped>>
    <2>1. /\ radio' \in Radios /\ wireless_state' \in WtStates
          /\ host_index' \in Hosts \cup {0, LastHost} /\ led_state' \in Hosts \cup {0}
          /\ critical => radio' = radio
      BY <1>1, <1>3, ConnectExType
    <2>2. TypeOK'
      BY <1>1, <1>3, <2>1 DEF PressHost, TypeOK
    <2> QED BY <2>1, <2>2 DEF WInv, SilentWhenCritical, PressHost
  <1> QED BY <1>2, <1>3 DEF PressHost

(* Ordinary keys connect only through wireless_connect.                     *)
LEMMA KeyWInv ==
    WInv /\ (ReleaseHost \/ SendKeyboard \/ SendExtra \/ BootOver) => WInv'
  <1> SUFFICES ASSUME WInv, ReleaseHost \/ SendKeyboard \/ SendExtra \/ BootOver
               PROVE  WInv'
    OBVIOUS
  <1>1. CASE ReleaseHost \/ BootOver
    <2>1. TypeOK'
      BY <1>1 DEF WInv, TypeOK, ReleaseHost, BootOver
    <2> QED BY <1>1, <2>1 DEF WInv, SilentWhenCritical, ReleaseHost, BootOver
  <1>2. CASE SendKeyboard \/ SendExtra
    <2>1. Connect /\ UNCHANGED <<transport, host_index, led_state, pincodeEntry,
                      firstDisconnect, critical, pairing_key_timer, events, phase,
                      request, pairedOnUsb, skipped>>
      BY <1>2 DEF SendKeyboard, SendExtra
    <2>2. /\ radio' \in Radios /\ wireless_state' \in WtStates
          /\ critical => radio' = radio
      BY <2>1, ConnectType DEF WInv
    <2>3. TypeOK'
      BY <2>1, <2>2 DEF WInv, TypeOK
    <2> QED BY <2>1, <2>2, <2>3 DEF WInv, SilentWhenCritical
  <1> QED BY <1>1, <1>2

(* Polling the module does not change its link.                             *)
LEMMA PollWInv == WInv /\ (PollModule \/ TransportTask) => WInv'
  <1> SUFFICES ASSUME WInv, PollModule \/ TransportTask PROVE WInv'
    OBVIOUS
  <1>1. /\ events' \in Seq(Frames) /\ Len(events') <= Capacity
        /\ radio' \in Radios /\ radio'.st = radio.st
    <2>1. CASE ReadFrame
      BY <2>1, ReadFrameType DEF WInv
    <2>2. CASE UNCHANGED <<events, radio>>
      BY <2>2 DEF WInv, TypeOK
    <2> QED BY <2>1, <2>2 DEF PollModule, TransportTask
  <1>2. phase' \in {"polling", "events"}
    BY DEF PollModule, TransportTask
  <1>3. UNCHANGED <<transport, wireless_state, host_index, led_state, pincodeEntry,
                    firstDisconnect, critical, pairing_key_timer, request,
                    pairedOnUsb, skipped>>
    BY DEF PollModule, TransportTask
  <1>4. TypeOK'
    BY <1>1, <1>2, <1>3 DEF WInv, TypeOK
  <1> QED BY <1>1, <1>3, <1>4 DEF WInv, SilentWhenCritical

(* After the polling loop wireless_connect_ex decides.                      *)
LEMMA EndPollingWInv == WInv /\ EndPolling => WInv'
  <1> SUFFICES ASSUME WInv, EndPolling PROVE WInv'
    OBVIOUS
  <1>1. TypeOK /\ P24G_INDEX \in Hosts
    BY DEF WInv, Hosts
  <1>2. /\ radio' \in Radios /\ wireless_state' \in WtStates
        /\ host_index' \in Hosts \cup {0, LastHost} /\ led_state' \in Hosts \cup {0}
        /\ critical => radio' = radio
    <2>1. CASE ConnectEx(P24G_INDEX) \/ ConnectEx(LastHost)
      BY <1>1, <2>1, ConnectExType
    <2>2. CASE UNCHANGED <<wireless_state, host_index, led_state, radio>>
      BY <1>1, <2>2 DEF TypeOK
    <2>3. CASE /\ request # 0 /\ ~critical
               /\ host_index' = request /\ led_state' = 0
               /\ radio' = Connecting(Connecting(radio, LastHost), request)
               /\ wireless_state' = "RECONNECTING"
      <3>1. request \in Hosts
        BY <1>1, <2>3 DEF TypeOK
      <3>2. radio' \in Radios
        BY <1>1, <2>3, <3>1, ConnectingType DEF TypeOK
      <3> QED BY <2>3, <3>1, <3>2 DEF WtStates
    <2> QED BY <2>1, <2>2, <2>3 DEF EndPolling
  <1>3. pairing_key_timer' \in BOOLEAN /\ skipped' \in BOOLEAN
    BY DEF EndPolling
  <1>4. TypeOK'
    BY <1>1, <1>2, <1>3 DEF EndPolling, TypeOK
  <1> QED BY <1>2, <1>4 DEF WInv, SilentWhenCritical, EndPolling

(* Of the event handlers only that of EVT_DISCONNECTED connects.            *)
LEMMA EventTaskWInv == WInv /\ EventTask => WInv'
  <1> SUFFICES ASSUME WInv, EventTask PROVE WInv'
    OBVIOUS
  <1> DEFINE e == Head(events)
  <1>1. events' \in Seq(Frames) /\ Len(events') <= Capacity /\ e \in Frames
    BY DEF WInv, TypeOK, EventTask
  <1>2. e.host \in Hosts
    BY <1>1 DEF Frames
  <1> DEFINE Good == /\ radio' \in Radios /\ wireless_state' \in WtStates
                     /\ host_index' \in Hosts \cup {0, LastHost}
                     /\ led_state' \in Hosts \cup {0}
                     /\ pincodeEntry' \in BOOLEAN /\ firstDisconnect' \in BOOLEAN
                     /\ critical => radio' = radio
  <1>3. ASSUME NEW st, NEW h, st \in WtStates, h \in Hosts \cup {0, LastHost}, Enter(st, h)
        PROVE  Good
    BY <1>3 DEF Enter, WInv, TypeOK
  <1>4. EnterDisconnected => Good
    <2>1. Connecting(radio, 0) \in Radios
      BY ConnectingType DEF WInv, TypeOK
    <2> QED BY <2>1 DEF EnterDisconnected, EnterDisconnectedKb, WInv, TypeOK, WtStates
  <1>5. EnterSleep => Good
    BY DEF EnterSleep, WInv, TypeOK, WtStates
  <1>6. Good
    <2>1. host_index \in Hosts \cup {0, LastHost}
      BY DEF WInv, TypeOK
    <2>2. CASE \E st \in {"RESET", "CONNECTED", "PARING", "RECONNECTING"} :
                  Enter(st, host_index) \/ Enter(st, e.host)
      BY <1>2, <1>3, <2>1, <2>2 DEF WtStates
    <2>3. CASE /\ pincodeEntry' = (e.type = "PINCODE_ENTRY")
               /\ UNCHANGED <<wireless_state, host_index, led_state, firstDisconnect,
                              radio>>
      BY <2>3 DEF WInv, TypeOK
    <2>4. CASE /\ led_state' = e.host
               /\ UNCHANGED <<wireless_state, host_index, pincodeEntry,
                              firstDisconnect, radio>>
      BY <1>2, <2>4 DEF WInv, TypeOK
    <2> HIDE DEF Good
    <2> QED BY <1>4, <1>5, <2>2, <2>3, <2>4 DEF EventTask
  <1>7. TypeOK'
    BY <1>1, <1>6 DEF EventTask, WInv, TypeOK
  <1> QED BY <1>6, <1>7 DEF WInv, SilentWhenCritical, EventTask

(* The pairing key timer and the battery task.                              *)
LEMMA LoopWInv == WInv /\ (EventsDone \/ CommonTask \/ BatteryTask) => WInv'
  <1> SUFFICES ASSUME WInv, EventsDone \/ CommonTask \/ BatteryTask PROVE WInv'
    OBVIOUS
  <1>1. CASE EventsDone
    <2>1. TypeOK'
      BY <1>1 DEF WInv, TypeOK, EventsDone
    <2> QED BY <1>1, <2>1 DEF WInv, SilentWhenCritical, EventsDone
  <1>2. CASE CommonTask
    <2>1. Pairing(radio) \in Radios
      BY PairingType DEF WInv, TypeOK
    <2>2. /\ radio' \in Radios /\ (critical => radio' = radio)
          /\ wireless_state' \in WtStates /\ host_index' \in Hosts \cup {0, LastHost}
      BY <1>2, <2>1 DEF CommonTask, PairingEx, WInv, TypeOK, WtStates
    <2>3. pairing_key_timer' \in BOOLEAN /\ pairedOnUsb' \in BOOLEAN
      BY <1>2 DEF CommonTask, WInv, TypeOK
    <2>4. TypeOK'
      BY <1>2, <2>2, <2>3 DEF CommonTask, WInv, TypeOK
    <2> QED BY <1>2, <2>2, <2>4 DEF WInv, SilentWhenCritical, CommonTask
  <1>3. CASE BatteryTask
    <2>1. Disconnected(radio) \in Radios /\ Disconnected(radio).st = "IDLE"
      BY DisconnectedType DEF WInv, TypeOK
    <2>2. radio' \in Radios
      BY <1>3, <2>1 DEF BatteryTask, LowBatteryShutdown, WInv, TypeOK
    <2>3. critical' \in BOOLEAN
      BY <1>3 DEF BatteryTask, WInv, TypeOK
    <2>4. critical' => radio'.st = "IDLE"
      BY <1>3, <2>1 DEF BatteryTask, LowBatteryShutdown, WInv, SilentWhenCritical
    <2>5. TypeOK'
      BY <1>3, <2>2, <2>3 DEF BatteryTask, WInv, TypeOK
    <2> QED BY <2>4, <2>5 DEF WInv, SilentWhenCritical
  <1> QED BY <1>1, <1>2, <1>3

(* Every step preserves the invariant.                                      *)
LEMMA NextWInv == WInv /\ [Next]_vars => WInv'
  <1> SUFFICES ASSUME WInv, [Next]_vars PROVE WInv'
    OBVIOUS
  <1>1. CASE UNCHANGED vars
    BY <1>1, ModuleStep DEF vars, WInv, TypeOK
  <1>2. CASE Next
    BY <1>2, ModuleWInv, ModuleResetWInv, SwitchWInv, PressHostWInv, KeyWInv, PollWInv,
       EndPollingWInv, EventTaskWInv, LoopWInv DEF Next
  <1> QED BY <1>1, <1>2

(* The connection's state is well typed, and once the battery is critical   *)
(* the radio stays off whatever keys are pressed, whatever events were      *)
(* collected and whatever transport is chosen (the tests for                *)
(* battery_is_critical_low in wireless.c).                                  *)
THEOREM CriticalKeepsSilent == Spec => [](TypeOK /\ SilentWhenCritical)
  <1>1. WInv => TypeOK /\ SilentWhenCritical
    BY DEF WInv
  <1> QED BY <1>1, InitWInv, NextWInv, PTL DEF Spec

-----------------------------------------------------------------------------
(***************************************************************************)
(* Agreement.  The frames not yet read and the events not yet handled form *)
(* one stream.  The firmware is right about the connection as soon as it   *)
(* has handled the last frame of the stream that tells a link state, and   *)
(* that frame can be pushed out of the event queue by newer frames: so the *)
(* invariant also says what the stream looks like whenever it is read.     *)
(***************************************************************************)

\* The frames that set wireless_state whatever it was before.
LinkTypes == {"RESET", "CONNECTED", "DISCOVERABLE", "RECONNECTING", "DISCONNECTED"}

\* Handling f makes the firmware agree with a module in state r.
Fits(f, r) ==
    /\ f.type \in LinkTypes
    /\ f.type = "CONNECTED" <=> r.st = "CONNECTED"
    /\ f.type = "CONNECTED" => f.host = r.host

Mute(s) == \A i \in 1 .. Len(s) : s[i].type \notin LinkTypes

\* The last frame of s that tells a link state fits r.
Says(s, r) ==
    \E i \in 1 .. Len(s) :
        Fits(s[i], r) /\ \A j \in i + 1 .. Len(s) : s[j].type \notin LinkTypes

\* The firmware agrees with a module in state r.
Knows(r) ==
    /\ wireless_state = "CONNECTED" <=> r.st = "CONNECTED"
    /\ wireless_state = "CONNECTED" => host_index = r.host

\* Handling s resets the LED state.
Clears(s) == \E i \in 1 .. Len(s) : s[i].type = "DISCONNECTED"

\* The LEDs of host h are the ones to show.
On(r, h) == r.st = "CONNECTED" /\ r.host = h

StatusKnown ==
    \/ Says(radio.frames, radio)
    \/ Mute(radio.frames) /\ Says(events, radio)
    \/ Mute(radio.frames) /\ Mute(events) /\ Knows(radio)

LedFrames ==
    \A i \in 1 .. Len(radio.frames) : radio.frames[i].type = "HID_INDICATOR" =>
        \/ On(radio, radio.frames[i].host)
        \/ \E j \in i + 1 .. Len(radio.frames) : radio.frames[j].type = "DISCONNECTED"

LedEvents ==
    \A i \in 1 .. Len(events) : events[i].type = "HID_INDICATOR" =>
        \/ On(radio, events[i].host)
        \/ \E j \in i + 1 .. Len(events) : events[j].type = "DISCONNECTED"
        \/ Clears(radio.frames)

LedKnown ==
    led_state = 0 \/ On(radio, led_state) \/ Clears(events) \/ Clears(radio.frames)

\* While a transport switch polls, the module is off and said so last.
WhilePolling ==
    phase = "polling" =>
        /\ radio.st = "IDLE" /\ transport \in TRANSPORT_WIRELESS
        /\ events # <<>> \/ radio.frames # <<>>
        /\ radio.frames # <<>> =>
               radio.frames[Len(radio.frames)].type = "DISCONNECTED"

\* Events that a transport switch collected and nobody has handled yet.
AfterPolling ==
    phase = "keys" /\ events # <<>> =>
        /\ ~Mute(radio.frames) \/ (radio.frames = <<>> /\ radio.st = "IDLE")
        /\ \/ led_state = 0 \/ Clears(radio.frames)
           \/ radio.frames = <<>> /\ (critical \/ wireless_state = "CONNECTED")

\* wireless_event_task leaves no event behind.
Handled == phase \in {"boot", "common", "battery"} => events = <<>>

AInv ==
    /\ StatusKnown /\ LedFrames /\ LedEvents /\ LedKnown
    /\ WhilePolling /\ AfterPolling /\ Handled

-----------------------------------------------------------------------------
\* Sequences of frames.

(* A frame that fits, put last, is the one that says it.                    *)
LEMMA AppendSays ==
  ASSUME NEW s \in Seq(Frames), NEW f \in Frames, NEW r, Fits(f, r)
  PROVE  Says(Append(s, f), r) /\ ~Mute(Append(s, f))
  <1> DEFINE t == Append(s, f)
  <1>1. Len(t) = Len(s) + 1 /\ t[Len(t)] = f /\ Len(t) \in 1 .. Len(t)
    OBVIOUS
  <1> HIDE DEF t
  <1>2. \A j \in Len(t) + 1 .. Len(t) : t[j].type \notin LinkTypes
    BY <1>1
  <1>3. Says(t, r)
    BY <1>1, <1>2 DEF Says
  <1>4. ~Mute(t)
    BY <1>1 DEF Mute, Fits
  <1> QED BY <1>3, <1>4 DEF t

(* A frame that tells no link state leaves what was said before it.         *)
LEMMA AppendQuiet ==
  ASSUME NEW s \in Seq(Frames), NEW f \in Frames, f.type \notin LinkTypes, NEW r
  PROVE  /\ Says(s, r) => Says(Append(s, f), r)
         /\ Mute(Append(s, f)) <=> Mute(s)
  <1> DEFINE t == Append(s, f)
  <1>1. /\ Len(t) = Len(s) + 1 /\ t[Len(s) + 1] = f /\ Len(s) \in Nat
        /\ \A i \in 1 .. Len(s) : t[i] = s[i]
    OBVIOUS
  <1> HIDE DEF t
  <1>2. Says(s, r) => Says(t, r)
    BY <1>1 DEF Says
  <1>3. Mute(t) <=> Mute(s)
    BY <1>1 DEF Mute
  <1> QED BY <1>2, <1>3 DEF t

(* What is left when the first frame is gone.                               *)
LEMMA TailSays ==
  ASSUME NEW s \in Seq(Frames), s # <<>>, NEW r
  PROVE  /\ Says(s, r) => Says(Tail(s), r) \/ (Fits(Head(s), r) /\ Mute(Tail(s)))
         /\ Mute(s) => Mute(Tail(s)) /\ Head(s).type \notin LinkTypes
         /\ Clears(s) => Clears(Tail(s)) \/ Head(s).type = "DISCONNECTED"
  <1> DEFINE t == Tail(s)
  <1>1. /\ Len(t) = Len(s) - 1 /\ Head(s) = s[1] /\ Len(s) \in Nat /\ Len(s) >= 1
        /\ \A i \in 1 .. Len(t) : t[i] = s[i + 1]
    OBVIOUS
  <1> HIDE DEF t
  <1>2. ASSUME Says(s, r) PROVE Says(t, r) \/ (Fits(Head(s), r) /\ Mute(t))
    <2>1. PICK i \in 1 .. Len(s) :
              Fits(s[i], r) /\ \A j \in i + 1 .. Len(s) : s[j].type \notin LinkTypes
      BY <1>2 DEF Says
    <2>2. CASE i = 1
      BY <1>1, <2>1, <2>2 DEF Mute
    <2>3. CASE i # 1
      <3>1. i - 1 \in 1 .. Len(t) /\ t[i - 1] = s[i]
        BY <1>1, <2>3
      <3>2. \A j \in (i - 1) + 1 .. Len(t) : t[j].type \notin LinkTypes
        BY <1>1, <2>1
      <3> QED BY <2>1, <3>1, <3>2 DEF Says
    <2> QED BY <2>2, <2>3
  <1>3. Mute(s) => Mute(t) /\ Head(s).type \notin LinkTypes
    BY <1>1 DEF Mute
  <1>4. Clears(s) => Clears(t) \/ Head(s).type = "DISCONNECTED"
    <2> SUFFICES ASSUME Clears(s), Head(s).type # "DISCONNECTED" PROVE Clears(t)
      OBVIOUS
    <2>1. PICK i \in 1 .. Len(s) : s[i].type = "DISCONNECTED"
      BY DEF Clears
    <2>2. i - 1 \in 1 .. Len(t) /\ t[i - 1] = s[i]
      BY <1>1, <2>1
    <2> QED BY <2>1, <2>2 DEF Clears
  <1> QED BY <1>2, <1>3, <1>4 DEF t

(* Whether a frame fits depends on the link only.                           *)
LEMMA SameLink ==
  ASSUME NEW s, NEW r, NEW t, r.st = "CONNECTED" <=> t.st = "CONNECTED",
         r.st = "CONNECTED" => r.host = t.host
  PROVE  Says(s, r) <=> Says(s, t)
  BY DEF Says, Fits

\* p is q with f put last and the oldest event dropped when q was full.
Pushed(q, f, p) ==
    /\ p \in Seq(Frames) /\ Len(p) >= 1 /\ p[Len(p)] = f
    /\ \E d \in {0, 1} : /\ Len(p) = Len(q) + 1 - d
                         /\ d = 1 => Len(q) = Capacity
                         /\ \A i \in 1 .. Len(p) - 1 : p[i] = q[i + d]

(* The event queue takes the new frame last and keeps what it holds,        *)
(* the oldest event excepted when it is full.                               *)
LEMMA PushFacts ==
  ASSUME NEW q \in Seq(Frames), Len(q) <= Capacity, NEW f \in Frames
  PROVE  Pushed(q, f, Queue!Push(q, f))
  <1> DEFINE p == Queue!Push(q, f)
  <1>1. CASE Len(q) = Capacity
    <2>1. p = Append(Tail(q), f) /\ q # <<>>
      BY <1>1 DEF Queue!Push
    <2>2. Len(p) = Len(q) + 1 - 1 /\ \A i \in 1 .. Len(p) - 1 : p[i] = q[i + 1]
      BY <2>1
    <2> QED BY <1>1, <2>1, <2>2 DEF Pushed
  <1>2. CASE Len(q) # Capacity
    <2>1. p = Append(q, f)
      BY <1>2 DEF Queue!Push
    <2>2. Len(p) = Len(q) + 1 - 0 /\ \A i \in 1 .. Len(p) - 1 : p[i] = q[i + 0]
      BY <2>1
    <2> QED BY <1>2, <2>1, <2>2 DEF Pushed
  <1> QED BY <1>1, <1>2

-----------------------------------------------------------------------------
\* What the module says when it is told something.

ModuleStates == {"IDLE", "RECONNECTING", "CONNECTED", "DISCOVERABLE"}

\* Every frame of r is still unread in t.
Extends(r, t) ==
    /\ Len(r.frames) <= Len(t.frames)
    /\ \A i \in 1 .. Len(r.frames) : t.frames[i] = r.frames[i]

\* r went to t and told so; the end of a connection was told too.
Spoke(r, t) ==
    /\ t \in Radios
    /\ Extends(r, t) /\ Says(t.frames, t) /\ ~Mute(t.frames)
    /\ \A i \in Len(r.frames) + 1 .. Len(t.frames) :
           t.frames[i].type # "HID_INDICATOR"
    /\ r.st = "CONNECTED" =>
           \E i \in Len(r.frames) + 1 .. Len(t.frames) :
               t.frames[i].type = "DISCONNECTED"

(* The fields of a module that moved.                                       *)
LEMMA MovedFields ==
  ASSUME NEW r \in Radios,
         NEW st \in ModuleStates,
         NEW host \in Hosts, NEW status \in Statuses
  PROVE  LET m == Moved(r, st, host, status) IN
         /\ m \in Radios /\ m.st = st /\ m.host = host
         /\ r.frames \in Seq(Frames) /\ Status(status, host) \in Frames
         /\ m.frames = Append(r.frames, Status(status, host))
  <1>1. Moved(r, st, host, status) \in Radios
    BY MovedType DEF ModuleStates
  <1>2. Status(status, host) \in Frames
    BY DEF Status, Frames
  <1> QED BY <1>1, <1>2 DEF Moved, Radios

(* A module that is not connected, or says that it disconnects, tells where *)
(* it moves.                                                                *)
LEMMA MovedSpoke ==
  ASSUME NEW r \in Radios,
         NEW st \in ModuleStates,
         NEW host \in Hosts, NEW status \in LinkTypes,
         status = "CONNECTED" <=> st = "CONNECTED",
         r.st = "CONNECTED" => status = "DISCONNECTED"
  PROVE  Spoke(r, Moved(r, st, host, status))
  <1> DEFINE m == Moved(r, st, host, status)  f == Status(status, host)
  <1>1. /\ m \in Radios /\ m.st = st /\ m.host = host
        /\ r.frames \in Seq(Frames) /\ f \in Frames /\ m.frames = Append(r.frames, f)
    <2>1. status \in Statuses
      BY DEF LinkTypes, Statuses
    <2>2. m = Moved(r, st, host, status) /\ f = Status(status, host)
      OBVIOUS
    <2> HIDE DEF m, f
    <2> QED BY <2>1, <2>2, MovedFields
  <1>2. f.type = status /\ f.host = host
    BY DEF Status
  <1> HIDE DEF m, f
  <1>3. Says(m.frames, m) /\ ~Mute(m.frames)
    BY <1>1, <1>2, AppendSays DEF Fits
  <1>4. /\ Len(m.frames) = Len(r.frames) + 1 /\ Len(r.frames) \in Nat
        /\ m.frames[Len(r.frames) + 1] = f
        /\ \A i \in 1 .. Len(r.frames) : m.frames[i] = r.frames[i]
    BY <1>1
  <1>5. f.type # "HID_INDICATOR"
    BY <1>2 DEF LinkTypes
  <1>6. Spoke(r, m)
    BY <1>1, <1>2, <1>3, <1>4, <1>5 DEF Spoke, Extends
  <1> QED BY <1>6 DEF m

(* Telling one thing and then another.                                      *)
LEMMA SpokeAgain ==
  ASSUME NEW r \in Radios, NEW s, Spoke(r, s), NEW t, Spoke(s, t)
  PROVE  Spoke(r, t)
  <1>1. s \in Radios /\ t \in Radios
    BY DEF Spoke
  <1>2. Len(r.frames) \in Nat /\ Len(s.frames) \in Nat /\ Len(t.frames) \in Nat
    BY <1>1 DEF Radios
  <1>3. Extends(r, t)
    BY <1>2 DEF Spoke, Extends
  <1>4. ASSUME NEW i \in Len(r.frames) + 1 .. Len(t.frames)
        PROVE  t.frames[i].type # "HID_INDICATOR"
    <2>1. CASE i <= Len(s.frames)
      <3>1. i \in Len(r.frames) + 1 .. Len(s.frames) /\ i \in 1 .. Len(s.frames)
        BY <1>2, <2>1
      <3>2. t.frames[i] = s.frames[i] /\ s.frames[i].type # "HID_INDICATOR"
        BY <3>1 DEF Spoke, Extends
      <3> QED BY <3>2
    <2>2. CASE ~(i <= Len(s.frames))
      <3>1. i \in Len(s.frames) + 1 .. Len(t.frames)
        BY <1>2, <2>2
      <3> QED BY <3>1 DEF Spoke
    <2> QED BY <2>1, <2>2
  <1>5. ASSUME r.st = "CONNECTED"
        PROVE  \E i \in Len(r.frames) + 1 .. Len(t.frames) :
                   t.frames[i].type = "DISCONNECTED"
    <2>1. PICK i \in Len(r.frames) + 1 .. Len(s.frames) :
                   s.frames[i].type = "DISCONNECTED"
      BY <1>5 DEF Spoke
    <2>2. i \in 1 .. Len(s.frames) /\ i \in Len(r.frames) + 1 .. Len(t.frames)
      BY <1>2, <2>1 DEF Spoke, Extends
    <2>3. t.frames[i] = s.frames[i]
      BY <2>2 DEF Spoke, Extends
    <2> QED BY <2>1, <2>2, <2>3
  <1> QED BY <1>1, <1>3, <1>4, <1>5 DEF Spoke

(* LKBT51_CMD_DISCONNECT is told last.                                      *)
LEMMA DisconnectedSpoke ==
  ASSUME NEW r \in Radios
  PROVE  LET d == Disconnected(r) IN
         /\ Spoke(r, d) /\ d.st = "IDLE" /\ d.host = r.host
         /\ d.frames # <<>> /\ d.frames[Len(d.frames)].type = "DISCONNECTED"
         /\ Clears(d.frames)
  <1> DEFINE d == Disconnected(r)  f == Status("DISCONNECTED", r.host)
  <1>1. r.host \in Hosts
    BY DEF Radios
  <1>2. /\ d \in Radios /\ d.st = "IDLE" /\ d.host = r.host
        /\ r.frames \in Seq(Frames) /\ f \in Frames /\ d.frames = Append(r.frames, f)
    <2>1. "DISCONNECTED" \in Statuses /\ "IDLE" \in ModuleStates
      BY DEF Statuses, ModuleStates
    <2>2. d = Moved(r, "IDLE", r.host, "DISCONNECTED")
      BY DEF Disconnected
    <2> HIDE DEF d, f
    <2> QED BY <1>1, <2>1, <2>2, MovedFields DEF f
  <1>3. Spoke(r, d)
    BY <1>1, MovedSpoke DEF Disconnected, LinkTypes, ModuleStates
  <1>4. f.type = "DISCONNECTED"
    BY DEF Status
  <1> HIDE DEF d, f
  <1>5. /\ d.frames # <<>> /\ d.frames[Len(d.frames)] = f
        /\ Len(d.frames) \in 1 .. Len(d.frames)
    BY <1>2
  <1>6. Clears(d.frames)
    BY <1>4, <1>5 DEF Clears
  <1> QED BY <1>2, <1>3, <1>4, <1>5, <1>6 DEF d

(* A module that gives up its link tells it before it tells where it goes.  *)
LEMMA ReleasedSpoke ==
  ASSUME NEW r \in Radios, NEW st \in {"RECONNECTING", "DISCOVERABLE"}, NEW host \in Hosts
  PROVE  LET m == Moved(Released(r), st, host, st) IN
         Spoke(r, m) /\ m.st = st /\ m.host = host
  <1> DEFINE m == Moved(Released(r), st, host, st)
  <1>1. Released(r) \in Radios
    BY ReleasedType
  <1>2. m.st = st /\ m.host = host
    <2>1. st \in Statuses /\ st \in ModuleStates
      BY DEF Statuses, ModuleStates
    <2>2. m = Moved(Released(r), st, host, st)
      OBVIOUS
    <2> HIDE DEF m
    <2> QED BY <1>1, <2>1, <2>2, MovedFields
  <1>3. CASE r.st = "CONNECTED"
    <2>1. Released(r) = Disconnected(r)
      BY <1>3 DEF Released
    <2>2. Spoke(r, Released(r)) /\ Released(r).st = "IDLE"
      BY <2>1, DisconnectedSpoke
    <2>3. Spoke(Released(r), m)
      BY <1>1, <2>2, MovedSpoke DEF LinkTypes, ModuleStates
    <2> QED BY <1>2, <2>2, <2>3, SpokeAgain
  <1>4. CASE r.st # "CONNECTED"
    <2>1. Released(r) = r
      BY <1>4 DEF Released
    <2>2. Spoke(r, m)
      BY <1>4, <2>1, MovedSpoke DEF LinkTypes, ModuleStates
    <2> QED BY <1>2, <2>2
  <1> QED BY <1>3, <1>4

\* The slot that LKBT51_CMD_CONNECT with h asks for.
SlotOf(r, h) == CASE h = 0 -> r.host [] h = LastHost -> r.last [] OTHER -> h

(* Asked to connect, the module says nothing only if it has that link or is *)
(* working on it.                                                           *)
LEMMA ConnectingSpoke ==
  ASSUME NEW r \in Radios, NEW h \in Hosts \cup {0, LastHost}
  PROVE  LET c == Connecting(r, h) IN
         /\ SlotOf(r, h) \in Hosts /\ c.host = SlotOf(r, h)
         /\ \/ c = r /\ r.st \in {"RECONNECTING", "CONNECTED"}
            \/ Spoke(r, c) /\ c.st = "RECONNECTING"
  <1>1. SlotOf(r, h) \in Hosts
    BY DEF SlotOf, Radios, Hosts
  <1>2. CASE r.st \in {"RECONNECTING", "CONNECTED"} /\ r.host = SlotOf(r, h)
    <2>1. Connecting(r, h) = r
      BY <1>2 DEF Connecting, SlotOf
    <2> QED BY <1>1, <1>2, <2>1
  <1>3. CASE ~(r.st \in {"RECONNECTING", "CONNECTED"} /\ r.host = SlotOf(r, h))
    <2>1. Connecting(r, h) = Moved(Released(r), "RECONNECTING", SlotOf(r, h), "RECONNECTING")
      BY <1>3 DEF Connecting, SlotOf
    <2> QED BY <1>1, <2>1, ReleasedSpoke
  <1> QED BY <1>2, <1>3

(* Pairing is always told.                                                  *)
LEMMA PairingSpoke ==
  ASSUME NEW r \in Radios
  PROVE  Spoke(r, Pairing(r)) /\ Pairing(r).st = "DISCOVERABLE" /\ Pairing(r).host = r.host
  <1>1. r.host \in Hosts
    BY DEF Radios
  <1> QED BY <1>1, ReleasedSpoke DEF Pairing

-----------------------------------------------------------------------------
\* The steps that preserve the invariant.

StreamInv == StatusKnown /\ LedFrames /\ LedEvents /\ LedKnown

(* A reset of the LED state that is on its way stays there when the module  *)
(* says more.                                                               *)
LEMMA ClearsExtends ==
  ASSUME NEW r \in Radios, NEW t \in Radios, Extends(r, t), Clears(r.frames)
  PROVE  Clears(t.frames)
  <1>1. Len(r.frames) \in Nat /\ Len(t.frames) \in Nat
    BY DEF Radios
  <1>2. PICK i \in 1 .. Len(r.frames) : r.frames[i].type = "DISCONNECTED"
    BY DEF Clears
  <1>3. i \in 1 .. Len(t.frames) /\ t.frames[i] = r.frames[i]
    BY <1>1, <1>2 DEF Extends
  <1> QED BY <1>2, <1>3 DEF Clears

(* The end of a connection is told after the LEDs its host had set.         *)
LEMMA SpokeLedFrames ==
  ASSUME TypeOK, LedFrames, Spoke(radio, radio') PROVE LedFrames'
  <1> DEFINE r == radio  t == radio'  n == Len(radio.frames)  m == Len(radio'.frames)
  <1>1. /\ n \in Nat /\ m \in Nat /\ n <= m
        /\ \A i \in 1 .. n : t.frames[i] = r.frames[i]
    BY DEF TypeOK, Spoke, Radios, Extends
  <1> SUFFICES ASSUME NEW i \in 1 .. m, t.frames[i].type = "HID_INDICATOR"
               PROVE  \E j \in i + 1 .. m : t.frames[j].type = "DISCONNECTED"
    BY DEF LedFrames
  <1>2. i \in 1 .. n
    BY <1>1 DEF Spoke
  <1>3. CASE r.st = "CONNECTED"
    BY <1>1, <1>2, <1>3 DEF Spoke
  <1>4. CASE r.st # "CONNECTED"
    <2>1. PICK j \in i + 1 .. n : r.frames[j].type = "DISCONNECTED"
      BY <1>1, <1>2, <1>4 DEF LedFrames, On
    <2>2. j \in i + 1 .. m /\ j \in 1 .. n
      BY <1>1, <1>2, <2>1
    <2> QED BY <1>1, <2>1, <2>2
  <1> QED BY <1>3, <1>4

(* A module that tells what it does keeps the stream right, whatever        *)
(* wireless_state is set to meanwhile.                                      *)
LEMMA SpokeStream ==
  ASSUME TypeOK, LedFrames, LedEvents, LedKnown, Spoke(radio, radio'),
         events' = events, led_state' \in {led_state, 0}
  PROVE  /\ StreamInv' /\ ~Mute(radio.frames)'
         /\ Clears(radio.frames) \/ radio.st = "CONNECTED" => Clears(radio.frames)'
  <1> DEFINE r == radio  t == radio'  n == Len(radio.frames)  m == Len(radio'.frames)
  <1>1. /\ r \in Radios /\ t \in Radios /\ n \in Nat /\ m \in Nat /\ n <= m
        /\ \A i \in 1 .. n : t.frames[i] = r.frames[i]
    BY DEF TypeOK, Spoke, Radios, Extends
  <1>2. Says(t.frames, t) /\ ~Mute(t.frames)
    BY DEF Spoke
  <1>3. r.st = "CONNECTED" =>
            \E i \in n + 1 .. m : t.frames[i].type = "DISCONNECTED"
    BY DEF Spoke
  <1>4. r.st = "CONNECTED" => Clears(t.frames)
    BY <1>1, <1>3 DEF Clears
  <1>5. Clears(r.frames) => Clears(t.frames)
    BY <1>1, ClearsExtends DEF Spoke
  <1>6. StatusKnown'
    BY <1>2 DEF StatusKnown
  <1>7. LedFrames'
    BY SpokeLedFrames
  <1>8. LedEvents'
    BY <1>4, <1>5 DEF LedEvents, On
  <1>9. LedKnown'
    BY <1>4, <1>5 DEF LedKnown, On
  <1> QED BY <1>2, <1>4, <1>5, <1>6, <1>7, <1>8, <1>9 DEF StreamInv

(* The firmware's own variables are all that changes, and it does not       *)
(* forget a connection it knows.                                            *)
LEMMA SilentStream ==
  ASSUME StreamInv, radio' = radio, events' = events, led_state' \in {led_state, 0},
         Mute(radio.frames) /\ Mute(events) /\ Knows(radio) => Knows(radio)'
  PROVE  StreamInv'
  BY DEF StreamInv, StatusKnown, LedFrames, LedEvents, LedKnown, Knows

(* PIN codes, sleep and the host's LEDs leave the link as it was told.      *)
LEMMA MutterStream ==
  ASSUME TypeOK, StreamInv, NEW st \in ModuleStates, NEW status \in Statuses,
         status \notin LinkTypes, radio' = Moved(radio, st, radio.host, status),
         radio.st = "CONNECTED" <=> st = "CONNECTED",
         status = "HID_INDICATOR" => st = "CONNECTED",
         UNCHANGED <<events, led_state, wireless_state, host_index>>
  PROVE  /\ StreamInv'
         /\ Mute(radio.frames)' <=> Mute(radio.frames)
         /\ Clears(radio.frames) => Clears(radio.frames)'
  <1> DEFINE r == radio  t == radio'  f == Status(status, radio.host)
             n == Len(radio.frames)
  <1>1. /\ t \in Radios /\ t.st = st /\ t.host = r.host
        /\ r.frames \in Seq(Frames) /\ f \in Frames /\ t.frames = Append(r.frames, f)
    <2>1. r \in Radios /\ r.host \in Hosts
      BY DEF TypeOK, Radios
    <2> HIDE DEF f
    <2> QED BY <2>1, MovedFields DEF f
  <1>2. f.type = status /\ f.host = r.host
    BY DEF Status
  <1> HIDE DEF f
  <1>3. /\ Len(t.frames) = n + 1 /\ n \in Nat /\ t.frames[n + 1] = f
        /\ \A i \in 1 .. n : t.frames[i] = r.frames[i]
    BY <1>1
  <1>4. /\ Says(r.frames, r) => Says(t.frames, t)
        /\ Mute(t.frames) <=> Mute(r.frames)
        /\ Says(events, r) => Says(events, t)
        /\ \A h : On(r, h) => On(t, h)
    BY <1>1, <1>2, AppendQuiet, SameLink DEF On
  <1>5. StatusKnown'
    BY <1>1, <1>4 DEF StreamInv, StatusKnown, Knows
  <1>6. Clears(r.frames) => Clears(t.frames)
    BY <1>3 DEF Clears
  <1>7. LedFrames'
    <2> SUFFICES ASSUME NEW i \in 1 .. n + 1, t.frames[i].type = "HID_INDICATOR"
                 PROVE  \/ On(t, t.frames[i].host)
                        \/ \E j \in i + 1 .. n + 1 : t.frames[j].type = "DISCONNECTED"
      BY <1>3 DEF LedFrames
    <2>1. CASE i = n + 1
      BY <1>1, <1>2, <1>3, <2>1 DEF On
    <2>2. CASE i # n + 1
      <3>1. i \in 1 .. n /\ t.frames[i] = r.frames[i]
        BY <1>3, <2>2
      <3>2. CASE On(r, r.frames[i].host)
        BY <1>4, <3>1, <3>2
      <3>3. CASE \E j \in i + 1 .. n : r.frames[j].type = "DISCONNECTED"
        <4>1. PICK j \in i + 1 .. n : r.frames[j].type = "DISCONNECTED"
          BY <3>3
        <4>2. j \in 1 .. n /\ j \in i + 1 .. n + 1
          BY <1>3, <3>1, <4>1
        <4> QED BY <1>3, <4>1, <4>2
      <3> QED BY <3>1, <3>2, <3>3 DEF StreamInv, LedFrames
    <2> QED BY <2>1, <2>2
  <1>8. LedEvents' /\ LedKnown'
    BY <1>4, <1>6 DEF StreamInv, LedEvents, LedKnown
  <1> QED BY <1>4, <1>5, <1>6, <1>7, <1>8 DEF StreamInv

(* Reading a frame moves it from the module to the end of the event queue,  *)
(* or copies it there.                                                      *)
LEMMA ReadFields ==
  ASSUME TypeOK, ReadFrame
  PROVE  /\ radio.frames \in Seq(Frames) /\ radio.frames # <<>>
         /\ Head(radio.frames) \in Frames
         /\ radio' \in Radios /\ radio'.st = radio.st /\ radio'.host = radio.host
         /\ radio'.frames \in {radio.frames, Tail(radio.frames)}
         /\ events' = Queue!Push(events, Head(radio.frames))
  <1>1. radio \in Radios /\ radio.frames # <<>> /\ radio.frames \in Seq(Frames)
    BY DEF TypeOK, ReadFrame, Radios
  <1>2. radio' \in Radios
    BY ReadFrameType
  <1>3. /\ radio'.st = radio.st /\ radio'.host = radio.host
        /\ radio'.frames \in {radio.frames, Tail(radio.frames)}
    BY <1>1 DEF ReadFrame, Read, Radios
  <1> QED BY <1>1, <1>2, <1>3 DEF ReadFrame

(* Reading is safe where lkbt51_task is called: in the loop of a transport  *)
(* switch, and once per round of the main loop.                             *)
LEMMA ReadStream ==
  ASSUME TypeOK, AInv, ReadFrame, phase \in {"keys", "polling"},
         UNCHANGED <<led_state, wireless_state, host_index>>
  PROVE  StreamInv' /\ events' # <<>>
  <1> DEFINE r == radio  t == radio'  f == Head(radio.frames)  q == events  p == events'
  <1>1. /\ r.frames \in Seq(Frames) /\ r.frames # <<>> /\ f \in Frames
        /\ t \in Radios /\ t.st = r.st /\ t.host = r.host
        /\ t.frames \in {r.frames, Tail(r.frames)} /\ p = Queue!Push(q, f)
    BY ReadFields
  <1>2. q \in Seq(Frames) /\ Len(q) <= Capacity /\ Len(q) \in Nat
    BY DEF TypeOK
  <1>3. PICK d \in {0, 1} :
          /\ p \in Seq(Frames) /\ Len(p) >= 1 /\ p[Len(p)] = f
          /\ Len(p) = Len(q) + 1 - d /\ (d = 1 => Len(q) = Capacity)
          /\ \A i \in 1 .. Len(p) - 1 : p[i] = q[i + d]
    <2>1. Pushed(q, f, p)
      BY <1>1, <1>2, PushFacts
    <2> QED BY <2>1 DEF Pushed
  <1>4. \A s : Says(s, r) <=> Says(s, t)
    BY <1>1, SameLink
  <1>5. \A h : On(r, h) <=> On(t, h)
    BY <1>1 DEF On
  <1>6. /\ Mute(r.frames) => Mute(t.frames) /\ f.type \notin LinkTypes
        /\ Says(r.frames, r) => Says(t.frames, t) \/ (Fits(f, t) /\ Mute(t.frames))
        /\ Clears(r.frames) => Clears(t.frames) \/ f.type = "DISCONNECTED"
    <2>1. /\ Says(r.frames, r) =>
                Says(Tail(r.frames), r) \/ (Fits(f, r) /\ Mute(Tail(r.frames)))
          /\ Mute(r.frames) => Mute(Tail(r.frames)) /\ f.type \notin LinkTypes
          /\ Clears(r.frames) => Clears(Tail(r.frames)) \/ f.type = "DISCONNECTED"
      BY <1>1, TailSays
    <2>2. Fits(f, r) <=> Fits(f, t)
      BY <1>1 DEF Fits
    <2> QED BY <1>1, <1>4, <2>1, <2>2
  <1>7. Len(r.frames) \in Nat /\ Len(r.frames) >= 1
    BY <1>1
  <1>8. phase = "polling" => r.frames[Len(r.frames)].type = "DISCONNECTED"
    BY <1>1 DEF AInv, WhilePolling
  <1>9. Mute(r.frames) => q = <<>>
    <2> SUFFICES ASSUME Mute(r.frames) PROVE q = <<>>
      OBVIOUS
    <2>1. phase # "polling"
      BY <1>7, <1>8 DEF Mute, LinkTypes
    <2> QED BY <1>1, <2>1 DEF AInv, AfterPolling
  <1>10. Len(q) = Capacity =>
            led_state = 0 \/ Clears(r.frames)
    <2> SUFFICES ASSUME Len(q) = Capacity PROVE led_state = 0 \/ Clears(r.frames)
      OBVIOUS
    <2>1. q # <<>>
      BY <1>2
    <2>2. CASE phase = "keys"
      BY <1>1, <2>1, <2>2 DEF AInv, AfterPolling
    <2>3. CASE phase = "polling"
      BY <1>7, <1>8, <2>3 DEF Clears
    <2> QED BY <2>2, <2>3
  <1> HIDE DEF f, p, q, r, t
  <1>11. StatusKnown'
    <2>1. CASE Says(t.frames, t)
      BY <2>1 DEF StatusKnown, t
    <2>2. CASE Fits(f, t) /\ Mute(t.frames)
      <3>1. Len(p) \in 1 .. Len(p) /\ \A j \in Len(p) + 1 .. Len(p) : FALSE
        BY <1>2, <1>3
      <3>2. Says(p, t)
        BY <1>3, <2>2, <3>1 DEF Says
      <3> QED BY <2>2, <3>2 DEF StatusKnown, t, p
    <2>3. CASE ~Says(r.frames, r)
      <3>1. Mute(r.frames) /\ (Says(q, r) \/ Knows(r))
        BY <2>3 DEF AInv, StatusKnown, r, q
      <3>2. q = <<>> /\ Mute(t.frames) /\ f.type \notin LinkTypes
        BY <1>6, <1>9, <3>1
      <3>3. Knows(r)
        BY <3>1, <3>2 DEF Says
      <3>4. Len(p) = 1
        BY <1>3, <3>2
      <3>5. Mute(p)
        BY <1>3, <3>2, <3>4 DEF Mute
      <3>6. Knows(radio)'
        BY <1>1, <3>3 DEF Knows, r, t
      <3> QED BY <3>2, <3>5, <3>6 DEF StatusKnown, t, p
    <2> QED BY <1>6, <2>1, <2>2, <2>3
  <1>12. LedFrames'
    <2>1. CASE t.frames = r.frames
      BY <1>5, <2>1 DEF AInv, LedFrames, r, t
    <2>2. CASE t.frames = Tail(r.frames)
      <3>1. /\ Len(t.frames) = Len(r.frames) - 1
            /\ \A i \in 1 .. Len(t.frames) : t.frames[i] = r.frames[i + 1]
        BY <1>1, <2>2
      <3>2. ASSUME NEW i \in 1 .. Len(t.frames), t.frames[i].type = "HID_INDICATOR"
            PROVE  \/ On(t, t.frames[i].host)
                   \/ \E j \in i + 1 .. Len(t.frames) : t.frames[j].type = "DISCONNECTED"
        <4>0. t.frames[i] = r.frames[i + 1]
          BY <3>1
        <4>1. i + 1 \in 1 .. Len(r.frames) /\ r.frames[i + 1].type = "HID_INDICATOR"
              /\ t.frames[i] = r.frames[i + 1]
          BY <1>7, <3>1, <3>2, <4>0
        <4>2. CASE On(r, r.frames[i + 1].host)
          BY <1>5, <4>1, <4>2
        <4>3. CASE \E j \in (i + 1) + 1 .. Len(r.frames) : r.frames[j].type = "DISCONNECTED"
          <5>1. PICK j \in (i + 1) + 1 .. Len(r.frames) : r.frames[j].type = "DISCONNECTED"
            BY <4>3
          <5>2. j - 1 \in i + 1 .. Len(t.frames) /\ t.frames[j - 1] = r.frames[j]
            BY <1>7, <3>1, <5>1
          <5> QED BY <5>1, <5>2
        <4> QED BY <4>1, <4>2, <4>3 DEF AInv, LedFrames, r
      <3> QED BY <3>2 DEF LedFrames, t
    <2> QED BY <1>1, <2>1, <2>2
  <1>13. LedEvents'
    <2>1. ASSUME NEW i \in 1 .. Len(p), p[i].type = "HID_INDICATOR"
          PROVE  \/ On(t, p[i].host)
                 \/ \E j \in i + 1 .. Len(p) : p[j].type = "DISCONNECTED"
                 \/ Clears(t.frames)
      <3>1. CASE i = Len(p)
        <4>1. f = r.frames[1] /\ f.type = "HID_INDICATOR"
          BY <1>1, <1>3, <2>1, <3>1 DEF f, r
        <4>2. \/ On(r, f.host)
              \/ \E j \in 1 + 1 .. Len(r.frames) : r.frames[j].type = "DISCONNECTED"
          BY <1>7, <4>1 DEF AInv, LedFrames, r
        <4>3. On(r, f.host) => On(t, p[i].host)
          BY <1>3, <1>5, <3>1
        <4>4. Clears(r.frames) => Clears(t.frames)
          BY <1>6, <4>1
        <4> QED BY <1>7, <4>2, <4>3, <4>4 DEF Clears
      <3>2. CASE i # Len(p)
        <4>1. i \in 1 .. Len(p) - 1 /\ p[i] = q[i + d] /\ i + d \in 1 .. Len(q)
          BY <1>2, <1>3, <3>2
        <4>2. \/ On(r, q[i + d].host)
              \/ \E j \in (i + d) + 1 .. Len(q) : q[j].type = "DISCONNECTED"
              \/ Clears(r.frames)
          BY <2>1, <4>1 DEF AInv, LedEvents, r, q
        <4>3. CASE On(r, q[i + d].host)
          BY <1>5, <4>1, <4>3
        <4>4. CASE \E j \in (i + d) + 1 .. Len(q) : q[j].type = "DISCONNECTED"
          <5>1. PICK j \in (i + d) + 1 .. Len(q) : q[j].type = "DISCONNECTED"
            BY <4>4
          <5>2. /\ j - d \in 1 .. Len(p) - 1 /\ j - d \in i + 1 .. Len(p)
                /\ (j - d) + d = j
            BY <1>2, <1>3, <4>1, <5>1
          <5>3. p[j - d] = q[j]
            BY <1>3, <5>2
          <5> QED BY <5>1, <5>2, <5>3
        <4>5. CASE Clears(r.frames)
          <5>1. Len(p) \in i + 1 .. Len(p)
            BY <1>3, <3>2
          <5> QED BY <1>3, <1>6, <4>5, <5>1
        <4> QED BY <4>2, <4>3, <4>4, <4>5
      <3> QED BY <3>1, <3>2
    <2> QED BY <2>1 DEF LedEvents, p, t
  <1>14. LedKnown'
    <2>1. Clears(r.frames) => Clears(t.frames) \/ Clears(p)
      <3>1. Len(p) \in 1 .. Len(p)
        BY <1>3
      <3> QED BY <1>3, <1>6, <3>1 DEF Clears
    <2>2. Clears(q) => led_state = 0 \/ Clears(t.frames) \/ Clears(p)
      <3> SUFFICES ASSUME Clears(q), led_state # 0, ~Clears(r.frames) PROVE Clears(p)
        BY <2>1
      <3>1. d = 0
        BY <1>3, <1>10
      <3>2. PICK i \in 1 .. Len(q) : q[i].type = "DISCONNECTED"
        BY DEF Clears
      <3>3. i \in 1 .. Len(p) - 1 /\ i \in 1 .. Len(p) /\ p[i] = q[i]
        BY <1>2, <1>3, <3>1, <3>2
      <3> QED BY <3>2, <3>3 DEF Clears
    <2>3. led_state = 0 \/ On(t, led_state) \/ Clears(t.frames) \/ Clears(p)
      BY <1>5, <2>1, <2>2 DEF AInv, LedKnown, r, q
    <2> QED BY <2>3 DEF LedKnown, t, p
  <1>15. p # <<>>
    BY <1>3
  <1> QED BY <1>11, <1>12, <1>13, <1>14, <1>15 DEF StreamInv, p

(* What is left of the stream once the oldest event is handled.             *)
LEMMA HandledStream ==
  ASSUME TypeOK, StreamInv, events # <<>>, events' = Tail(events),
         radio' = radio \/ Spoke(radio, radio'),
         radio' # radio => Head(events).type = "DISCONNECTED",
         Fits(Head(events), radio) /\ radio' = radio => Knows(radio)',
         Head(events).type \notin LinkTypes /\ Knows(radio) => Knows(radio)',
         \/ led_state' = 0
         \/ Head(events).type = "HID_INDICATOR" /\ led_state' = Head(events).host
         \/ Head(events).type # "DISCONNECTED" /\ led_state' = led_state
  PROVE  StreamInv'
  <1> DEFINE q == events  p == Tail(events)  e == Head(events)
  <1>1. /\ q \in Seq(Frames) /\ Len(q) \in Nat /\ Len(q) >= 1 /\ e = q[1]
        /\ p \in Seq(Frames) /\ Len(p) = Len(q) - 1
        /\ \A i \in 1 .. Len(p) : p[i] = q[i + 1]
    BY DEF TypeOK
  <1>2. /\ \A r : Says(q, r) => Says(p, r) \/ (Fits(e, r) /\ Mute(p))
        /\ Mute(q) => Mute(p) /\ e.type \notin LinkTypes
        /\ Clears(q) => Clears(p) \/ e.type = "DISCONNECTED"
    BY <1>1, TailSays
  <1>3. radio \in Radios
    BY DEF TypeOK
  <1>4. Clears(radio.frames) => Clears(radio.frames)'
    BY <1>3, ClearsExtends DEF Spoke
  <1>5. \A h : On(radio, h) => On(radio', h) \/ Clears(radio.frames)'
    <2>1. CASE radio' = radio
      BY <2>1
    <2>2. CASE Spoke(radio, radio')
      <3>1. radio.st = "CONNECTED" => Clears(radio.frames)'
        <4>1. radio' \in Radios /\ Len(radio.frames) \in Nat
          BY <1>3, <2>2 DEF Spoke, Radios
        <4> QED BY <2>2, <4>1 DEF Spoke, Clears
      <3> QED BY <3>1 DEF On
    <2> QED BY <2>1, <2>2
  <1> HIDE DEF p, q, e
  <1>6. events' = p
    BY DEF p
  <1>7. StatusKnown'
    <2>1. CASE Spoke(radio, radio')
      BY <2>1 DEF Spoke, StatusKnown
    <2>2. CASE radio' = radio
      <3>1. CASE Says(radio.frames, radio)
        BY <2>2, <3>1 DEF StatusKnown
      <3>2. CASE Mute(radio.frames) /\ Says(q, radio)
        <4>1. CASE Says(p, radio)
          BY <1>6, <2>2, <3>2, <4>1 DEF StatusKnown
        <4>2. CASE Fits(e, radio) /\ Mute(p)
          BY <1>6, <2>2, <3>2, <4>2 DEF StatusKnown, e
        <4> QED BY <1>2, <3>2, <4>1, <4>2
      <3>3. CASE Mute(radio.frames) /\ Mute(q) /\ Knows(radio)
        BY <1>2, <1>6, <2>2, <3>3 DEF StatusKnown, e
      <3> QED BY <3>1, <3>2, <3>3 DEF StreamInv, StatusKnown, q
    <2> QED BY <2>1, <2>2
  <1>8. LedFrames'
    <2>1. CASE Spoke(radio, radio')
      BY <2>1, SpokeLedFrames DEF StreamInv
    <2>2. CASE radio' = radio
      BY <2>2 DEF StreamInv, LedFrames
    <2> QED BY <2>1, <2>2
  <1>9. ASSUME NEW i \in 1 .. Len(q), q[i].type = "HID_INDICATOR"
        PROVE  \/ On(radio', q[i].host)
               \/ \E j \in i + 1 .. Len(q) : q[j].type = "DISCONNECTED"
               \/ Clears(radio.frames)'
    BY <1>4, <1>5, <1>9 DEF StreamInv, LedEvents, q
  <1>10. LedEvents'
    <2>1. ASSUME NEW i \in 1 .. Len(p), p[i].type = "HID_INDICATOR"
          PROVE  \/ On(radio', p[i].host)
                 \/ \E j \in i + 1 .. Len(p) : p[j].type = "DISCONNECTED"
                 \/ Clears(radio.frames)'
      <3>0. p[i] = q[i + 1]
        BY <1>1
      <3>1. i + 1 \in 1 .. Len(q) /\ q[i + 1].type = "HID_INDICATOR"
        BY <1>1, <2>1, <3>0
      <3>2. CASE \E j \in (i + 1) + 1 .. Len(q) : q[j].type = "DISCONNECTED"
        <4>1. PICK j \in (i + 1) + 1 .. Len(q) : q[j].type = "DISCONNECTED"
          BY <3>2
        <4>2. j - 1 \in i + 1 .. Len(p) /\ j - 1 \in 1 .. Len(p) /\ (j - 1) + 1 = j
          BY <1>1, <4>1
        <4>3. p[j - 1] = q[j]
          BY <1>1, <4>2
        <4> QED BY <4>1, <4>2, <4>3
      <3> QED BY <1>9, <3>0, <3>1, <3>2
    <2> QED BY <1>6, <2>1 DEF LedEvents
  <1>11. LedKnown'
    <2>1. CASE led_state' = 0
      BY <2>1 DEF LedKnown
    <2>2. CASE e.type = "HID_INDICATOR" /\ led_state' = e.host
      <3>1. \/ On(radio', e.host)
            \/ \E j \in 1 + 1 .. Len(q) : q[j].type = "DISCONNECTED"
            \/ Clears(radio.frames)'
        BY <1>1, <1>9, <2>2
      <3>2. CASE \E j \in 1 + 1 .. Len(q) : q[j].type = "DISCONNECTED"
        <4>1. Clears(q)
          BY <1>1, <3>2 DEF Clears
        <4> QED BY <1>2, <1>6, <2>2, <4>1 DEF LedKnown
      <3> QED BY <2>2, <3>1, <3>2 DEF LedKnown
    <2>3. CASE e.type # "DISCONNECTED" /\ led_state' = led_state
      BY <1>2, <1>4, <1>5, <1>6, <2>3 DEF StreamInv, LedKnown, q
    <2> QED BY <2>1, <2>2, <2>3 DEF e
  <1> QED BY <1>7, <1>8, <1>10, <1>11 DEF StreamInv

(* wireless_event_task handles one event.                                   *)
LEMMA EventTaskAInv == TypeOK /\ AInv /\ EventTask => AInv'
  <1> SUFFICES ASSUME TypeOK, AInv, EventTask PROVE AInv'
    OBVIOUS
  <1> DEFINE e == Head(events)
  <1>1. events # <<>> /\ events' = Tail(events) /\ phase = "events" /\ phase' = "events"
    BY DEF EventTask
  <1>2. radio \in Radios /\ e \in Frames
    BY <1>1 DEF TypeOK
  <1>3. /\ radio' = radio \/ Spoke(radio, radio')
        /\ radio' # radio => e.type = "DISCONNECTED"
        /\ Fits(e, radio) /\ radio' = radio => Knows(radio)'
        /\ e.type \notin LinkTypes /\ Knows(radio) => Knows(radio)'
        /\ \/ led_state' = 0
           \/ e.type = "HID_INDICATOR" /\ led_state' = e.host
           \/ e.type # "DISCONNECTED" /\ led_state' = led_state
    <2>1. CASE e.type = "DISCONNECTED" /\ EnterDisconnected
      <3>1. radio' = radio \/ radio' = Connecting(radio, 0)
        BY <2>1 DEF EnterDisconnected, EnterDisconnectedKb
      <3>2. radio' = radio \/ Spoke(radio, radio')
        BY <1>2, <3>1, ConnectingSpoke
      <3>3. wireless_state' # "CONNECTED" /\ led_state' = 0
        BY <2>1 DEF EnterDisconnected, EnterDisconnectedKb
      <3>4. Fits(e, radio) => radio.st # "CONNECTED"
        BY <2>1 DEF Fits
      <3> QED BY <2>1, <3>2, <3>3, <3>4 DEF Knows, LinkTypes
    <2>2. CASE e.type = "SLEEP" /\ EnterSleep
      <3>1. wireless_state' = "CONNECTED" <=> wireless_state = "CONNECTED"
        BY <2>2 DEF EnterSleep
      <3> QED BY <2>2, <3>1 DEF EnterSleep, Knows, Fits, LinkTypes
    <2>3. CASE \/ e.type = "RESET" /\ Enter("RESET", host_index)
               \/ e.type = "CONNECTED" /\ Enter("CONNECTED", e.host)
               \/ e.type = "DISCOVERABLE" /\ Enter("PARING", e.host)
               \/ e.type = "RECONNECTING" /\ Enter("RECONNECTING", e.host)
      BY <2>3 DEF Enter, Knows, Fits, LinkTypes
    <2>4. CASE /\ e.type \in {"PINCODE_ENTRY", "EXIT_PINCODE_ENTRY"}
               /\ UNCHANGED <<wireless_state, host_index, led_state, firstDisconnect, radio>>
      BY <2>4 DEF Knows, Fits, LinkTypes
    <2>5. CASE /\ e.type = "HID_INDICATOR"
               /\ led_state' = e.host
               /\ UNCHANGED <<wireless_state, host_index, pincodeEntry, firstDisconnect, radio>>
      BY <2>5 DEF Knows, Fits, LinkTypes
    <2> QED BY <2>1, <2>2, <2>3, <2>4, <2>5 DEF EventTask
  <1>4. StreamInv'
    BY <1>1, <1>3, HandledStream DEF AInv, StreamInv
  <1> QED BY <1>1, <1>4 DEF AInv, StreamInv, WhilePolling, AfterPolling, Handled

(* A step that tells what the module does, outside a transport switch.      *)
LEMMA SpokeAInv ==
  ASSUME TypeOK, AInv, Spoke(radio, radio'), events' = events,
         led_state' \in {led_state, 0},
         phase' \notin {"polling", "boot"},
         phase' \in {"common", "battery"} => events = <<>>,
         phase' = "keys" /\ events # <<>> => led_state' = 0 \/ Clears(radio.frames)'
  PROVE  AInv'
  <1>1. StreamInv' /\ ~Mute(radio.frames)'
    BY SpokeStream DEF AInv
  <1>2. WhilePolling' /\ AfterPolling' /\ Handled'
    BY <1>1 DEF WhilePolling, AfterPolling, Handled
  <1> QED BY <1>1, <1>2 DEF AInv, StreamInv

(* A step that touches neither the module nor the stream.                   *)
LEMMA KeepAInv ==
  ASSUME AInv, UNCHANGED <<radio, events, led_state, wireless_state, host_index>>,
         \/ events = <<>> /\ phase' # "polling"
         \/ phase' = "events"
         \/ UNCHANGED <<phase, transport, critical>>
  PROVE  AInv'
  <1>1. StreamInv'
    BY SilentStream DEF AInv, StreamInv, Knows
  <1>2. CASE events = <<>> /\ phase' # "polling"
    BY <1>1, <1>2 DEF AInv, StreamInv, WhilePolling, AfterPolling, Handled
  <1>3. CASE phase' = "events"
    BY <1>1, <1>3 DEF AInv, StreamInv, WhilePolling, AfterPolling, Handled
  <1>4. CASE UNCHANGED <<phase, transport, critical>>
    BY <1>1, <1>4 DEF AInv, StreamInv, WhilePolling, AfterPolling, Handled
  <1> QED BY <1>2, <1>3, <1>4

(* set_transport disconnects, whatever it does then.                        *)
LEMMA DisconnectAInv ==
  ASSUME TypeOK, AInv, radio' = Disconnected(radio), UNCHANGED <<events, led_state>>,
         phase' \in {"polling", "keys"},
         phase' = "polling" => transport' \in TRANSPORT_WIRELESS
  PROVE  AInv'
  <1>1. /\ Spoke(radio, radio') /\ radio'.st = "IDLE" /\ Clears(radio.frames)'
        /\ radio'.frames # <<>> /\ radio'.frames[Len(radio'.frames)].type = "DISCONNECTED"
    BY DisconnectedSpoke DEF TypeOK
  <1>2. StreamInv' /\ ~Mute(radio.frames)'
    BY <1>1, SpokeStream DEF AInv
  <1>3. WhilePolling' /\ AfterPolling' /\ Handled'
    BY <1>1, <1>2 DEF WhilePolling, AfterPolling, Handled
  <1> QED BY <1>2, <1>3 DEF AInv, StreamInv

(* A link that is up or being set up is not that of a transport switch, and *)
(* what the module said of it is on its way.                                *)
LEMMA NotIdle ==
  ASSUME AInv, radio.st # "IDLE"
  PROVE  /\ phase # "polling"
         /\ phase = "keys" /\ events # <<>> =>
                ~Mute(radio.frames) /\ (led_state = 0 \/ Clears(radio.frames))
  BY DEF AInv, WhilePolling, AfterPolling, Mute

(* What the module does by itself.                                          *)
LEMMA ModuleAInv ==
    TypeOK /\ AInv /\ (Reconnected \/ Paired \/ LinkLost \/ PairingTimeout \/ PinCode
                       \/ HostLeds)
    => AInv'
  <1> SUFFICES ASSUME TypeOK, AInv, Reconnected \/ Paired \/ LinkLost \/ PairingTimeout
                                    \/ PinCode \/ HostLeds
               PROVE  AInv'
    OBVIOUS
  <1>1. radio \in Radios /\ radio.host \in Hosts
    BY DEF TypeOK, Radios
  <1>2. /\ UNCHANGED <<events, led_state, wireless_state, host_index, phase, transport,
                       critical>>
        /\ radio.st # "IDLE"
    BY DEF Reconnected, Paired, LinkLost, PairingTimeout, PinCode, HostLeds, mcu
  <1>3. CASE Reconnected \/ Paired \/ LinkLost
    <2>1. ASSUME Reconnected \/ Paired PROVE Spoke(radio, radio')
      <3>1. radio' = Moved(radio, "CONNECTED", radio.host, "CONNECTED")
            /\ radio.st # "CONNECTED"
        BY <2>1 DEF Reconnected, Paired
      <3>2. "CONNECTED" \in LinkTypes /\ "CONNECTED" \in ModuleStates
        BY DEF LinkTypes, ModuleStates
      <3> QED BY <1>1, <3>1, <3>2, MovedSpoke
    <2>2. ASSUME LinkLost PROVE Spoke(radio, radio')
      BY <1>1, <2>2, DisconnectedSpoke DEF LinkLost
    <2>3. Spoke(radio, radio')
      BY <1>3, <2>1, <2>2
    <2>4. StreamInv' /\ ~Mute(radio.frames)'
          /\ (Clears(radio.frames) => Clears(radio.frames)')
      BY <1>2, <2>3, SpokeStream DEF AInv
    <2>5. WhilePolling' /\ AfterPolling' /\ Handled'
      BY <1>2, <2>4, NotIdle DEF AInv, WhilePolling, AfterPolling, Handled
    <2> QED BY <2>4, <2>5 DEF AInv, StreamInv
  <1>4. CASE PairingTimeout \/ PinCode \/ HostLeds
    <2>1. /\ StreamInv' /\ (Mute(radio.frames)' <=> Mute(radio.frames))
          /\ Clears(radio.frames) => Clears(radio.frames)'
      BY <1>2, <1>4, MutterStream
         DEF AInv, StreamInv, PairingTimeout, PinCode, HostLeds, ModuleStates, Statuses,
             LinkTypes
    <2>2. WhilePolling' /\ AfterPolling' /\ Handled'
      BY <1>2, <2>1, NotIdle DEF AInv, WhilePolling, AfterPolling, Handled
    <2> QED BY <2>1, <2>2 DEF AInv, StreamInv
  <1> QED BY <1>3, <1>4

(* A module that restarts forgets its frames and reports that it is         *)
(* disconnected.                                                            *)
LEMMA ModuleResetAInv == TypeOK /\ AInv /\ ModuleReset => AInv'
  <1> SUFFICES ASSUME TypeOK, AInv, ModuleReset PROVE AInv'
    OBVIOUS
  <1> DEFINE r == [radio EXCEPT !.frames = <<>>, !.reads = 0, !.resets = radio.resets + 1]
             s == Moved(r, "IDLE", radio.host, "RESET")
             f == Status("RESET", radio.host)  g == Status("DISCONNECTED", radio.host)
             t == radio'
  <1>1. radio \in Radios /\ radio.resets < MaxResets
    BY DEF TypeOK, ModuleReset
  <1>2. 0 \in 0 .. Repeats /\ radio.resets + 1 \in 0 .. MaxResets /\ <<>> \in Seq(Frames)
    BY <1>1 DEF Radios
  <1>3. r \in Radios /\ r.frames = <<>> /\ radio.host \in Hosts
    BY <1>1, <1>2 DEF Radios
  <1>4. "RESET" \in Statuses /\ "DISCONNECTED" \in Statuses /\ "IDLE" \in ModuleStates
    BY DEF Statuses, ModuleStates
  <1> HIDE DEF r
  <1>5. s \in Radios /\ s.host = radio.host /\ s.frames = Append(<<>>, f) /\ f \in Frames
    BY <1>3, <1>4, MovedFields
  <1>6. t = Disconnected(s)
    BY DEF ModuleReset, r
  <1> HIDE DEF s
  <1>7. /\ Spoke(s, t) /\ t.st = "IDLE" /\ Clears(t.frames)
        /\ t.frames # <<>> /\ t.frames[Len(t.frames)].type = "DISCONNECTED"
    BY <1>5, <1>6, DisconnectedSpoke
  <1>8. Says(t.frames, t) /\ ~Mute(t.frames)
    BY <1>7 DEF Spoke
  <1>9. \A i \in 1 .. Len(t.frames) : t.frames[i].type # "HID_INDICATOR"
    <2>1. f.type # "HID_INDICATOR"
      BY DEF Status
    <2>2. Len(s.frames) = 1 /\ s.frames[1] = f
      BY <1>5
    <2> QED BY <1>7, <2>1, <2>2 DEF Spoke, Extends
  <1>10. StatusKnown' /\ LedFrames' /\ LedEvents' /\ LedKnown'
    BY <1>7, <1>8, <1>9 DEF StatusKnown, LedFrames, LedEvents, LedKnown
  <1>11. UNCHANGED <<phase, transport, events, led_state>>
    BY DEF ModuleReset, mcu
  <1>12. WhilePolling' /\ AfterPolling' /\ Handled'
    BY <1>7, <1>8, <1>11 DEF AInv, WhilePolling, AfterPolling, Handled
  <1> QED BY <1>10, <1>12 DEF AInv

(* wireless_connect_ex changes wireless_state only together with the link.  *)
LEMMA ConnectExAInv ==
  ASSUME TypeOK, AInv, NEW h \in Hosts \cup {LastHost}, ConnectEx(h),
         h = LastHost => radio.st = "IDLE", events' = events
  PROVE  /\ StreamInv'
         /\ \/ Spoke(radio, radio') /\ led_state' = 0
            \/ radio' = radio /\ led_state' = 0 /\ radio.st # "IDLE"
            \/ /\ UNCHANGED <<radio, led_state, wireless_state, host_index>>
               /\ critical \/ wireless_state = "CONNECTED"
  <1>1. radio \in Radios /\ h \in Hosts \cup {0, LastHost}
    BY DEF TypeOK
  <1>2. CASE /\ UNCHANGED <<radio, led_state, wireless_state, host_index>>
             /\ critical \/ wireless_state = "CONNECTED"
    <2>1. StreamInv'
      BY <1>2, SilentStream DEF AInv, StreamInv, Knows
    <2> QED BY <1>2, <2>1
  <1>3. CASE /\ ~(host_index = h /\ wireless_state = "CONNECTED")
             /\ led_state' = 0 /\ radio' = Connecting(radio, h)
             /\ wireless_state' = "RECONNECTING"
    <2>1. CASE Spoke(radio, radio')
      BY <1>3, <2>1, SpokeStream DEF AInv
    <2>2. CASE radio' = radio /\ radio.st \in {"RECONNECTING", "CONNECTED"}
               /\ radio.host = SlotOf(radio, h)
      <3>1. h # LastHost /\ h # 0
        BY <1>1, <2>2 DEF Hosts
      <3>2. radio.host = h
        BY <2>2, <3>1 DEF SlotOf
      <3>3. Knows(radio) => Knows(radio)'
        BY <1>3, <2>2, <3>2 DEF Knows
      <3>4. StreamInv'
        BY <1>3, <2>2, <3>3, SilentStream DEF AInv, StreamInv
      <3> QED BY <1>3, <2>2, <3>4
    <2> QED BY <1>1, <1>3, <2>1, <2>2, ConnectingSpoke
  <1> QED BY <1>2, <1>3 DEF ConnectEx

(* A host key on bluetooth connects, on another transport it switches.      *)
LEMMA PressHostAInv ==
  ASSUME TypeOK, AInv, NEW h \in BtHosts, PressHost(h) PROVE AInv'
  <1>1. phase = "keys" /\ events' = events /\ critical' = critical
    BY DEF PressHost
  <1>2. CASE SwitchToWireless("BLUETOOTH", h) /\ UNCHANGED led_state
    BY <1>1, <1>2, DisconnectAInv DEF SwitchToWireless, TRANSPORT_WIRELESS
  <1>3. CASE ConnectEx(h) /\ UNCHANGED <<transport, phase>>
    <2>1. h \in Hosts \cup {LastHost} /\ h # LastHost
      BY DEF Hosts
    <2>2. /\ StreamInv'
          /\ \/ Spoke(radio, radio') /\ led_state' = 0
             \/ radio' = radio /\ led_state' = 0 /\ radio.st # "IDLE"
             \/ /\ UNCHANGED <<radio, led_state, wireless_state, host_index>>
                /\ critical \/ wireless_state = "CONNECTED"
      BY <1>1, <1>3, <2>1, ConnectExAInv
    <2>3. CASE Spoke(radio, radio') /\ led_state' = 0
      BY <1>1, <1>3, <2>3, SpokeAInv
    <2>4. CASE radio' = radio /\ led_state' = 0 /\ radio.st # "IDLE"
      BY <1>1, <1>3, <2>2, <2>4, NotIdle
         DEF AInv, StreamInv, WhilePolling, AfterPolling, Handled
    <2>5. CASE UNCHANGED <<radio, led_state, wireless_state, host_index>>
      BY <1>1, <1>3, <2>5, KeepAInv
    <2> QED BY <2>2, <2>3, <2>4, <2>5
  <1> QED BY <1>2, <1>3 DEF PressHost

(* Ordinary keys ask for a connection when the firmware knows of none.      *)
LEMMA SendAInv == TypeOK /\ AInv /\ (SendKeyboard \/ SendExtra) => AInv'
  <1> SUFFICES ASSUME TypeOK, AInv, SendKeyboard \/ SendExtra PROVE AInv'
    OBVIOUS
  <1>1. /\ phase = "keys" /\ wireless_state # "CONNECTED" /\ Connect
        /\ UNCHANGED <<transport, host_index, led_state, critical, events, phase>>
    BY DEF SendKeyboard, SendExtra
  <1>2. CASE critical /\ UNCHANGED <<wireless_state, radio>>
    BY <1>1, <1>2, KeepAInv
  <1>3. CASE ~critical /\ radio' = Connecting(radio, 0) /\ wireless_state' = "RECONNECTING"
    <2>1. CASE Spoke(radio, radio')
      <3>1. events # <<>> => led_state' = 0 \/ Clears(radio.frames)'
        <4>1. Clears(radio.frames) => Clears(radio.frames)'
          BY <1>1, <2>1, SpokeStream DEF AInv
        <4> QED BY <1>1, <1>3, <4>1 DEF AInv, AfterPolling
      <3> QED BY <1>1, <2>1, <3>1, SpokeAInv
    <2>2. CASE radio' = radio /\ radio.st \in {"RECONNECTING", "CONNECTED"}
      <3>1. Knows(radio) => Knows(radio)'
        BY <1>1, <1>3, <2>2 DEF Knows
      <3>2. StreamInv'
        BY <1>1, <2>2, <3>1, SilentStream DEF AInv, StreamInv
      <3> QED BY <1>1, <2>2, <3>2, NotIdle
              DEF AInv, StreamInv, WhilePolling, AfterPolling, Handled
    <2> QED BY <1>3, <2>1, <2>2, ConnectingSpoke DEF TypeOK
  <1> QED BY <1>1, <1>2, <1>3 DEF Connect

(* The loop of a transport switch and the poll of the main loop.            *)
LEMMA PollAInv == TypeOK /\ AInv /\ (PollModule \/ TransportTask) => AInv'
  <1> SUFFICES ASSUME TypeOK, AInv, PollModule \/ TransportTask PROVE AInv'
    OBVIOUS
  <1>1. UNCHANGED <<transport, wireless_state, host_index, led_state, critical>>
    BY DEF PollModule, TransportTask
  <1>2. CASE TransportTask /\ UNCHANGED <<events, radio>>
    BY <1>1, <1>2, KeepAInv DEF TransportTask
  <1>3. CASE TransportTask /\ ReadFrame
    BY <1>1, <1>3, ReadStream
       DEF TransportTask, AInv, StreamInv, WhilePolling, AfterPolling, Handled
  <1>4. CASE PollModule
    <2>1. StreamInv' /\ events' # <<>> /\ phase = "polling" /\ phase' = "polling"
      BY <1>1, <1>4, ReadStream DEF PollModule
    <2>2. /\ radio.frames \in Seq(Frames) /\ radio.frames # <<>>
          /\ radio'.st = radio.st /\ radio'.frames \in {radio.frames, Tail(radio.frames)}
      BY <1>4, ReadFields DEF PollModule
    <2>3. radio'.frames # <<>> =>
              radio'.frames[Len(radio'.frames)] = radio.frames[Len(radio.frames)]
      <3> DEFINE s == radio.frames  t == radio'.frames
      <3>1. CASE t = s
        BY <3>1
      <3>2. CASE t = Tail(s) /\ t # <<>>
        <4>1. /\ Len(t) = Len(s) - 1 /\ Len(t) \in 1 .. Len(t)
              /\ \A i \in 1 .. Len(t) : t[i] = s[i + 1]
          BY <2>2, <3>2
        <4>2. Len(t) + 1 = Len(s)
          BY <2>2, <4>1
        <4> QED BY <4>1, <4>2
      <3> QED BY <2>2, <3>1, <3>2
    <2>4. WhilePolling'
      BY <1>1, <2>1, <2>2, <2>3 DEF AInv, WhilePolling
    <2> QED BY <2>1, <2>4 DEF AInv, StreamInv, AfterPolling, Handled
  <1> QED BY <1>2, <1>3, <1>4 DEF TransportTask

(* The end of a transport switch.                                           *)
LEMMA EndPollingAInv == TypeOK /\ AInv /\ EndPolling => AInv'
  <1> SUFFICES ASSUME TypeOK, AInv, EndPolling PROVE AInv'
    OBVIOUS
  <1>1. /\ phase = "polling" /\ phase' = "keys"
        /\ UNCHANGED <<transport, critical, events>>
    BY DEF EndPolling
  <1>2. radio \in Radios /\ radio.st = "IDLE"
    BY <1>1 DEF TypeOK, AInv, WhilePolling
  <1>3. CASE Spoke(radio, radio') /\ led_state' = 0
    BY <1>1, <1>3, SpokeAInv
  <1>4. CASE /\ UNCHANGED <<radio, led_state, wireless_state, host_index>>
             /\ critical \/ wireless_state = "CONNECTED"
    <2>1. StreamInv'
      BY <1>1, <1>4, SilentStream DEF AInv, StreamInv, Knows
    <2>2. radio.frames # <<>> => ~Mute(radio.frames) /\ Clears(radio.frames)
      <3> SUFFICES ASSUME radio.frames # <<>>
                   PROVE  ~Mute(radio.frames) /\ Clears(radio.frames)
        OBVIOUS
      <3>1. Len(radio.frames) \in 1 .. Len(radio.frames)
        BY <1>2 DEF Radios
      <3>2. radio.frames[Len(radio.frames)].type = "DISCONNECTED"
        BY <1>1 DEF AInv, WhilePolling
      <3> QED BY <3>1, <3>2 DEF Mute, Clears, LinkTypes
    <2> QED BY <1>1, <1>2, <1>4, <2>1, <2>2
            DEF AInv, StreamInv, WhilePolling, AfterPolling, Handled
  <1>5. ASSUME NEW h \in {P24G_INDEX, LastHost}, ConnectEx(h) PROVE AInv'
    <2>1. h \in Hosts \cup {LastHost}
      BY DEF Hosts
    <2> QED BY <1>1, <1>2, <1>3, <1>4, <1>5, <2>1, ConnectExAInv
  <1>6. ASSUME request # 0, led_state' = 0,
               radio' = Connecting(Connecting(radio, LastHost), request)
        PROVE  AInv'
    <2>1. request \in Hosts \cup {0, LastHost} /\ LastHost \in Hosts \cup {0, LastHost}
      BY DEF TypeOK
    <2> DEFINE c == Connecting(radio, LastHost)
    <2>2. Spoke(radio, c) /\ c \in Radios
      BY <1>2, <2>1, ConnectingSpoke DEF Spoke
    <2> HIDE DEF c
    <2>3. radio' = c \/ Spoke(c, radio')
      BY <1>6, <2>1, <2>2, ConnectingSpoke DEF c
    <2>4. Spoke(radio, radio')
      BY <1>2, <2>2, <2>3, SpokeAgain
    <2> QED BY <1>3, <1>6, <2>4
  <1>7. CASE critical /\ UNCHANGED <<wireless_state, host_index, led_state, radio>>
    BY <1>4, <1>7
  <1> QED BY <1>5, <1>6, <1>7 DEF EndPolling

(* Every step preserves the invariant.                                      *)
LEMMA NextAInv == TypeOK /\ AInv /\ [Next]_vars => AInv'
  <1> SUFFICES ASSUME TypeOK, AInv, [Next]_vars PROVE AInv'
    OBVIOUS
  <1>1. CASE UNCHANGED vars
    BY <1>1, KeepAInv DEF vars, mcu
  <1>2. CASE PreTask
    <2>1. phase = "boot" /\ events = <<>>
      BY <1>2 DEF PreTask, AInv, Handled
    <2>2. CASE radio' = Disconnected(radio)
      BY <1>2, <2>1, <2>2, DisconnectAInv DEF PreTask, SwitchToWireless, SwitchToUsb
    <2>3. CASE radio' = radio /\ phase' = "keys"
      BY <1>2, <2>1, <2>3, KeepAInv DEF PreTask
    <2> QED BY <1>2, <2>2, <2>3 DEF PreTask, SwitchToWireless, SwitchToUsb
  <1>3. CASE PressP24g
    <2>1. CASE SwitchToWireless("P2P4", P24G_INDEX)
      BY <1>3, <2>1, DisconnectAInv DEF PressP24g, SwitchToWireless, TRANSPORT_WIRELESS
    <2>2. CASE UNCHANGED <<transport, phase, request, radio, pairedOnUsb, skipped>>
      BY <1>3, <2>2, KeepAInv DEF PressP24g
    <2> QED BY <1>3, <2>1, <2>2 DEF PressP24g
  <1>4. CASE PressUsb
    BY <1>4, DisconnectAInv DEF PressUsb, SwitchToUsb
  <1>5. CASE ReleaseHost \/ BootOver
    BY <1>5, KeepAInv DEF ReleaseHost, BootOver
  <1>6. CASE EventsDone
    BY <1>6, KeepAInv DEF EventsDone
  <1>7. CASE CommonTask
    <2>1. events = <<>> /\ events' = events /\ phase' = "battery" /\ led_state' = led_state
      BY <1>7 DEF CommonTask, AInv, Handled
    <2>2. CASE radio' = Pairing(radio)
      BY <2>1, <2>2, PairingSpoke, SpokeAInv DEF TypeOK
    <2>3. CASE UNCHANGED <<wireless_state, host_index, radio>>
      BY <2>1, <2>3, KeepAInv
    <2> QED BY <1>7, <2>2, <2>3 DEF CommonTask, PairingEx
  <1>8. CASE BatteryTask
    <2>1. /\ events = <<>> /\ phase' = "keys"
          /\ UNCHANGED <<events, wireless_state, host_index, led_state>>
      BY <1>8 DEF BatteryTask, AInv, Handled
    <2>2. CASE radio' = Disconnected(radio)
      BY <2>1, <2>2, DisconnectAInv
    <2>3. CASE radio' = radio
      BY <2>1, <2>3, KeepAInv
    <2> QED BY <1>8, <2>2, <2>3 DEF BatteryTask, LowBatteryShutdown
  <1> QED BY <1>1, <1>2, <1>3, <1>4, <1>5, <1>6, <1>7, <1>8, ModuleAInv, ModuleResetAInv,
             PressHostAInv, SendAInv, PollAInv, EndPollingAInv, EventTaskAInv DEF Next

(* After boot the module has one frame to say: that it is disconnected.     *)
LEMMA InitAInv == Init => AInv
  <1> SUFFICES ASSUME Init PROVE AInv
    OBVIOUS
  <1>1. PICK h \in Hosts, l \in BtHosts :
            radio = [st |-> "IDLE", host |-> h, last |-> l,
                     frames |-> <<Status("DISCONNECTED", h)>>, reads |-> 0, resets |-> 0]
    BY DEF Init
  <1>2. /\ Len(radio.frames) = 1 /\ radio.frames[1].type = "DISCONNECTED"
        /\ radio.st = "IDLE"
    BY <1>1 DEF Status
  <1>3. Says(radio.frames, radio)
    BY <1>2 DEF Says, Fits, LinkTypes
  <1>4. StatusKnown /\ LedFrames /\ LedEvents /\ LedKnown
    BY <1>2, <1>3 DEF Init, StatusKnown, LedFrames, LedEvents, LedKnown
  <1> QED BY <1>4 DEF Init, AInv, WhilePolling, AfterPolling, Handled

(* Once every event is handled the firmware knows the link.                 *)
LEMMA QuietKnows == AInv /\ Quiet => phase # "polling" /\ Knows(radio)
                                     /\ (led_state = 0 \/ On(radio, led_state))
  <1> SUFFICES ASSUME AInv, Quiet
               PROVE  phase # "polling" /\ Knows(radio)
                      /\ (led_state = 0 \/ On(radio, led_state))
    OBVIOUS
  <1>1. ~Says(<<>>, radio) /\ ~Clears(<<>>)
    BY DEF Says, Clears
  <1> QED BY <1>1 DEF AInv, Quiet, StatusKnown, LedKnown, WhilePolling

(* The invariant always holds.                                              *)
LEMMA AlwaysAInv == Spec => []AInv
  <1>1. WInv => TypeOK
    BY DEF WInv
  <1> QED BY <1>1, InitWInv, NextWInv, InitAInv, NextAInv, PTL DEF Spec

(* For every number of host slots, every capacity of the event queue and    *)
(* however often frames are repeated, keys are pressed, the module restarts *)
(* or a transport switch lets events overflow: when everything is handled,  *)
(* wireless_state and host_index tell the module's connection (wireless.c). *)
THEOREM ConnectionAgrees == Spec => []Agreement
  <1>1. AInv => Agreement
    BY QuietKnows DEF Agreement, Knows
  <1> QED BY <1>1, AlwaysAInv, PTL

(* The LED state shown on a connection is that of its host or cleared, even *)
(* when the event that clears it is pushed out of the queue or repeated     *)
(* (wireless_enter_disconnected, wireless_connect_ex).                      *)
THEOREM LedsFollowHost == Spec => []LedsOfThisHost
  <1>1. AInv => LedsOfThisHost
    BY QuietKnows DEF LedsOfThisHost, Knows, On
  <1> QED BY <1>1, AlwaysAInv, PTL

-----------------------------------------------------------------------------
(***************************************************************************)
(* The chosen transport and the radio.                                     *)
(***************************************************************************)

\* The module's slot is one of the transport's, unless the switch to it was
\* skipped.
SlotInv ==
    phase # "polling" /\ ~skipped =>
        /\ transport = "BLUETOOTH" => radio.host \in BtHosts
        /\ transport = "P2P4" => radio.host = P24G_INDEX

\* A key that started a switch to bluetooth is a bluetooth host key.
RequestInv ==
    phase = "polling" /\ transport = "BLUETOOTH" => request \in BtHosts \cup {0}

TInv ==
    /\ SlotInv /\ RequestInv
    /\ transport = "USB" /\ ~pairedOnUsb => radio.st = "IDLE"

(* The module by itself stays on its slot, and stays idle.                  *)
LEMMA ModuleTInv ==
    TypeOK /\ TInv /\ (Reconnected \/ Paired \/ LinkLost \/ PairingTimeout \/ PinCode
                       \/ HostLeds \/ ModuleReset)
    => TInv'
  <1> SUFFICES ASSUME TypeOK, TInv, Reconnected \/ Paired \/ LinkLost \/ PairingTimeout
                                    \/ PinCode \/ HostLeds \/ ModuleReset
               PROVE  TInv'
    OBVIOUS
  <1>1. UNCHANGED <<phase, transport, request, pairedOnUsb, skipped>>
    BY DEF Reconnected, Paired, LinkLost, PairingTimeout, PinCode, HostLeds, ModuleReset,
           mcu
  <1>2. radio'.host = radio.host /\ (radio.st = "IDLE" => radio'.st = "IDLE")
    BY DEF Reconnected, Paired, LinkLost, PairingTimeout, PinCode, HostLeds, ModuleReset,
           Moved, Disconnected, TypeOK, Radios
  <1> QED BY <1>1, <1>2 DEF TInv, SlotInv, RequestInv

(* Connecting to a slot of the transport.                                   *)
LEMMA ConnectExTInv ==
  ASSUME TypeOK, NEW h \in Hosts \cup {LastHost}, ConnectEx(h)
  PROVE  \/ radio' = radio
         \/ /\ h \in Hosts => radio'.host = h
            /\ h = LastHost => radio'.host \in BtHosts
  <1>1. radio \in Radios /\ h \in Hosts \cup {0, LastHost} /\ h # 0
    BY DEF TypeOK, Hosts
  <1>2. CASE radio' = Connecting(radio, h)
    <2>1. radio'.host = SlotOf(radio, h)
      BY <1>1, <1>2, ConnectingSpoke
    <2>2. h \in Hosts => h # LastHost
      BY DEF Hosts
    <2> QED BY <1>1, <2>1, <2>2 DEF SlotOf, Radios
  <1> QED BY <1>2 DEF ConnectEx

(* Asking for the current slot.                                             *)
LEMMA ConnectTInv ==
  ASSUME TypeOK, radio' = Connecting(radio, 0) PROVE radio'.host = radio.host
  BY ConnectingSpoke DEF SlotOf, TypeOK, Hosts

(* The end of a transport switch either connects to a slot of the new       *)
(* transport or is recorded as skipped.                                     *)
LEMMA EndPollingTInv == TypeOK /\ TInv /\ EndPolling => TInv'
  <1> SUFFICES ASSUME TypeOK, TInv, EndPolling PROVE TInv'
    OBVIOUS
  <1>1. /\ transport' = transport /\ transport \in TRANSPORT_WIRELESS
        /\ skipped' = (radio' = radio)
    BY DEF EndPolling, TRANSPORT_WIRELESS
  <1>2. transport # "USB" /\ transport' # "USB"
    BY <1>1 DEF TRANSPORT_WIRELESS
  <1>3. ASSUME radio' # radio
        PROVE  /\ transport = "BLUETOOTH" => radio'.host \in BtHosts
               /\ transport = "P2P4" => radio'.host = P24G_INDEX
    <2>1. CASE transport = "P2P4" /\ ConnectEx(P24G_INDEX)
      BY <1>3, <2>1, ConnectExTInv DEF Hosts
    <2>2. CASE transport = "BLUETOOTH" /\ request = 0 /\ ConnectEx(LastHost)
      BY <1>3, <2>2, ConnectExTInv DEF Hosts
    <2>3. CASE transport = "BLUETOOTH" /\ request # 0
               /\ radio' = Connecting(Connecting(radio, LastHost), request)
      <3> DEFINE c == Connecting(radio, LastHost)
      <3>1. request \in Hosts /\ LastHost \in Hosts \cup {0, LastHost} /\ c \in Radios
        BY <2>3, ConnectingType DEF TypeOK
      <3> HIDE DEF c
      <3>2. radio'.host = SlotOf(c, request)
        BY <2>3, <3>1, ConnectingSpoke DEF c
      <3>3. request \in BtHosts /\ request # LastHost
        BY <2>3 DEF TInv, RequestInv, EndPolling
      <3> QED BY <2>3, <3>2, <3>3 DEF SlotOf
    <2> QED BY <1>3, <2>1, <2>2, <2>3 DEF EndPolling
  <1>4. phase' = "keys"
    BY DEF EndPolling
  <1> QED BY <1>1, <1>2, <1>3, <1>4 DEF TInv, SlotInv, RequestInv

(* Every step keeps the module on the slots of the transport, and silent on *)
(* USB unless a held host key starts pairing.                               *)
LEMMA NextTInv == TypeOK /\ TInv /\ [Next]_vars => TInv'
  <1> SUFFICES ASSUME TypeOK, TInv, [Next]_vars PROVE TInv'
    OBVIOUS
  <1>1. radio \in Radios
    BY DEF TypeOK
  <1>2. Disconnected(radio).st = "IDLE" /\ Disconnected(radio).host = radio.host
    BY <1>1, DisconnectedSpoke
  <1>3. ASSUME UNCHANGED <<transport, phase, request, pairedOnUsb, skipped>>,
               radio'.host = radio.host, radio.st = "IDLE" \/ transport # "USB"
                                         => radio'.st = "IDLE" \/ transport # "USB"
        PROVE  TInv'
    BY <1>3 DEF TInv, SlotInv, RequestInv
  <1>4. CASE UNCHANGED vars
    BY <1>3, <1>4 DEF vars, mcu
  <1>5. ASSUME NEW t, NEW k, SwitchToWireless(t, k), t = "BLUETOOTH" => k \in BtHosts \cup {0},
               t # "USB"
        PROVE  TInv'
    BY <1>5 DEF SwitchToWireless, TInv, SlotInv, RequestInv
  <1>6. ASSUME SwitchToUsb, phase' # "polling" PROVE TInv'
    BY <1>2, <1>6 DEF SwitchToUsb, TInv, SlotInv, RequestInv
  <1>7. CASE PreTask
    <2>1. CASE phase' = "keys" /\ UNCHANGED <<transport, radio, pairedOnUsb, skipped>>
      BY <1>7, <2>1 DEF PreTask, TInv, SlotInv, RequestInv
    <2> QED BY <1>5, <1>6, <1>7, <2>1 DEF PreTask, TRANSPORT_WIRELESS
  <1>8. ASSUME NEW h \in BtHosts, PressHost(h) PROVE TInv'
    <2>1. CASE SwitchToWireless("BLUETOOTH", h)
      BY <1>5, <2>1
    <2>2. CASE /\ transport = "BLUETOOTH" /\ ConnectEx(h)
               /\ UNCHANGED <<transport, phase, request, pairedOnUsb, skipped>>
      <3>1. h \in Hosts
        BY DEF Hosts
      <3>2. radio' = radio \/ radio'.host = h
        BY <2>2, <3>1, ConnectExTInv
      <3> QED BY <1>8, <2>2, <3>2 DEF TInv, SlotInv, RequestInv
    <2> QED BY <1>8, <2>1, <2>2 DEF PressHost
  <1>9. CASE PressP24g
    <2>1. CASE SwitchToWireless("P2P4", P24G_INDEX)
      BY <1>5, <2>1
    <2>2. CASE UNCHANGED <<transport, phase, request, radio, pairedOnUsb, skipped>>
      BY <1>3, <2>2
    <2> QED BY <1>9, <2>1, <2>2 DEF PressP24g
  <1>10. CASE PressUsb
    BY <1>6, <1>10 DEF PressUsb
  <1>11. CASE ReleaseHost \/ BootOver
    BY <1>3, <1>11 DEF ReleaseHost, BootOver
  <1>12. CASE SendKeyboard \/ SendExtra
    <2>1. /\ transport # "USB" /\ UNCHANGED <<transport, phase, request, pairedOnUsb, skipped>>
          /\ radio' = radio \/ radio' = Connecting(radio, 0)
      BY <1>12 DEF SendKeyboard, SendExtra, Connect, TRANSPORT_WIRELESS
    <2> QED BY <1>3, <2>1, ConnectTInv
  <1>13. CASE PollModule \/ TransportTask
    <2>1. radio'.host = radio.host /\ radio'.st = radio.st
      BY <1>13, ReadFields DEF PollModule, TransportTask
    <2>2. UNCHANGED <<transport, request, pairedOnUsb, skipped>>
          /\ phase' \in {phase, "events"} /\ (phase = "polling" => phase' = "polling")
      BY <1>13 DEF PollModule, TransportTask
    <2> QED BY <2>1, <2>2 DEF TInv, SlotInv, RequestInv
  <1>14. CASE EventTask
    <2>1. UNCHANGED <<transport, phase, request, pairedOnUsb, skipped>>
          /\ (radio' = radio \/ (transport # "USB" /\ radio' = Connecting(radio, 0)))
      BY <1>14 DEF EventTask, Enter, EnterSleep, EnterDisconnected, EnterDisconnectedKb
    <2> QED BY <1>3, <2>1, ConnectTInv
  <1>15. CASE EventsDone
    BY <1>15 DEF EventsDone, TInv, SlotInv, RequestInv
  <1>16. CASE CommonTask
    <2>1. UNCHANGED <<transport, request, skipped>> /\ phase = "common" /\ phase' = "battery"
      BY <1>16 DEF CommonTask
    <2>2. CASE UNCHANGED <<radio, pairedOnUsb>>
      BY <2>1, <2>2 DEF TInv, SlotInv, RequestInv
    <2>3. CASE radio' = Pairing(radio) /\ pairedOnUsb' = (transport = "USB")
      BY <1>1, <2>1, <2>3, PairingSpoke DEF TInv, SlotInv, RequestInv
    <2> QED BY <1>16, <2>2, <2>3 DEF CommonTask, PairingEx
  <1>17. CASE BatteryTask
    <2>1. /\ UNCHANGED <<transport, request, pairedOnUsb, skipped>>
          /\ phase = "battery" /\ phase' = "keys"
          /\ radio' = radio \/ radio' = Disconnected(radio)
      BY <1>17 DEF BatteryTask, LowBatteryShutdown
    <2> QED BY <1>2, <2>1 DEF TInv, SlotInv, RequestInv
  <1> QED BY <1>4, <1>7, <1>8, <1>9, <1>10, <1>11, <1>12, <1>13, <1>14, <1>15, <1>16,
             <1>17, ModuleTInv, EndPollingTInv DEF Next

(* The invariant always holds.                                              *)
LEMMA AlwaysTInv == Spec => []TInv
  <1>1. Init => TInv
    BY DEF Init, TInv, SlotInv, RequestInv
  <1>2. WInv => TypeOK
    BY DEF WInv
  <1> QED BY <1>1, <1>2, InitWInv, NextWInv, NextTInv, PTL DEF Spec

(* After MD_USB, or at boot with the cable, the radio is silent whatever    *)
(* was queued before, unless a host key still held starts pairing           *)
(* (wireless_enter_disconnected_kb, the tests of the transport).            *)
THEOREM UsbIsSilent == Spec => []SilentOnUsb
  <1>1. TInv => SilentOnUsb
    BY DEF TInv, SilentOnUsb
  <1> QED BY <1>1, AlwaysTInv, PTL

(* A connection is to a host of the transport that was chosen last, unless  *)
(* set_transport found nothing to do (transport.c, wireless_connect_ex).    *)
THEOREM TransportObeyed == Spec => []HostOfTransport
  <1>1. AInv /\ TInv => HostOfTransport
    BY QuietKnows DEF TInv, SlotInv, HostOfTransport, Knows
  <1> QED BY <1>1, AlwaysAInv, AlwaysTInv, PTL
=============================================================================
