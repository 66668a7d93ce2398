-------------------------- MODULE Connection_proofs --------------------------
(***************************************************************************)
(* Proofs about what hangs on the connection: the NKRO setting and the     *)
(* slot a long press pairs.  Each composes with Wireless, whose invariants *)
(* (Wireless_proofs) carry over because every step of the composition is a *)
(* step of the connection or leaves it alone.                              *)
(***************************************************************************)
EXTENDS Wireless_proofs, HostKeys, Nkro

USE HostAssumption

-----------------------------------------------------------------------------
\* The NKRO setting.

\* Where the setting made on USB is, on each transport.
NkroInv ==
    /\ keymap_nkro \in BOOLEAN /\ usbChoice \in BOOLEAN /\ mixed \in BOOLEAN
    /\ nkro \in [usb : BOOLEAN, bluetooth : BOOLEAN]
    /\ ~mixed =>
         /\ transport \in {"NONE", "USB"} => keymap_nkro = usbChoice
         /\ transport # "USB" => nkro.usb = usbChoice

(* A step of the composition is one of the connection.                      *)
LEMMA NkroStep == [NkroNext]_<<vars, nkroVars>> => [Next]_vars
  BY DEF NkroNext, ToggleNkro, Next

(* set_transport finds the USB setting where it left it.                    *)
LEMMA SwitchNkroInv ==
  ASSUME TypeOK, TypeOK', NkroInv, SwitchNkro PROVE NkroInv'
  <1>1. transport \in {"BLUETOOTH", "P2P4", "NONE", "USB"}
    BY DEF TypeOK, TRANSPORT_WIRELESS
  <1>2. transport' \in {"BLUETOOTH", "P2P4", "USB"} /\ transport' # transport
    BY DEF SwitchNkro, StoreAndLoad, TRANSPORT_WIRELESS
  <1>3. CASE transport' = "USB"
    <2>1. nkro' = [nkro EXCEPT !.bluetooth = keymap_nkro] /\ keymap_nkro' = nkro.usb
      BY <1>3 DEF SwitchNkro, StoreAndLoad, TRANSPORT_WIRELESS
    <2>2. ~mixed' => ~mixed
      BY DEF SwitchNkro, NkroInv
    <2>3. mixed' \in BOOLEAN /\ usbChoice' = usbChoice
      BY DEF SwitchNkro
    <2> QED BY <1>2, <1>3, <2>1, <2>2, <2>3 DEF NkroInv
  <1>4. CASE transport' # "USB"
    <2>1. nkro' = [nkro EXCEPT !.usb = keymap_nkro] /\ keymap_nkro' = nkro.bluetooth
      BY <1>4 DEF SwitchNkro, StoreAndLoad
    <2>2. mixed' \in BOOLEAN /\ usbChoice' = usbChoice
      BY DEF SwitchNkro
    <2>3. ~mixed' => ~mixed /\ transport \in {"NONE", "USB"}
      <3> SUFFICES ASSUME ~mixed' PROVE ~mixed /\ transport \in {"NONE", "USB"}
        OBVIOUS
      <3>1. ~mixed /\ {transport, transport'} # TRANSPORT_WIRELESS
        BY DEF SwitchNkro
      <3>2. ~(transport \in {"BLUETOOTH", "P2P4"} /\ transport' \in {"BLUETOOTH", "P2P4"})
        BY <1>2, <3>1 DEF TRANSPORT_WIRELESS
      <3> QED BY <1>1, <1>2, <1>4, <3>1, <3>2
    <2> QED BY <1>2, <1>4, <2>1, <2>2, <2>3 DEF NkroInv
  <1> QED BY <1>3, <1>4

(* Every step keeps track of the USB setting.                               *)
LEMMA NextNkroInv ==
  ASSUME TypeOK, TypeOK', NkroInv, [NkroNext]_<<vars, nkroVars>> PROVE NkroInv'
  <1>1. CASE UNCHANGED <<vars, nkroVars>>
    BY <1>1 DEF NkroInv, nkroVars, vars, mcu
  <1>2. CASE Next /\ SwitchNkro
    BY <1>2, SwitchNkroInv
  <1>3. CASE EventTask /\ EventNkro(Head(events))
    <2>1. transport' = transport /\ nkro' = nkro /\ usbChoice' = usbChoice
      BY <1>3 DEF EventTask, EventNkro
    <2>2. keymap_nkro' \in BOOLEAN
      BY <1>3 DEF EventNkro, NkroInv
    <2>3. mixed' \in BOOLEAN /\ (~mixed' => ~mixed /\ transport \in TRANSPORT_WIRELESS)
      BY <1>3 DEF EventNkro
    <2> QED BY <2>1, <2>2, <2>3 DEF NkroInv, TRANSPORT_WIRELESS
  <1>4. CASE transport' = transport /\ UNCHANGED nkroVars
    BY <1>4 DEF NkroInv, nkroVars
  <1>5. CASE ToggleNkro
    <2>1. transport' = transport /\ nkro' = nkro /\ keymap_nkro' \in BOOLEAN
      BY <1>5 DEF ToggleNkro, vars, mcu
    <2>2. CASE transport = "USB" /\ usbChoice' = keymap_nkro' /\ mixed' = FALSE
      BY <2>1, <2>2 DEF NkroInv
    <2>3. CASE transport # "USB" /\ mixed' = (mixed \/ transport = "NONE")
               /\ usbChoice' = usbChoice
      BY <2>1, <2>3 DEF NkroInv
    <2> QED BY <1>5, <2>2, <2>3 DEF ToggleNkro
  <1>6. CASE EventTask /\ UNCHANGED nkroVars
    BY <1>6 DEF NkroInv, nkroVars, EventTask
  <1> QED BY <1>1, <1>2, <1>3, <1>4, <1>5, <1>6 DEF NkroNext

(* For every history of transport switches, events and NKRO keys: the       *)
(* setting in force on USB is the one made there, unless the switch was     *)
(* between the two wireless transports or an event was handled off them     *)
(* (set_transport, wireless_enter_connected).                               *)
THEOREM UsbKeepsItsSetting == NkroSpec => []UsbSettingKept
  <1>1. NkroInit => Init /\ NkroInv
    <2> SUFFICES ASSUME NkroInit PROVE NkroInv
      BY DEF NkroInit
    <2>1. /\ keymap_nkro \in BOOLEAN /\ usbChoice = keymap_nkro /\ mixed = FALSE
          /\ nkro = [usb |-> keymap_nkro, bluetooth |-> keymap_nkro]
      BY DEF NkroInit
    <2>2. nkro \in [usb : BOOLEAN, bluetooth : BOOLEAN] /\ nkro.usb = usbChoice
      BY <2>1
    <2> QED BY <2>1, <2>2, Zenon DEF NkroInv
  <1>2. WInv => TypeOK
    BY DEF WInv
  <1>3. NkroInv => UsbSettingKept
    BY DEF NkroInv, UsbSettingKept
  <1>4. TypeOK /\ TypeOK' /\ NkroInv /\ [NkroNext]_<<vars, nkroVars>> => NkroInv'
    BY NextNkroInv
  <1> QED BY <1>1, <1>2, <1>3, <1>4, NkroStep, InitWInv, NextWInv, PTL DEF NkroSpec

-----------------------------------------------------------------------------
\* The slot a long press pairs.

\* Where the module is, or goes when the transport switch ends, once a host key
\* has asked for its slot.
KeyInv ==
    /\ keySlot \in Hosts \cup {0}
    /\ phase = "boot" => keySlot = 0
    /\ phase = "polling" /\ keySlot # 0 => request = keySlot
    /\ phase = "polling" /\ transport = "P2P4" => request \in {0, P24G_INDEX}
    /\ /\ phase # "polling" /\ transport \in TRANSPORT_WIRELESS
       /\ keySlot # 0 /\ ~skipped
       => radio.host = keySlot

(* A step of the composition is one of the connection.                      *)
LEMMA KeyStep == [KeyNext]_<<vars, keySlot>> => [Next]_vars
  BY DEF KeyNext, HostKey, Rest, Next

(* A host key moves the module to its slot, unless wireless_connect_ex      *)
(* finds nothing to do.                                                     *)
LEMMA HostKeyInv ==
  ASSUME TypeOK, AInv, TInv, KeyInv, HostKey PROVE KeyInv'
  <1>1. radio \in Radios
    BY DEF TypeOK
  <1>2. ASSUME NEW h \in BtHosts, PressHost(h), keySlot' = IF Ignored(h) THEN 0 ELSE h
        PROVE  KeyInv'
    <2>1. h \in Hosts /\ h # 0 /\ phase = "keys"
      BY <1>2 DEF Hosts, PressHost
    <2>2. CASE SwitchToWireless("BLUETOOTH", h)
      BY <1>2, <2>1, <2>2 DEF SwitchToWireless, KeyInv
    <2>3. CASE /\ ConnectEx(h) /\ UNCHANGED <<transport, phase, request, skipped>>
      <3>1. CASE keySlot' = 0
        BY <2>1, <2>3, <3>1 DEF KeyInv
      <3>2. CASE keySlot' = h /\ ~Ignored(h)
        <4>1. radio'.host = h
          <5>1. CASE wireless_state = "CONNECTED" /\ host_index = h /\ Quiet
                     /\ radio' = radio
            BY <5>1, QuietKnows DEF Knows
          <5>2. CASE radio' = Connecting(radio, h)
            <6>1. radio'.host = SlotOf(radio, h)
              BY <1>1, <2>1, <5>2, ConnectingSpoke
            <6> QED BY <2>1, <6>1 DEF SlotOf
          <5> QED BY <2>3, <3>2, <5>1, <5>2 DEF ConnectEx, Ignored
        <4> QED BY <2>1, <2>3, <3>2, <4>1 DEF KeyInv
      <3> QED BY <1>2, <3>1, <3>2
    <2> QED BY <1>2, <2>2, <2>3 DEF PressHost
  <1>3. ASSUME PressP24g, keySlot' = IF critical THEN 0 ELSE P24G_INDEX PROVE KeyInv'
    <2>1. P24G_INDEX \in Hosts /\ phase = "keys"
      BY <1>3 DEF Hosts, PressP24g
    <2>2. CASE SwitchToWireless("P2P4", P24G_INDEX)
      BY <1>3, <2>1, <2>2 DEF SwitchToWireless, KeyInv
    <2>3. CASE transport = "P2P4" /\ UNCHANGED <<transport, phase, request, radio, skipped>>
      BY <1>3, <2>1, <2>3 DEF KeyInv, TInv, SlotInv
    <2> QED BY <1>3, <2>2, <2>3 DEF PressP24g
  <1> QED BY <1>2, <1>3 DEF HostKey

(* Nothing else moves the module away from the slot of the key.             *)
LEMMA RestKeyInv ==
  ASSUME TypeOK, TInv, KeyInv, Rest, keySlot' = keySlot PROVE KeyInv'
  <1>1. radio \in Radios
    BY DEF TypeOK
  <1>2. ASSUME UNCHANGED <<transport, request, skipped>>, radio'.host = radio.host,
               phase' = phase \/ (phase # "polling" /\ phase' \notin {"polling", "boot"})
        PROVE  KeyInv'
    BY <1>2 DEF KeyInv
  <1>3. Disconnected(radio).host = radio.host
    BY <1>1, DisconnectedSpoke
  <1>4. CASE Reconnected \/ Paired \/ LinkLost \/ PairingTimeout \/ PinCode \/ HostLeds
             \/ ModuleReset
    <2>1. UNCHANGED <<transport, request, skipped, phase>>
      BY <1>4 DEF Reconnected, Paired, LinkLost, PairingTimeout, PinCode, HostLeds,
                  ModuleReset, mcu
    <2>2. radio'.host = radio.host
      BY <1>1, <1>4 DEF Reconnected, Paired, LinkLost, PairingTimeout, PinCode, HostLeds,
                  ModuleReset, Moved, Disconnected, Radios
    <2> QED BY <1>2, <2>1, <2>2
  <1>5. CASE PreTask
    <2>1. phase = "boot" /\ keySlot = 0
      BY <1>5 DEF PreTask, KeyInv
    <2>2. phase' # "boot" /\ (phase' = "polling" => request' = 0)
      BY <1>5, <2>1 DEF PreTask, SwitchToWireless
    <2> QED BY <2>1, <2>2 DEF KeyInv
  <1>6. CASE PressUsb
    <2>1. transport' = "USB" /\ phase = "keys" /\ phase' = phase
      BY <1>6 DEF PressUsb, SwitchToUsb
    <2> QED BY <2>1 DEF KeyInv, TRANSPORT_WIRELESS
  <1>7. CASE PollModule \/ TransportTask
    <2>1. radio'.host = radio.host
      BY <1>7, ReadFields DEF PollModule, TransportTask
    <2> QED BY <1>2, <1>7, <2>1 DEF PollModule, TransportTask
  <1>8. CASE SendKeyboard \/ SendExtra \/ EventTask
    <2>1. UNCHANGED <<transport, request, skipped, phase>>
      BY <1>8 DEF SendKeyboard, SendExtra, EventTask
    <2>2. radio' = radio \/ radio' = Connecting(radio, 0)
      BY <1>8 DEF SendKeyboard, SendExtra, EventTask, Connect, Enter, EnterSleep,
                  EnterDisconnected, EnterDisconnectedKb
    <2> QED BY <1>2, <2>1, <2>2, ConnectTInv
  <1>9. CASE ReleaseHost \/ BootOver \/ EventsDone
    BY <1>2, <1>9 DEF ReleaseHost, BootOver, EventsDone
  <1>10. CASE CommonTask
    <2>1. radio' = radio \/ radio' = Pairing(radio)
      BY <1>10 DEF CommonTask, PairingEx
    <2> QED BY <1>1, <1>2, <1>10, <2>1, PairingSpoke DEF CommonTask
  <1>11. CASE BatteryTask
    BY <1>2, <1>3, <1>11 DEF BatteryTask, LowBatteryShutdown
  <1>12. CASE EndPolling
    <2>1. /\ phase = "polling" /\ phase' = "keys" /\ transport' = transport
          /\ skipped' = (radio' = radio)
      BY <1>12 DEF EndPolling
    <2>2. ASSUME keySlot # 0, radio' # radio PROVE radio'.host = keySlot
      <3>1. request = keySlot /\ request # 0 /\ request \in Hosts
        BY <2>1, <2>2 DEF KeyInv
      <3>2. CASE transport = "P2P4" /\ ConnectEx(P24G_INDEX)
        <4>1. request = P24G_INDEX /\ P24G_INDEX \in Hosts
          BY <2>1, <3>1, <3>2 DEF KeyInv, Hosts
        <4> QED BY <2>2, <3>1, <3>2, <4>1, ConnectExTInv
      <3>3. CASE radio' = Connecting(Connecting(radio, LastHost), request)
        <4> DEFINE c == Connecting(radio, LastHost)
        <4>1. c \in Radios
          BY <1>1, ConnectingType
        <4> HIDE DEF c
        <4>2. radio'.host = SlotOf(c, request) /\ request # LastHost
          BY <3>1, <3>3, <4>1, ConnectingSpoke DEF c, Hosts
        <4> QED BY <3>1, <4>2 DEF SlotOf
      <3> QED BY <1>12, <2>2, <3>1, <3>2, <3>3 DEF EndPolling
    <2> QED BY <2>1, <2>2 DEF KeyInv
  <1> QED BY <1>4, <1>5, <1>6, <1>7, <1>8, <1>9, <1>10, <1>11, <1>12 DEF Rest

(* For every set of slots and every order of keys, events and frames, a     *)
(* long press pairs the slot of the key that is held, although              *)
(* lemokey_wireless_common_task passes slot 0 for every key.                *)
THEOREM LongPressPairsItsKey == KeySpec => PairsSlotOfKey
  <1>1. KeyInit => Init /\ KeyInv
    BY DEF KeyInit, KeyInv, Init
  <1>2. WInv => TypeOK
    BY DEF WInv
  <1>3. Init => TInv
    BY DEF Init, TInv, SlotInv, RequestInv
  <1>4. TypeOK /\ AInv /\ TInv /\ KeyInv /\ [KeyNext]_<<vars, keySlot>> => KeyInv'
    <2> SUFFICES ASSUME TypeOK, AInv, TInv, KeyInv, [KeyNext]_<<vars, keySlot>>
                 PROVE  KeyInv'
      OBVIOUS
    <2>1. CASE UNCHANGED <<vars, keySlot>>
      BY <2>1 DEF KeyInv, vars, mcu
    <2> QED BY <2>1, HostKeyInv, RestKeyInv DEF KeyNext
  <1>5. TypeOK /\ KeyInv /\ [KeyNext]_<<vars, keySlot>>
        => [LongPress /\ keySlot # 0 /\ ~skipped => radio'.host = keySlot]_<<vars, keySlot>>
    <2> SUFFICES ASSUME TypeOK, KeyInv, KeyNext, LongPress, keySlot # 0, ~skipped
                 PROVE  radio'.host = keySlot
      OBVIOUS
    <2>1. radio.host = keySlot
      BY DEF LongPress, KeyInv
    <2>2. CommonTask
      BY DEF LongPress, KeyNext, HostKey, Rest, PressHost, PressP24g, PreTask, PollModule,
             EndPolling, ReleaseHost, PressUsb, SendKeyboard, SendExtra, TransportTask,
             EventTask, EventsDone, BatteryTask, Reconnected, Paired, LinkLost,
             PairingTimeout, PinCode, HostLeds, ModuleReset, BootOver, mcu
    <2>3. radio' = radio \/ radio' = Pairing(radio)
      BY <2>2 DEF CommonTask, PairingEx
    <2> QED BY <2>1, <2>3, PairingSpoke DEF TypeOK
  <1> QED BY <1>1, <1>2, <1>3, <1>4, <1>5, KeyStep, InitWInv, NextWInv, InitAInv, NextAInv,
             NextTInv, PTL DEF KeySpec, PairsSlotOfKey
=============================================================================
