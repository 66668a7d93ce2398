------------------------------ MODULE HostKeys ------------------------------
(***************************************************************************)
(* The slot a long press pairs, composed with the connection of Wireless.  *)
(* The handler of the host keys has a host_idx of its own, so that the     *)
(* task behind a long press always passes slot 0, the one the module is    *)
(* on: that this is the slot of the key rests on the press having moved    *)
(* the module there, and on nothing moving it away in the two seconds.     *)
(***************************************************************************)
EXTENDS Wireless

VARIABLE
    \* history, read by the properties only
    keySlot     \* the slot of the host key pressed last, or 0 if it asked for none

KeyInit == Init /\ keySlot = 0

\* wireless_connect_ex does nothing for a host key: the battery is critical, or
\* the host is the one of a connection whose end is not handled yet.
Ignored(h) ==
    critical \/ (wireless_state = "CONNECTED" /\ host_index = h /\ ~Quiet)

\* A host key pressed
HostKey ==
    \/ \E h \in BtHosts : PressHost(h) /\ keySlot' = IF Ignored(h) THEN 0 ELSE h
    \/ PressP24g /\ keySlot' = IF critical THEN 0 ELSE P24G_INDEX

Rest ==
    \/ PreTask \/ PollModule \/ EndPolling \/ ReleaseHost \/ PressUsb
    \/ SendKeyboard \/ SendExtra
    \/ TransportTask \/ EventTask \/ EventsDone \/ CommonTask \/ BatteryTask
    \/ Reconnected \/ Paired \/ LinkLost \/ PairingTimeout \/ PinCode \/ HostLeds
    \/ ModuleReset \/ BootOver

KeyNext == HostKey \/ (Rest /\ UNCHANGED keySlot)

KeySpec == KeyInit /\ [][KeyNext]_<<vars, keySlot>>

\* The long press of CommonTask, on a wireless transport
LongPress ==
    /\ phase = "common" /\ transport \in TRANSPORT_WIRELESS
    /\ pairing_key_timer /\ ~pairing_key_timer' /\ ~critical

\* A long press pairs the slot of the key that is held, although the pairing timer
\* does not know it and events of former slots are handled in between; but not
\* for a key that did not ask the module for its slot, because the battery was
\* critical or the connection seemed to be there, nor after a switch that did not
\* connect.
PairsSlotOfKey ==
    [][LongPress /\ keySlot # 0 /\ ~skipped => radio'.host = keySlot]_<<vars, keySlot>>
=============================================================================
