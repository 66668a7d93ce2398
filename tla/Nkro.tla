-------------------------------- MODULE Nkro --------------------------------
(***************************************************************************)
(* The N-key rollover setting, composed with the connection of Wireless.   *)
(* keymap_config.nkro is the setting in force; nkro keeps one for USB and  *)
(* one for the wireless transports.  set_transport exchanges them, and the *)
(* handlers of three events change keymap_config.nkro, on whatever         *)
(* transport the event is handled.                                         *)
(***************************************************************************)
EXTENDS Wireless

VARIABLES
    keymap_nkro,   \* keymap_config.nkro
    nkro,          \* nkro.usb and nkro.bluetooth
    \* history, read by the properties only
    usbChoice,     \* what the user has chosen on USB, or what was stored at boot
    mixed          \* since usbChoice was made, a wireless transport was left for the
                   \* other, an event was handled off the wireless transports or
                   \* the setting was changed before there was a transport

nkroVars == <<keymap_nkro, nkro, usbChoice, mixed>>

\* wireless_init: both settings are the stored one.
NkroInit ==
    /\ Init
    /\ keymap_nkro \in BOOLEAN
    /\ nkro = [usb |-> keymap_nkro, bluetooth |-> keymap_nkro]
    /\ usbChoice = keymap_nkro
    /\ mixed = FALSE

\* The cases of set_transport.
StoreAndLoad(new) ==
    \/ /\ new = "USB"
       /\ nkro' = [nkro EXCEPT !.bluetooth = keymap_nkro]
       /\ keymap_nkro' = nkro.usb
    \/ /\ new \in TRANSPORT_WIRELESS
       /\ nkro' = [nkro EXCEPT !.usb = keymap_nkro]
       /\ keymap_nkro' = nkro.bluetooth

\* Mutant of SwitchNkro: the setting is loaded before the old one is stored.
SwitchNkroLoadFirst ==
    /\ transport' # transport
    /\ \/ /\ transport' = "USB"
          /\ nkro' = [nkro EXCEPT !.bluetooth = nkro.usb]
          /\ keymap_nkro' = nkro.usb
       \/ /\ transport' \in TRANSPORT_WIRELESS
          /\ nkro' = [nkro EXCEPT !.usb = nkro.bluetooth]
          /\ keymap_nkro' = nkro.bluetooth
    /\ mixed' = (mixed \/ {transport, transport'} = TRANSPORT_WIRELESS)
    /\ UNCHANGED usbChoice

\* A step that switches transport.
SwitchNkro ==
    /\ transport' # transport
    /\ StoreAndLoad(transport')
    /\ mixed' = (mixed \/ {transport, transport'} = TRANSPORT_WIRELESS)
    /\ UNCHANGED usbChoice

\* What handling event e does to the setting: wireless_enter_connected loads the
\* wireless one, PIN code entry turns it off and its end turns it on.
EventNkro(e) ==
    /\ \/ e.type = "CONNECTED" /\ keymap_nkro' = nkro.bluetooth
       \/ e.type = "PINCODE_ENTRY" /\ keymap_nkro' = FALSE
       \/ e.type = "EXIT_PINCODE_ENTRY" /\ keymap_nkro' = TRUE
    /\ mixed' = (mixed \/ transport \notin TRANSPORT_WIRELESS)
    /\ UNCHANGED <<nkro, usbChoice>>

SettingEvents == {"CONNECTED", "PINCODE_ENTRY", "EXIT_PINCODE_ENTRY"}

\* The NKRO key: process_magic toggles the setting in force.
ToggleNkro ==
    /\ phase = "keys"
    /\ keymap_nkro' = ~keymap_nkro
    /\ \/ transport = "USB" /\ usbChoice' = keymap_nkro' /\ mixed' = FALSE
       \/ transport # "USB" /\ mixed' = (mixed \/ transport = "NONE") /\ UNCHANGED usbChoice
    /\ UNCHANGED <<nkro, vars>>

NkroNext ==
    \/ Next /\ SwitchNkro
    \/ /\ EventTask
       /\ \/ EventNkro(Head(events))
          \/ Head(events).type \notin SettingEvents /\ UNCHANGED nkroVars
    \/ Next /\ ~EventTask /\ transport' = transport /\ UNCHANGED nkroVars
    \/ ToggleNkro

NkroSpec == NkroInit /\ [][NkroNext]_<<vars, nkroVars>>

-----------------------------------------------------------------------------
\* Properties.

\* The setting in force on USB is the one the user made there, however often
\* and with whatever settings the transport was switched in between: only a
\* switch between the two wireless transports and an event handled off them
\* carry a wireless setting over to USB.
UsbSettingKept == transport = "USB" /\ ~mixed => keymap_nkro = usbChoice
=============================================================================
