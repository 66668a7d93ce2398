---------------------------- MODULE MCConnection ----------------------------
(***************************************************************************)
(* The connection with what hangs on it: the NKRO setting and the host     *)
(* indication.  Neither has an influence on the connection or on the       *)
(* other, so a behaviour follows the connection by itself or with one of   *)
(* them, and what it does not follow stays as it is at the start.          *)
(***************************************************************************)
EXTENDS Nkro, Indicator

CONSTANTS
    Aspects,        \* what is followed: "connection", "setting", "indication"
    SettingHosts,   \* bound: the slots used while the setting is followed
    IndFrames,      \* bounds: MaxFrames and MaxResets while the indication is
    IndResets       \* followed

VARIABLE aspect     \* what this behaviour follows

connVars == <<allVars, nkroVars, aspect>>

ConnInit ==
    /\ NkroInit /\ IndInit
    /\ aspect \in Aspects
    /\ aspect # "setting" => ~keymap_nkro
    /\ aspect = "setting" => {radio.host, radio.last} \subseteq SettingHosts

ConnectionStep ==
    /\ aspect = "connection"
    /\ Next
    /\ UNCHANGED <<nkroVars, indVars, reported, aspect>>

SettingStep ==
    /\ aspect = "setting"
    /\ NkroNext
    /\ {request', radio'.host} \subseteq SettingHosts \cup {0}
    /\ UNCHANGED <<indVars, reported, aspect>>

IndicationStep ==
    /\ aspect = "indication"
    /\ IndNext
    /\ Len(radio'.frames) > Len(radio.frames) => Len(radio.frames) <= IndFrames
    /\ radio'.resets <= IndResets
    /\ UNCHANGED <<nkroVars, aspect>>

ConnNext == ConnectionStep \/ SettingStep \/ IndicationStep

ConnSpec == ConnInit /\ [][ConnNext]_connVars

\* The fairness of the connection (FairSpec in Wireless), and each step of an
\* indication is over some time.
ConnFairSpec ==
    /\ ConnSpec
    /\ WF_vars(Loop)
    /\ SF_vars(SendKeyboard)
    /\ SF_vars(Reconnected)
    /\ SF_vars(PairingTimeout)
    /\ SF_connVars(IndicatorTask /\ IndicationStep)
=============================================================================
