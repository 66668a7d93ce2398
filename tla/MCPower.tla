------------------------------- MODULE MCPower -------------------------------
(***************************************************************************)
(* Battery and low power: the battery monitor, the low battery indication  *)
(* and stop mode.  Each is modelled with all its surroundings can do, so a *)
(* behaviour follows one of them and the others stay as they are at the    *)
(* start.                                                                  *)
(***************************************************************************)
EXTENDS Battery, LowBattery, Lpm

VARIABLE part   \* which one is followed

vars == <<batteryVars, lowBatVars, lpmVars, part>>

Init ==
    /\ part \in {"battery", "indication", "lpm"}
    /\ BatteryInit /\ LowBatInit /\ LpmInit
    /\ part # "battery" => wireless /\ backlight /\ cable
    /\ part # "lpm" => transport = "USB" /\ frame /\ ~usb_power /\ lit

BatteryPart    == part = "battery"    /\ UNCHANGED <<lowBatVars, lpmVars, part>>
IndicationPart == part = "indication" /\ UNCHANGED <<batteryVars, lpmVars, part>>
LpmPart        == part = "lpm"        /\ UNCHANGED <<batteryVars, lowBatVars, part>>

Next ==
    \/ BatteryNext /\ BatteryPart
    \/ LowBatNext  /\ IndicationPart
    \/ LpmNext     /\ LpmPart

\* The fairness of BatteryFairSpec and LpmFairSpec.
FairSpec ==
    /\ Init /\ [][Next]_vars
    /\ WF_vars(Check /\ BatteryPart) /\ WF_vars(BatteryTick /\ BatteryPart)
    /\ SF_vars(Answered /\ BatteryPart)
    /\ WF_vars(MainLoop /\ LpmPart) /\ WF_vars(LpmTick /\ LpmPart)
    /\ WF_vars(LedsOff /\ LpmPart)

\* Counters, clocks and the state of the interrupt hardware stay in range.
TypeOK == BatteryTypeOK /\ LowBatTypeOK /\ LpmTypeOK

-----------------------------------------------------------------------------
\* The voltages at and next to the three thresholds.
MCVoltages == {3299, 3300, 3301, 3499, 3500, 3501, 4099, 4100, 4101}

\* Two rows that share a vector, like the rows on pins 5 and 6 of the p1.
MCVector == [l \in {"r5", "r6", "INT", "USB"} |->
                IF l \in {"r5", "r6"} THEN "EXTI9_5" ELSE l]
=============================================================================
