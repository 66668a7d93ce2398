------------------------------ MODULE EagerKeys ------------------------------
(***************************************************************************)
(* What eager debouncing per key promises: at a scan every key takes the   *)
(* level of its switch at once, unless it changed less than Wait           *)
(* milliseconds ago; no key is held back by another one, and none is       *)
(* forgotten.                                                              *)
(***************************************************************************)
EXTENDS Naturals

CONSTANTS Key, Wait

VARIABLES
    key,    \* is each key down, for the rest of the firmware?
    left    \* the milliseconds each key is still deaf for

Init == key = [k \in Key |-> FALSE] /\ left = [k \in Key |-> 0]

Flips(k, switch) == left[k] = 0 /\ key[k] # switch[k]

Scan(switch) ==
    /\ key' = [k \in Key |-> IF Flips(k, switch) THEN switch[k] ELSE key[k]]
    /\ left' = [k \in Key |-> IF Flips(k, switch) THEN Wait ELSE left[k]]

Tick ==
    /\ left' = [k \in Key |-> IF left[k] = 0 THEN 0 ELSE left[k] - 1]
    /\ UNCHANGED key

\* After low power all keys are up, and all are listened to.
Restart == key' = [k \in Key |-> FALSE] /\ left' = [k \in Key |-> 0]

Next == Tick \/ Restart \/ \E switch \in [Key -> BOOLEAN] : Scan(switch)

Spec == Init /\ [][Next]_<<key, left>>
=============================================================================
