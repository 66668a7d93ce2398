------------------------------ MODULE MCKeyPath ------------------------------
(***************************************************************************)
(* A key press on its way: debouncing, and the keys with a meaning of      *)
(* their own.  What comes out of the one is any sequence of presses and    *)
(* releases, which is what goes into the other, so a behaviour follows one *)
(* of them and the other stays as it is at the start.                      *)
(*                                                                         *)
(* turn changes at every scan, so that one that changes nothing else is a  *)
(* step too: fairness then asks for scans, not for switches that move.     *)
(***************************************************************************)
EXTENDS Debounce, Keys

CONSTANT Hands   \* bound: the sets of keys one hand may press in a behaviour

VARIABLES
    part,    \* the hand of this behaviour, or {} if it follows debouncing
    turn

vars == <<debounceVars, keysVars, part, turn>>

Init ==
    /\ part \in Hands \cup {{}}
    /\ turn = FALSE
    /\ DebounceInit /\ KeysInit

Scan ==
    /\ part = {}
    /\ \E switch \in [Key -> BOOLEAN] : MatrixTask(switch)
    /\ turn' = ~turn
    /\ UNCHANGED <<keysVars, part>>

TimeAndSleep ==
    /\ part = {}
    /\ DebounceTick \/ MatrixInit
    /\ UNCHANGED <<keysVars, part, turn>>

ProcessKeys ==
    /\ part # {}
    /\ KeysNext
    /\ held' \subseteq part
    /\ UNCHANGED <<debounceVars, part, turn>>

Next == Scan \/ TimeAndSleep \/ ProcessKeys

\* keyboard_task goes on scanning and time passes.
FairSpec ==
    /\ Init /\ [][Next]_vars
    /\ WF_vars(Scan)
    /\ WF_vars(DebounceTick /\ TimeAndSleep)

-----------------------------------------------------------------------------
\* The keys of both combinations, and the keys that share KC_LGUI.
MCHands ==
    {{"FN", "J", "Z", "BL_CYCLE", "BL_TRIG"},
     {"FN", "J", "SIRI", "LCMMD", "TASK"}}
=============================================================================
