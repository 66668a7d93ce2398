--------------------------- MODULE KeyPath_proofs ---------------------------
(***************************************************************************)
(* Proofs about the way of a key press.  Debounce, for every matrix and    *)
(* every DEBOUNCE: the flags never hide work (NothingForgotten is          *)
(* inductive with the types), and from that debounce implements EagerKeys. *)
(* Keys, for every set of keys and every number of ticks: what starts a    *)
(* factory reset, and what stays registered at the host.                   *)
(***************************************************************************)
EXTENDS Debounce, Keys, TLAPS

Inv == DebounceTypeOK /\ NothingForgotten

\* What debounce has in the counters, once they are up to date, is what each key
\* is still deaf for.
LEMMA CountersAreLeft ==
    ASSUME Inv
    PROVE  /\ Counters \in [Key -> 0 .. DEBOUNCE]
           /\ \A k \in Key : Counters[k] = Left(k)
  <1> USE DebounceAssumption DEF DEBOUNCE_ELAPSED
  <1>1. CASE Updates
    BY <1>1 DEF Inv, DebounceTypeOK, NothingForgotten, Updates, Updated, Counters, Left
  <1>2. CASE ~Updates
    BY <1>2 DEF Inv, DebounceTypeOK, NothingForgotten, Updates, Updated, Counters, Left
  <1> QED BY <1>1, <1>2

\* When there is nothing to transfer, no key would flip.
LEMMA NothingToFlip ==
    ASSUME Inv, ~MatrixNeedUpdate
    PROVE  \A k \in Key : ~Flips(k, raw_matrix)
  <1> USE DebounceAssumption DEF DEBOUNCE_ELAPSED
  <1>1. CASE Updates
    BY <1>1 DEF Inv, DebounceTypeOK, NothingForgotten, Updates, Updated, Counters, MatrixNeedUpdate, Flips
  <1>2. CASE ~Updates
    BY <1>2 DEF Inv, DebounceTypeOK, NothingForgotten, Updates, Updated, Counters, MatrixNeedUpdate, Flips
  <1> QED BY <1>1, <1>2

\* A counter that still runs keeps its flag.
LEMMA FlagOfCounters ==
    ASSUME Inv
    PROVE  /\ CountersNeedUpdate \in BOOLEAN
           /\ (\E k \in Key : Counters[k] # DEBOUNCE_ELAPSED) => CountersNeedUpdate
           /\ ~counters_need_update => ~CountersNeedUpdate
  BY DebounceAssumption
     DEF Inv, DebounceTypeOK, NothingForgotten, Updates, Updated, Counters, CountersNeedUpdate,
         DEBOUNCE_ELAPSED

LEMMA InitInv == DebounceInit => Inv
  <1> SUFFICES ASSUME DebounceInit PROVE Inv
    OBVIOUS
  <1>1. AllUp \in [Key -> BOOLEAN]
    BY DEF AllUp
  <1>2. debounce_counters \in [Key -> 0 .. DEBOUNCE] /\ age \in 0 .. UINT8_MAX
    BY DebounceAssumption DEF DebounceInit, DEBOUNCE_ELAPSED
  <1>3. DebounceTypeOK
    BY <1>1, <1>2, Zenon DEF DebounceInit, DebounceTypeOK
  <1>4. NothingForgotten
    BY DEF DebounceInit, NothingForgotten
  <1> QED BY <1>3, <1>4 DEF Inv

LEMMA TransferInv ==
    ASSUME Inv, NEW switch \in [Key -> BOOLEAN], raw_matrix' = switch, Transfer(switch),
           matrix_previous' = matrix'
    PROVE  Inv'
  <1> USE DebounceAssumption DEF DEBOUNCE_ELAPSED
  <1>1. DebounceTypeOK'
    <2>1. debounce_counters' \in [Key -> 0 .. DEBOUNCE] /\ age' \in 0 .. UINT8_MAX
      BY CountersAreLeft DEF Transfer
    <2>2. matrix' \in [Key -> BOOLEAN]
      BY Zenon DEF Inv, DebounceTypeOK, Transfer
    <2>3. counters_need_update' \in BOOLEAN /\ matrix_need_update' \in BOOLEAN
      BY Zenon DEF Transfer
    <2> QED BY <2>1, <2>2, <2>3, Zenon DEF DebounceTypeOK
  <1>2. \A k \in Key : matrix'[k] # raw_matrix'[k] => debounce_counters'[k] # DEBOUNCE_ELAPSED
    BY CountersAreLeft DEF Inv, DebounceTypeOK, Transfer, Flips
  <1>3. (\E k \in Key : debounce_counters'[k] # DEBOUNCE_ELAPSED) => counters_need_update'
    BY CountersAreLeft, FlagOfCounters DEF Inv, DebounceTypeOK, Transfer
  <1> QED BY <1>1, <1>2, <1>3 DEF Inv, NothingForgotten, Transfer

LEMMA NoTransferInv ==
    ASSUME Inv, raw_matrix' = raw_matrix, ~MatrixNeedUpdate, NoTransfer,
           matrix_previous' = matrix'
    PROVE  Inv'
  <1> USE DebounceAssumption DEF DEBOUNCE_ELAPSED
  <1>1. DebounceTypeOK'
    <2>1. debounce_counters' \in [Key -> 0 .. DEBOUNCE] /\ age' \in 0 .. UINT8_MAX
      BY CountersAreLeft DEF Inv, DebounceTypeOK, NoTransfer
    <2>2. counters_need_update' \in BOOLEAN /\ matrix_need_update' \in BOOLEAN
      BY FlagOfCounters, Zenon DEF NoTransfer, MatrixNeedUpdate, Inv, DebounceTypeOK
    <2> QED BY <2>1, <2>2, Zenon DEF Inv, DebounceTypeOK, NoTransfer
  <1>2. \A k \in Key : matrix'[k] # raw_matrix'[k] => debounce_counters'[k] # DEBOUNCE_ELAPSED
    BY NothingToFlip DEF Inv, DebounceTypeOK, NoTransfer, Flips
  <1>3. (\E k \in Key : debounce_counters'[k] # DEBOUNCE_ELAPSED) => counters_need_update'
    BY FlagOfCounters DEF NoTransfer
  <1> QED BY <1>1, <1>2, <1>3 DEF Inv, NothingForgotten, NoTransfer

LEMMA NextInv == Inv /\ [DebounceNext]_debounceVars => Inv'
  <1> SUFFICES ASSUME Inv, [DebounceNext]_debounceVars PROVE Inv'
    OBVIOUS
  <1>1. CASE DebounceTick
    BY <1>1, DebounceAssumption DEF Inv, DebounceTypeOK, NothingForgotten, DebounceTick
  <1>2. CASE MatrixInit
    BY <1>2, DebounceAssumption
       DEF Inv, DebounceTypeOK, NothingForgotten, MatrixInit, AllUp, DEBOUNCE_ELAPSED
  <1>3. ASSUME NEW switch \in [Key -> BOOLEAN], MatrixTask(switch) PROVE Inv'
    BY <1>3, TransferInv, NoTransferInv DEF MatrixTask
  <1>4. CASE UNCHANGED debounceVars
    BY <1>4 DEF Inv, DebounceTypeOK, NothingForgotten, debounceVars
  <1> QED BY <1>1, <1>2, <1>3, <1>4 DEF DebounceNext

LEMMA SpecInv == DebounceSpec => []Inv
  BY InitInv, NextInv, PTL DEF DebounceSpec

\* The variables of debounce keep their types; in particular the 8-bit counters
\* never wrap.
THEOREM Types == DebounceSpec => []DebounceTypeOK
  BY SpecInv, PTL DEF Inv

\* For every matrix: a key that differs from its switch has a running counter, and
\* a running counter has its flag, whatever bounces and whenever the keyboard
\* wakes up.
THEOREM NothingIsForgotten == DebounceSpec => []NothingForgotten
  BY SpecInv, PTL DEF Inv

-----------------------------------------------------------------------------
\* A scan that transfers
LEMMA TransferScans ==
    ASSUME Inv, NEW switch \in [Key -> BOOLEAN], Transfer(switch)
    PROVE  Eager!Scan(switch)
  <1> USE DebounceAssumption DEF DEBOUNCE_ELAPSED
  <1>1. \A k \in Key : Flips(k, switch) <=> Eager!Flips(k, switch)
    BY CountersAreLeft DEF Flips, Eager!Flips, Left
  <1>2. \A k \in Key : Left(k)' = debounce_counters'[k]
    BY CountersAreLeft DEF Transfer, Left
  <1>3. \A k \in Key : debounce_counters'[k] = IF Flips(k, switch) THEN DEBOUNCE ELSE Left(k)
    BY CountersAreLeft DEF Transfer
  <1> QED BY <1>1, <1>2, <1>3 DEF Eager!Scan, Transfer, Left

\* A scan that skips
LEMMA NoTransferScans ==
    ASSUME Inv, ~MatrixNeedUpdate, NoTransfer
    PROVE  Eager!Scan(raw_matrix)
  <1> USE DebounceAssumption DEF DEBOUNCE_ELAPSED
  <1>1. \A k \in Key : ~Eager!Flips(k, raw_matrix)
    BY CountersAreLeft, NothingToFlip DEF Flips, Eager!Flips, Left
  <1>2. \A k \in Key : Left(k)' = Counters[k]
    BY CountersAreLeft, FlagOfCounters DEF Inv, DebounceTypeOK, NothingForgotten, NoTransfer, Left
  <1>3. matrix \in [Key -> BOOLEAN]
    BY DEF Inv, DebounceTypeOK
  <1> QED BY <1>1, <1>2, <1>3, CountersAreLeft DEF Eager!Scan, NoTransfer, Left

LEMMA TickTicks == ASSUME Inv, DebounceTick PROVE Eager!Tick
  BY DebounceAssumption DEF Inv, DebounceTypeOK, DebounceTick, Eager!Tick, Left

LEMMA InitRestarts == ASSUME Inv, MatrixInit PROVE Eager!Restart
  BY DebounceAssumption DEF Inv, DebounceTypeOK, MatrixInit, AllUp, Eager!Restart, Left, DEBOUNCE_ELAPSED

\* For every matrix and every DEBOUNCE, debounce with its flags and its shared
\* last_time is eager debouncing of each key by itself.
THEOREM Refines == DebounceSpec => IsEager
  <1>1. DebounceInit => Eager!Init
    BY DebounceAssumption DEF DebounceInit, Eager!Init, AllUp, Left, DEBOUNCE_ELAPSED
  <1>2. Inv /\ [DebounceNext]_debounceVars => [Eager!Next]_<<matrix, [k \in Key |-> Left(k)]>>
    <2> SUFFICES ASSUME Inv, [DebounceNext]_debounceVars
                 PROVE  [Eager!Next]_<<matrix, [k \in Key |-> Left(k)]>>
      OBVIOUS
    <2>1. CASE DebounceTick
      BY <2>1, TickTicks DEF Eager!Next
    <2>2. CASE MatrixInit
      BY <2>2, InitRestarts DEF Eager!Next
    <2>3. ASSUME NEW switch \in [Key -> BOOLEAN], MatrixTask(switch)
          PROVE  Eager!Next
      BY <2>3, TransferScans, NoTransferScans DEF MatrixTask, Eager!Next
    <2>4. CASE UNCHANGED debounceVars
      BY <2>4 DEF debounceVars, Left
    <2> QED BY <2>1, <2>2, <2>3, <2>4 DEF DebounceNext
  <1> QED BY <1>1, <1>2, SpecInv, PTL DEF DebounceSpec, IsEager, Eager!Spec

-----------------------------------------------------------------------------
\* The reset and the backlight test.

\* The bits are keys that are down.
BitsAreDown ==
    /\ factory_reset_state \subseteq held
    /\ factory_reset_state \cap Common = {}

\* The timer runs only with all bits of a combination set: a release stops it.
TimerHasKeys ==
    factory_reset_timer # 0 =>
        FACTORY_RESET \subseteq factory_reset_state \/ BACKLIGHT_TEST \subseteq factory_reset_state

\* The timer is no further than the time its keys have been down together.
TimerIsHeld ==
    /\ factory_reset_timer # 0 /\ factory_reset_state = FACTORY_RESET =>
           factory_reset_timer <= heldFor.reset + 1 \/ heldFor.reset = ResetTicks
    /\ factory_reset_timer # 0 /\ factory_reset_state = BACKLIGHT_TEST =>
           factory_reset_timer <= heldFor.test + 1 \/ heldFor.test = ResetTicks

HoldInv ==
    /\ factory_reset_timer \in Nat
    /\ heldFor \in [Holds -> 0 .. ResetTicks]
    /\ BitsAreDown /\ TimerHasKeys /\ TimerIsHeld

(* The two combinations differ, and only the keys named start the timer.    *)
LEMMA Combinations ==
  /\ FACTORY_RESET # BACKLIGHT_TEST
  /\ ~(FACTORY_RESET \subseteq BACKLIGHT_TEST) /\ ~(BACKLIGHT_TEST \subseteq FACTORY_RESET)
  /\ "FN" \in FACTORY_RESET /\ "FN" \in BACKLIGHT_TEST
  /\ FACTORY_RESET \cap Common = {} /\ BACKLIGHT_TEST \cap Common = {}
  BY DEF FACTORY_RESET, BACKLIGHT_TEST, Common

(* What the counts of the keys held are after a press or a release.         *)
LEMMA CountsKept ==
  ASSUME HoldInv, KeepCounts
  PROVE  /\ heldFor' \in [Holds -> 0 .. ResetTicks]
         /\ FACTORY_RESET \subseteq held' => heldFor'.reset = heldFor.reset
         /\ BACKLIGHT_TEST \subseteq held' => heldFor'.test = heldFor.test
  <1>1. heldFor.reset \in 0 .. ResetTicks /\ heldFor.test \in 0 .. ResetTicks
        /\ 0 \in 0 .. ResetTicks
    BY TickAssumption DEF HoldInv, Holds
  <1>2. heldFor' = [reset |-> AllDown(FACTORY_RESET, heldFor.reset),
                    test  |-> AllDown(BACKLIGHT_TEST, heldFor.test)]
    BY DEF KeepCounts
  <1>3. /\ heldFor'.reset = AllDown(FACTORY_RESET, heldFor.reset)
        /\ heldFor'.test = AllDown(BACKLIGHT_TEST, heldFor.test)
        /\ DOMAIN heldFor' = Holds
    BY <1>2 DEF Holds
  <1>4. /\ AllDown(FACTORY_RESET, heldFor.reset) \in 0 .. ResetTicks
        /\ AllDown(BACKLIGHT_TEST, heldFor.test) \in 0 .. ResetTicks
    BY <1>1 DEF AllDown
  <1>5. heldFor' \in [Holds -> 0 .. ResetTicks]
    BY <1>2, <1>4 DEF Holds
  <1> QED BY <1>3, <1>5 DEF AllDown

(* A key that goes down may start the timer, and never lets it run on with  *)
(* new bits that make up a combination.                                     *)
LEMMA PressHoldInv == ASSUME HoldInv, NEW k \in KeyCodes, Press(k) PROVE HoldInv'
  <1>1. k \notin held /\ held' = held \cup {k} /\ KeepCounts
    BY DEF Press
  <1>2. /\ heldFor' \in [Holds -> 0 .. ResetTicks]
        /\ FACTORY_RESET \subseteq held' => heldFor'.reset = heldFor.reset
        /\ BACKLIGHT_TEST \subseteq held' => heldFor'.test = heldFor.test
    BY <1>1, CountsKept
  <1>3. /\ factory_reset_state \subseteq held /\ k \notin factory_reset_state
        /\ factory_reset_state \cap Common = {}
    BY <1>1 DEF HoldInv, BitsAreDown
  <1>4. heldFor'.reset \in Nat /\ heldFor'.test \in Nat
    BY <1>2, TickAssumption DEF Holds
  <1>5. CASE UNCHANGED <<factory_reset_state, factory_reset_timer>>
    <2>1. BitsAreDown' /\ TimerHasKeys'
      BY <1>1, <1>5 DEF HoldInv, BitsAreDown, TimerHasKeys
    <2>2. TimerIsHeld'
      BY <1>1, <1>2, <1>3, <1>5 DEF HoldInv, TimerIsHeld
    <2> QED BY <1>2, <1>5, <2>1, <2>2 DEF HoldInv
  <1>6. CASE /\ k \notin Common
             /\ factory_reset_state' = factory_reset_state \cup {k}
             /\ factory_reset_timer' = StartedBy(k, factory_reset_state \cup {k})
    <2> DEFINE bits == factory_reset_state'
    <2>1. BitsAreDown'
      BY <1>1, <1>3, <1>6 DEF BitsAreDown
    <2>2. CASE factory_reset_timer' = 1 /\ bits \in {FACTORY_RESET, BACKLIGHT_TEST}
      BY <1>2, <1>4, <2>1, <2>2 DEF HoldInv, TimerHasKeys, TimerIsHeld
    <2>3. CASE /\ factory_reset_timer' = factory_reset_timer
               /\ factory_reset_timer # 0 => bits \notin {FACTORY_RESET, BACKLIGHT_TEST}
      BY <1>2, <1>6, <2>1, <2>3 DEF HoldInv, TimerHasKeys, TimerIsHeld
    <2>4. ASSUME factory_reset_timer # 0, bits \in {FACTORY_RESET, BACKLIGHT_TEST},
                 factory_reset_timer' = factory_reset_timer
          PROVE  FALSE
      <3>1. \E c \in {FACTORY_RESET, BACKLIGHT_TEST} : c \subseteq factory_reset_state
        BY <2>4 DEF HoldInv, TimerHasKeys
      <3>2. factory_reset_state \subseteq bits /\ k \in bits
        BY <1>6
      <3> QED BY <1>3, <2>4, <3>1, <3>2, Combinations
    <2>5. \/ factory_reset_timer' = 1 /\ bits \in {FACTORY_RESET, BACKLIGHT_TEST}
          \/ factory_reset_timer' = factory_reset_timer
      BY <1>6 DEF StartedBy
    <2> QED BY <2>2, <2>3, <2>4, <2>5
  <1> QED BY <1>5, <1>6 DEF Press, FactoryPress, factory

(* A key that goes up stops the timer, whichever it is.                     *)
LEMMA ReleaseHoldInv == ASSUME HoldInv, NEW k \in KeyCodes, Release(k) PROVE HoldInv'
  <1>1. held' = held \ {k} /\ KeepCounts
    BY DEF Release
  <1>2. /\ heldFor' \in [Holds -> 0 .. ResetTicks]
        /\ FACTORY_RESET \subseteq held' => heldFor'.reset = heldFor.reset
        /\ BACKLIGHT_TEST \subseteq held' => heldFor'.test = heldFor.test
    BY <1>1, CountsKept
  <1>3. CASE k \in Common /\ UNCHANGED <<factory_reset_state, factory_reset_timer>>
    <2>1. k \notin factory_reset_state
      BY <1>3 DEF HoldInv, BitsAreDown
    <2>2. BitsAreDown' /\ TimerHasKeys'
      BY <1>1, <1>3, <2>1 DEF HoldInv, BitsAreDown, TimerHasKeys
    <2>3. TimerIsHeld'
      BY <1>2, <1>3, <2>2 DEF HoldInv, BitsAreDown, TimerIsHeld
    <2> QED BY <1>2, <1>3, <2>2, <2>3 DEF HoldInv
  <1>4. CASE factory_reset_timer' = 0 /\ factory_reset_state' = factory_reset_state \ {k}
    BY <1>1, <1>2, <1>4 DEF HoldInv, BitsAreDown, TimerHasKeys, TimerIsHeld
  <1> QED BY <1>3, <1>4 DEF Release, FactoryRelease, factory

(* A tick moves the timer and the counts of the keys held together.         *)
LEMMA TickHoldInv == ASSUME HoldInv, KeysTick PROVE HoldInv'
  <1> USE TickAssumption
  <1>1. held' = held
    BY DEF KeysTick
  <1>2. /\ heldFor.reset \in 0 .. ResetTicks /\ heldFor.test \in 0 .. ResetTicks
        /\ "reset" \in Holds /\ "test" \in Holds
    BY DEF HoldInv, Holds
  <1>3. /\ heldFor'.reset = IF FACTORY_RESET \subseteq held /\ heldFor.reset < ResetTicks
                              THEN heldFor.reset + 1 ELSE heldFor.reset
        /\ heldFor'.test = IF BACKLIGHT_TEST \subseteq held /\ heldFor.test < ResetTicks
                              THEN heldFor.test + 1 ELSE heldFor.test
    BY <1>2 DEF KeysTick
  <1>4. heldFor' \in [Holds -> 0 .. ResetTicks]
    BY <1>2 DEF KeysTick, HoldInv
  <1>5. CASE factory_reset_timer' = 0 /\ factory_reset_state' \in {{}, factory_reset_state}
    BY <1>1, <1>4, <1>5 DEF HoldInv, BitsAreDown, TimerHasKeys, TimerIsHeld
  <1>6. CASE /\ factory_reset_timer # 0
             /\ factory_reset_timer' = factory_reset_timer + 1
             /\ factory_reset_state' = factory_reset_state
    <2>1. BitsAreDown' /\ TimerHasKeys'
      BY <1>1, <1>6 DEF HoldInv, BitsAreDown, TimerHasKeys
    <2>2. TimerIsHeld'
      BY <1>2, <1>3, <1>6 DEF HoldInv, BitsAreDown, TimerIsHeld
    <2> QED BY <1>4, <1>6, <2>1, <2>2 DEF HoldInv
  <1> QED BY <1>5, <1>6 DEF KeysTick, FactoryTimerCheck

(* Every step preserves the invariant.                                      *)
LEMMA NextHoldInv == HoldInv /\ [KeysNext]_keysVars => HoldInv'
  <1> SUFFICES ASSUME HoldInv, [KeysNext]_keysVars PROVE HoldInv'
    OBVIOUS
  <1>1. CASE UNCHANGED <<held, factory_reset_state, factory_reset_timer, heldFor>>
    BY <1>1 DEF HoldInv, BitsAreDown, TimerHasKeys, TimerIsHeld
  <1>2. ASSUME NEW mode, FactoryTestRx(mode) PROVE HoldInv'
    BY <1>2 DEF FactoryTestRx, HoldInv, BitsAreDown, TimerHasKeys, TimerIsHeld
  <1>3. CASE Indicate \/ ClearKeyboard \/ UNCHANGED keysVars
    BY <1>1, <1>3 DEF Indicate, ClearKeyboard, keysVars, factory
  <1> QED BY <1>2, <1>3, PressHoldInv, ReleaseHoldInv, TickHoldInv DEF KeysNext

(* For every set of keys, every hold time and any order of presses and      *)
(* releases: the factory reset erases, and the backlight test begins, only  *)
(* when its three keys have been down together all the time                 *)
(* (process_record_factory_test, factory_timer_check).                      *)
THEOREM HoldsAreReal == KeysSpec => HeldLongEnough
  <1>1. KeysInit => HoldInv
    <2> SUFFICES ASSUME KeysInit PROVE HoldInv
      OBVIOUS
    <2>1. heldFor \in [Holds -> 0 .. ResetTicks]
      BY TickAssumption DEF KeysInit
    <2> QED BY <2>1 DEF KeysInit, HoldInv, BitsAreDown, TimerHasKeys, TimerIsHeld
  <1>2. HoldInv /\ [KeysNext]_keysVars
        => [KeysTick => /\ Resets => heldFor.reset = ResetTicks
                        /\ Tests => heldFor.test = ResetTicks]_keysVars
    BY TickAssumption DEF HoldInv, TimerIsHeld, Resets, Tests, Expired, Holds
  <1> QED BY <1>1, <1>2, NextHoldInv, PTL DEF KeysSpec, HeldLongEnough

-----------------------------------------------------------------------------
\* What the host takes for pressed.

\* Every code at the host is that of a key that is down, of Siri in its half
\* second, or J or Z.
Explained(c) ==
    \/ c \in {"J", "Z"}
    \/ \E k \in held \ {"SIRI"} : c \in Codes[k]
    \/ siri_timer # 0 /\ c \in Codes["SIRI"]

HostInv == siri_timer \in Nat /\ \A c \in registered : Explained(c)

(* Every step leaves each registered code explained.                        *)
LEMMA NextHostInv == HostInv /\ [KeysNext]_keysVars => HostInv'
  <1> SUFFICES ASSUME HostInv, [KeysNext]_keysVars PROVE HostInv'
    OBVIOUS
  <1>1. ASSUME NEW k \in KeyCodes, Press(k) PROVE HostInv'
    <2>1. held' = held \cup {k} /\ registered' \subseteq registered \cup Codes[k]
      BY <1>1 DEF Press
    <2>2. siri_timer' = siri_timer \/ (k = "SIRI" /\ siri_timer' = 1)
      BY <1>1 DEF Press
    <2>3. k = "SIRI" => siri_timer' = 1
      BY <1>1 DEF Press, Common
    <2> QED BY <2>1, <2>2, <2>3 DEF HostInv, Explained
  <1>2. ASSUME NEW k \in KeyCodes, Release(k) PROVE HostInv'
    <2>1. held' = held \ {k} /\ siri_timer' = siri_timer
      BY <1>2 DEF Release
    <2>2. CASE k = "SIRI"
      <3>1. registered' = registered
        BY <1>2, <2>2 DEF Release, ReleaseCommon, Common
      <3> QED BY <2>1, <2>2, <3>1 DEF HostInv, Explained
    <2>3. CASE k # "SIRI" /\ registered' = registered \ Codes[k]
      BY <2>1, <2>3 DEF HostInv, Explained
    <2>4. CASE k \in {"J", "Z"} /\ registered' = registered
      <3>1. Codes[k] \subseteq {"J", "Z"}
        BY <2>4 DEF Codes
      <3> QED BY <2>1, <2>4, <3>1 DEF HostInv, Explained
    <2> QED BY <1>2, <2>2, <2>3, <2>4 DEF Release, ReleaseCommon, Skipped
  <1>3. CASE KeysTick
    <2>1. held' = held
      BY <1>3 DEF KeysTick
    <2>2. CASE siri_timer' = 0 /\ registered' = registered \ Codes["SIRI"]
      BY <2>1, <2>2 DEF HostInv, Explained
    <2>3. CASE siri_timer' = (IF siri_timer = 0 THEN 0 ELSE siri_timer + 1)
               /\ registered' = registered
      <3>1. siri_timer' \in Nat /\ (siri_timer # 0 => siri_timer' # 0)
        BY <2>3 DEF HostInv
      <3> QED BY <2>1, <2>3, <3>1 DEF HostInv, Explained
    <2> QED BY <1>3, <2>2, <2>3 DEF KeysTick, CommonTask
  <1>4. CASE ClearKeyboard
    BY <1>4 DEF ClearKeyboard, HostInv
  <1>5. CASE UNCHANGED <<held, registered, siri_timer>>
    BY <1>5 DEF HostInv, Explained
  <1>6. ASSUME NEW mode, FactoryTestRx(mode) PROVE HostInv'
    BY <1>5, <1>6 DEF FactoryTestRx
  <1>7. CASE Indicate \/ UNCHANGED keysVars
    BY <1>5, <1>7 DEF Indicate, keysVars
  <1> QED BY <1>1, <1>2, <1>3, <1>4, <1>6, <1>7 DEF KeysNext

(* For every set of keys: with all keys up and Siri over, no key but J and  *)
(* Z can be left pressed at the host, however the combinations that share   *)
(* KC_LGUI overlapped (process_record_lemokey_common, lemokey_common_task). *)
THEOREM OnlyJAndZ == KeysSpec => []OnlyJAndZStuck
  <1>1. KeysInit => HostInv
    BY DEF KeysInit, HostInv
  <1>2. HostInv => OnlyJAndZStuck
    BY DEF HostInv, Explained, OnlyJAndZStuck
  <1> QED BY <1>1, <1>2, NextHostInv, PTL DEF KeysSpec
=============================================================================
