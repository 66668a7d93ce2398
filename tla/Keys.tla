-------------------------------- MODULE Keys --------------------------------
(***************************************************************************)
(* The keys with a meaning of their own: process_record_kb with            *)
(* process_record_lemokey_common (Siri and the key combinations) and       *)
(* process_record_factory_test (factory reset and backlight test, started  *)
(* by holding three keys), and the tasks behind them.                      *)
(*                                                                         *)
(* Time goes in ticks of a little more than 250 ms, the step of the reset  *)
(* indication; the tasks run after each.  Switching transport is in        *)
(* Wireless; here it only releases everything the host was told            *)
(* (clear_keyboard).  A key keeps the keycode it was pressed with.         *)
(* FN_Z_KEY is not defined on these boards, so keys_released is not read.  *)
(***************************************************************************)
EXTENDS Naturals, FiniteSets

CONSTANTS
    KeyCodes,     \* the keys that are pressed, of those in Codes
    ResetTicks,   \* 12: held for more than 3 s
    SiriTicks,    \* 2: more than 500 ms
    TestModes     \* the modes a factory test command may ask for

ASSUME TickAssumption ==
    /\ SiriTicks \in Nat \ {0} /\ ResetTicks \in Nat /\ ResetTicks > 7
    /\ TestModes \subseteq 0 .. 255

\* What each key is for the host: KC_LCMD is KC_LWIN, and Siri is KC_LCMD with
\* KC_SPACE.
Codes ==
    [FN |-> {}, J |-> {"J"}, Z |-> {"Z"}, BL_CYCLE |-> {"RIGHT"}, BL_TRIG |-> {"HOME"},
     SIRI |-> {"LGUI", "SPACE"}, LCMMD |-> {"LGUI"}, TASK |-> {"LGUI", "TAB"}]

ASSUME KeyAssumption == KeyCodes \subseteq DOMAIN Codes

FACTORY_RESET  == {"FN", "J", "Z"}
BACKLIGHT_TEST == {"FN", "BL_CYCLE", "BL_TRIG"}
Common         == {"SIRI", "LCMMD", "TASK"}

TEST_OFF   == 0
TEST_WHITE == 1
TEST_MAX   == 5

VARIABLES
    held,                     \* the keys that are down
    registered,               \* what the host takes for pressed
    factory_reset_state,      \* the bits, as the set of keys
    factory_reset_timer,      \* 0, or the ticks since it was started and one
    factory_reset_ind_state,  \* not 0 if and only if its timer is not
    backlight_test_mode,
    siri_timer,               \* likewise; not 0 if and only if is_siri_active
    \* history, read by the properties only
    heldFor                   \* for how many ticks the keys of the reset and those
                              \* of the test have all been down

factory == <<factory_reset_state, factory_reset_timer, factory_reset_ind_state,
             backlight_test_mode>>
keysVars == <<held, registered, factory, siri_timer, heldFor>>

Holds == {"reset", "test"}

KeysInit ==
    /\ held = {} /\ registered = {}
    /\ factory_reset_state = {} /\ factory_reset_timer = 0
    /\ factory_reset_ind_state = 0
    /\ backlight_test_mode = TEST_OFF
    /\ siri_timer = 0
    /\ heldFor = [h \in Holds |-> 0]

-----------------------------------------------------------------------------
\* process_record_factory_test for key k

\* The timer after k has been added to the bits: it starts with the last key of
\* a combination, unless that is Fn.
StartedBy(k, bits) ==
    IF \/ k \in {"J", "Z"} /\ bits = FACTORY_RESET
       \/ k \in {"BL_CYCLE", "BL_TRIG"} /\ bits = BACKLIGHT_TEST
      THEN 1 ELSE factory_reset_timer

\* ++backlight_test_mode in 8 bits, and around
NextTestMode ==
    LET m == (backlight_test_mode + 1) % 256 IN IF m >= TEST_MAX THEN TEST_WHITE ELSE m

FactoryPress(k) ==
    /\ \/ /\ k \in {"BL_CYCLE", "BL_TRIG"} /\ backlight_test_mode # TEST_OFF
          /\ backlight_test_mode' = IF k = "BL_CYCLE" THEN NextTestMode ELSE TEST_OFF
          /\ UNCHANGED <<factory_reset_state, factory_reset_timer>>
       \/ /\ \/ k \in FACTORY_RESET
             \/ k \in {"BL_CYCLE", "BL_TRIG"} /\ backlight_test_mode = TEST_OFF
          /\ factory_reset_state' = factory_reset_state \cup {k}
          /\ factory_reset_timer' = StartedBy(k, factory_reset_state \cup {k})
          /\ UNCHANGED backlight_test_mode
    /\ UNCHANGED factory_reset_ind_state

\* Mutant of FactoryRelease: the bit stays.
FactoryReleaseKeepsBit(k) ==
    /\ factory_reset_timer' = 0
    /\ UNCHANGED <<factory_reset_state, factory_reset_ind_state, backlight_test_mode>>

FactoryRelease(k) ==
    /\ factory_reset_state' = factory_reset_state \ {k}
    /\ factory_reset_timer' = 0
    /\ UNCHANGED <<factory_reset_ind_state, backlight_test_mode>>

\* It returns false, so the key goes no further, for J and Z with the Fn bit set.
Skipped(k) == k \in {"J", "Z"} /\ "FN" \in factory_reset_state'

-----------------------------------------------------------------------------
\* process_record_kb

AllDown(keys, n) == IF keys \subseteq held' THEN n ELSE 0

KeepCounts ==
    heldFor' = [reset |-> AllDown(FACTORY_RESET, heldFor.reset),
                test  |-> AllDown(BACKLIGHT_TEST, heldFor.test)]

Press(k) ==
    /\ k \notin held
    /\ held' = held \cup {k}
    /\ KeepCounts
    /\ \/ /\ k \in Common
          /\ registered' = IF k = "SIRI" /\ siri_timer # 0 THEN registered
                           ELSE registered \cup Codes[k]
          /\ siri_timer' = IF k = "SIRI" THEN 1 ELSE siri_timer
          /\ UNCHANGED factory
       \/ /\ k \notin Common
          /\ FactoryPress(k)
          /\ registered' = IF Skipped(k) THEN registered ELSE registered \cup Codes[k]
          /\ UNCHANGED siri_timer

\* Mutant of ReleaseCommon: a combination keeps the modifier for the next key.
ReleaseCommonKeepsModifier(k) ==
    IF k = "SIRI" THEN registered ELSE registered \ (Codes[k] \ {"LGUI"})

\* The release of Siri is left to lemokey_common_task.
ReleaseCommon(k) == IF k = "SIRI" THEN registered ELSE registered \ Codes[k]

Release(k) ==
    /\ k \in held
    /\ held' = held \ {k}
    /\ KeepCounts
    /\ \/ /\ k \in Common
          /\ registered' = ReleaseCommon(k)
          /\ UNCHANGED factory
       \/ /\ k \notin Common
          /\ FactoryRelease(k)
          /\ registered' = IF Skipped(k) THEN registered ELSE registered \ Codes[k]
    /\ UNCHANGED siri_timer

-----------------------------------------------------------------------------
\* A tick, and the tasks after it.

Expired == factory_reset_timer > ResetTicks

\* factory_timer_check
FactoryTimerCheck ==
    \/ /\ factory_reset_timer = 0
       /\ UNCHANGED <<factory_reset_state, factory_reset_timer>>
    \/ /\ factory_reset_timer # 0 /\ ~Expired
       /\ factory_reset_timer' = factory_reset_timer + 1
       /\ UNCHANGED factory_reset_state
    \/ /\ Expired
       /\ factory_reset_timer' = 0
       /\ factory_reset_state' = {}

Resets == Expired /\ factory_reset_state = FACTORY_RESET
Tests  == Expired /\ factory_reset_state = BACKLIGHT_TEST

\* factory_reset_ind_timer_check
NextIndication ==
    IF factory_reset_ind_state = 0 \/ factory_reset_ind_state > 6
      THEN 0 ELSE factory_reset_ind_state + 1

\* lemokey_common_task
CommonTask ==
    \/ /\ siri_timer > SiriTicks
       /\ siri_timer' = 0
       /\ registered' = registered \ Codes["SIRI"]
    \/ /\ siri_timer <= SiriTicks
       /\ siri_timer' = IF siri_timer = 0 THEN 0 ELSE siri_timer + 1
       /\ UNCHANGED registered

\* A reset that has just begun is not moved on in the same round.
KeysTick ==
    /\ FactoryTimerCheck
    /\ factory_reset_ind_state' = IF Resets THEN factory_reset_ind_state + 1 ELSE NextIndication
    /\ backlight_test_mode' = IF Tests THEN TEST_WHITE ELSE backlight_test_mode
    /\ CommonTask
    /\ heldFor' = [h \in Holds |->
                     IF (IF h = "reset" THEN FACTORY_RESET ELSE BACKLIGHT_TEST) \subseteq held
                          /\ heldFor[h] < ResetTicks
                       THEN heldFor[h] + 1 ELSE heldFor[h]]
    /\ UNCHANGED held

\* factory_test_indicator: a reset ends the backlight test.
Indicate ==
    /\ factory_reset_ind_state # 0
    /\ backlight_test_mode' = TEST_OFF
    /\ UNCHANGED <<held, registered, factory_reset_state, factory_reset_timer,
                   factory_reset_ind_state, siri_timer, heldFor>>

\* factory_test_rx with FACTORY_TEST_CMD_BACKLIGHT
FactoryTestRx(mode) ==
    /\ backlight_test_mode' = mode
    /\ factory_reset_timer' = 0
    /\ UNCHANGED <<held, registered, factory_reset_state, factory_reset_ind_state,
                   siri_timer, heldFor>>

\* clear_keyboard, when the transport is switched
ClearKeyboard ==
    /\ registered' = {}
    /\ UNCHANGED <<held, factory, siri_timer, heldFor>>

KeysNext ==
    \/ \E k \in KeyCodes : Press(k) \/ Release(k)
    \/ KeysTick \/ Indicate \/ ClearKeyboard
    \/ \E mode \in TestModes : FactoryTestRx(mode)

KeysSpec == KeysInit /\ [][KeysNext]_keysVars

-----------------------------------------------------------------------------
\* Properties.

\* EEPROM and the module are erased, or the backlight test begins, only after
\* its three keys have been down together for the whole time, in whatever order
\* keys went down and up before, in both combinations.
HeldLongEnough ==
    [][KeysTick => /\ Resets => heldFor.reset = ResetTicks
                   /\ Tests => heldFor.test = ResetTicks]_keysVars

\* Once all keys are up and Siri's half second is over, the host takes no key for
\* pressed, however the combinations that share KC_LGUI overlapped.  J and Z are
\* the exception: pressed before Fn and released after it, they are not released
\* for the host.
OnlyJAndZStuck == held = {} /\ siri_timer = 0 => registered \subseteq {"J", "Z"}
=============================================================================
