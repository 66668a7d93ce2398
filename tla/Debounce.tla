------------------------------ MODULE Debounce ------------------------------
(***************************************************************************)
(* matrix_scan and debounce (sym_eager_pk), as matrix_task runs them, with *)
(* the two flags that let debounce do nothing most of the time and the one *)
(* last_time that all the counters share.                                  *)
(*                                                                         *)
(* age is TIMER_DIFF_FAST(now, last_time), in milliseconds.  It is only    *)
(* read while counters_need_update is set and then capped at UINT8_MAX, so *)
(* it stops there.  Rows are left out: a key is a place of the matrix.     *)
(***************************************************************************)
EXTENDS Naturals

CONSTANTS
    Key,
    DEBOUNCE,     \* 20 on these boards
    UINT8_MAX     \* 255: DEBOUNCE and elapsed_time go up to it

ASSUME DebounceAssumption ==
    /\ DEBOUNCE \in Nat \ {0} /\ UINT8_MAX \in Nat
    /\ DEBOUNCE <= UINT8_MAX

DEBOUNCE_ELAPSED == 0

VARIABLES
    raw_matrix,             \* the switches at the last scan
    matrix,                 \* the debounced matrix
    debounce_counters,
    age,
    counters_need_update,
    matrix_need_update,
    matrix_previous         \* the presses and releases the keyboard has acted on

debounceVars == <<raw_matrix, matrix, debounce_counters, age, counters_need_update,
          matrix_need_update, matrix_previous>>

AllUp == [k \in Key |-> FALSE]

DebounceInit ==
    /\ raw_matrix = AllUp /\ matrix = AllUp /\ matrix_previous = AllUp
    /\ debounce_counters = [k \in Key |-> DEBOUNCE_ELAPSED]
    /\ age = 0
    /\ counters_need_update = FALSE /\ matrix_need_update = FALSE

-----------------------------------------------------------------------------
\* debounce

\* elapsed_time, where it is used: not 0
Updates == counters_need_update /\ age > 0

\* update_debounce_counters
Updated ==
    [k \in Key |-> IF debounce_counters[k] <= age
                     THEN DEBOUNCE_ELAPSED ELSE debounce_counters[k] - age]

Counters == IF Updates THEN Updated ELSE debounce_counters

CountersNeedUpdate ==
    IF Updates THEN \E k \in Key : Updated[k] # DEBOUNCE_ELAPSED ELSE counters_need_update

MatrixNeedUpdate ==
    IF Updates
      THEN \E k \in Key : debounce_counters[k] # DEBOUNCE_ELAPSED /\ Updated[k] = DEBOUNCE_ELAPSED
      ELSE matrix_need_update

\* transfer_matrix_values flips k.
Flips(k, raw) == raw[k] # matrix[k] /\ Counters[k] = DEBOUNCE_ELAPSED

\* Mutant of Transfer: last_time is not read when no counter was running.
TransferKeepsLastTime(raw) ==
    /\ matrix' = [k \in Key |-> IF Flips(k, raw) THEN raw[k] ELSE matrix[k]]
    /\ debounce_counters' = [k \in Key |-> IF Flips(k, raw) THEN DEBOUNCE ELSE Counters[k]]
    /\ counters_need_update' = (CountersNeedUpdate \/ \E k \in Key : Flips(k, raw))
    /\ matrix_need_update' = FALSE
    /\ age' = IF counters_need_update THEN 0 ELSE age

Transfer(raw) ==
    /\ matrix' = [k \in Key |-> IF Flips(k, raw) THEN raw[k] ELSE matrix[k]]
    /\ debounce_counters' = [k \in Key |-> IF Flips(k, raw) THEN DEBOUNCE ELSE Counters[k]]
    /\ counters_need_update' = (CountersNeedUpdate \/ \E k \in Key : Flips(k, raw))
    /\ matrix_need_update' = FALSE
    /\ age' = 0

NoTransfer ==
    /\ debounce_counters' = Counters
    /\ counters_need_update' = CountersNeedUpdate
    /\ matrix_need_update' = MatrixNeedUpdate
    /\ age' = IF counters_need_update THEN 0 ELSE age
    /\ UNCHANGED matrix

-----------------------------------------------------------------------------
\* Mutant of MatrixTask: acts only in a scan that found a switch moved.
MatrixTaskOnChange(switch) ==
    /\ raw_matrix' = switch
    /\ \/ /\ switch # raw_matrix \/ MatrixNeedUpdate
          /\ Transfer(switch)
       \/ /\ ~(switch # raw_matrix \/ MatrixNeedUpdate)
          /\ NoTransfer
    /\ matrix_previous' = IF switch # raw_matrix THEN matrix' ELSE matrix_previous

\* matrix_task: the switches are read, and what changed in the matrix is acted on.
MatrixTask(switch) ==
    /\ raw_matrix' = switch
    /\ \/ /\ switch # raw_matrix \/ MatrixNeedUpdate
          /\ Transfer(switch)
       \/ /\ ~(switch # raw_matrix \/ MatrixNeedUpdate)
          /\ NoTransfer
    /\ matrix_previous' = matrix'

\* Mutant of MatrixInit: the old counters are used again.
MatrixInitKeepsCounters ==
    /\ raw_matrix' = AllUp /\ matrix' = AllUp
    /\ counters_need_update' = FALSE
    /\ UNCHANGED <<age, debounce_counters, matrix_need_update, matrix_previous>>

\* lpm_wakeup, after low power: debounce_free and matrix_init.  The flags and
\* last_time are static and stay.
MatrixInit ==
    /\ raw_matrix' = AllUp /\ matrix' = AllUp
    /\ debounce_counters' = [k \in Key |-> DEBOUNCE_ELAPSED]
    /\ UNCHANGED <<age, counters_need_update, matrix_need_update, matrix_previous>>

DebounceTick ==
    /\ age' = IF age < UINT8_MAX THEN age + 1 ELSE age
    /\ UNCHANGED <<raw_matrix, matrix, debounce_counters, counters_need_update,
                   matrix_need_update, matrix_previous>>

DebounceNext == DebounceTick \/ MatrixInit \/ \E switch \in [Key -> BOOLEAN] : MatrixTask(switch)

DebounceSpec == DebounceInit /\ [][DebounceNext]_debounceVars

-----------------------------------------------------------------------------
\* Properties.

DebounceTypeOK ==
    /\ raw_matrix \in [Key -> BOOLEAN] /\ matrix \in [Key -> BOOLEAN]
    /\ matrix_previous \in [Key -> BOOLEAN]
    /\ debounce_counters \in [Key -> 0 .. DEBOUNCE]
    /\ age \in 0 .. UINT8_MAX
    /\ counters_need_update \in BOOLEAN /\ matrix_need_update \in BOOLEAN

\* The flags never hide work: a key that differs from its switch has a running
\* counter, so that a scan without a change of the switches may skip it, and a
\* running counter has its flag.
NothingForgotten ==
    /\ \A k \in Key : matrix[k] # raw_matrix[k] => debounce_counters[k] # DEBOUNCE_ELAPSED
    /\ (\E k \in Key : debounce_counters[k] # DEBOUNCE_ELAPSED) => counters_need_update
    /\ ~matrix_need_update

\* The milliseconds key k is still deaf for
Left(k) == IF debounce_counters[k] > age THEN debounce_counters[k] - age ELSE 0

Eager == INSTANCE EagerKeys WITH
    Wait <- DEBOUNCE, key <- matrix, left <- [k \in Key |-> Left(k)]

\* debounce with its flags and its shared last_time is eager debouncing of each
\* key by itself: no key is deaf for more or less than DEBOUNCE because of the
\* others, and no change is missed.
IsEager == Eager!Spec

\* A switch that stays where it is is acted on: the keyboard does not keep a key
\* pressed that is up, or up that is pressed, whatever bounced before and however
\* often it slept.
StableIsActedOn ==
    \A k \in Key :
        /\ <>[](raw_matrix[k]) => <>[](matrix_previous[k])
        /\ <>[](~raw_matrix[k]) => <>[](~matrix_previous[k])
=============================================================================
