---------------------------- MODULE WearLeveling ----------------------------
(***************************************************************************)
(* The wear-leveled EEPROM (quantum/wear_leveling) with 2-byte writes: a   *)
(* cache, and behind it a backing store with consolidated data, their hash *)
(* and a log of halfwords that is played back at the start.                *)
(*                                                                         *)
(* A step is one call of the backing store, so that power may fail between *)
(* any two.  A halfword is a pair of bytes, encoded and decoded as in the  *)
(* code.  The hash of the data is the data itself (no collisions), and the *)
(* first slot of the log is 1, where the code has LOGICAL_SIZE + 8.  The   *)
(* data and the hash lie before the log.  The store is erased sector by    *)
(* sector: here the last one, and at once all those before it.             *)
(***************************************************************************)
EXTENDS Naturals, Sequences

CONSTANTS
    Logical,        \* the bytes of the EEPROM
    Slots,          \* the halfwords of the log
    Earlier,        \* the slots that are not in the last sector
    ByteAddresses,  \* 64: addresses below it have entries of one halfword
    Value,          \* the bytes that are written
    Lengths,        \* the lengths of the writes
    Faults,         \* the calls of the backing store that may fail
    Beyond,         \* the halfwords that may lie behind the backing store
    None            \* an erased hash

ASSUME WearAssumption ==
    /\ Logical \in Nat \ {0} /\ Slots \in Nat \ {0} /\ Lengths \subseteq Nat \ {0}
    /\ ByteAddresses \in 0 .. 64 /\ Earlier \in 0 .. Slots - 1
    /\ Value \subseteq 0 .. 255 /\ Beyond \subseteq (0 .. 255) \X (0 .. 255)
    /\ Faults \subseteq {"unlock", "lock", "erase", "write"}
    /\ None \notin [0 .. Logical - 1 -> 0 .. 255]

\* The addresses an entry has room for: 19 bits
AddressLimit == 524288

ASSUME AddressAssumption == Logical <= AddressLimit

Address  == 0 .. Logical - 1
Zeros    == [a \in Address |-> 0]
EMPTY    == <<0, 0>>
EmptyLog == [i \in 1 .. Slots |-> EMPTY]

\* The n bytes vs from a on, and f copied into g
At(a, vs, n) == [x \in a .. a + n - 1 |-> vs[x - a + 1]]
Over(g, f)   == [x \in DOMAIN f \cup DOMAIN g |-> IF x \in DOMAIN f THEN f[x] ELSE g[x]]

Erased(slots, l) == [i \in 1 .. Slots |-> IF i \in slots THEN EMPTY ELSE l[i]]

VARIABLES
    data, hash, log,    \* the backing store
    cache,
    write_address,      \* the next slot
    unlocked,
    pc,                 \* the next call of the backing store, "idle" or "off"
    todo,               \* the halfwords that wear_leveling_write_raw still appends
    relock,             \* this call has unlocked the store
    starting,           \* the call is wear_leveling_init
    \* history, read by the properties only
    before,             \* the cache when the call began
    failed              \* has a call ever failed?

store == <<data, hash, log>>
vars == <<store, cache, write_address, unlocked, pc, todo, relock, starting, before, failed>>

Init ==
    /\ data = Zeros /\ hash = None /\ log = EmptyLog
    /\ cache = Zeros /\ write_address = 1 /\ unlocked = FALSE
    /\ pc = "idle" /\ todo = <<>> /\ relock = FALSE /\ starting = FALSE
    /\ before = Zeros /\ failed = FALSE

-----------------------------------------------------------------------------
\* The log entries: LOG_ENTRY_MAKE_...

MULTIBYTE == 0
OPTIMIZED_64 == 1
WORD_01 == 2
MULTIBYTE_MAX_BYTES == 5

Word01(a, v) == <<WORD_01 * 64 + v * 32 + ((a \div 512) % 32), (a \div 2) % 256>>
Optimized64(a, v) == <<OPTIMIZED_64 * 64 + (a % 64), v>>

Byte(vs, i) == IF i <= Len(vs) THEN vs[i] ELSE 0

Multibyte(a, vs) ==
    SubSeq(<<<<MULTIBYTE * 64 + Len(vs) * 8 + ((a \div 65536) % 8), (a \div 256) % 256>>,
             <<a % 256, vs[1]>>, <<Byte(vs, 2), Byte(vs, 3)>>, <<Byte(vs, 4), Byte(vs, 5)>>>>,
           1, IF Len(vs) > 3 THEN 4 ELSE IF Len(vs) > 1 THEN 3 ELSE 2)

\* wear_leveling_write_raw, at the i-th byte of vs: whether two bytes are written as
\* a word, how many the next entry takes, and its halfwords
IsWord(address, vs, i) ==
    LET a == address + i - 1
    IN  i < Len(vs) /\ a % 2 = 0 /\ a < 16384 /\ vs[i] \in {0, 1} /\ vs[i + 1] = 0

Takes(address, vs, i) ==
    CASE IsWord(address, vs, i) -> 2
      [] ~IsWord(address, vs, i) /\ address + i - 1 < ByteAddresses -> 1
      [] OTHER -> IF Len(vs) - i + 1 >= MULTIBYTE_MAX_BYTES THEN MULTIBYTE_MAX_BYTES
                                                            ELSE Len(vs) - i + 1

Entry(address, vs, i) ==
    LET a == address + i - 1
    IN  CASE IsWord(address, vs, i) -> <<Word01(a, vs[i])>>
          [] ~IsWord(address, vs, i) /\ a < ByteAddresses -> <<Optimized64(a, vs[i])>>
          [] OTHER -> Multibyte(a, SubSeq(vs, i, i + Takes(address, vs, i) - 1))

\* The halfwords it appends from there on, and all of them
EntriesFrom(address, vs) ==
    LET from[i \in 1 .. Len(vs) + 1] ==
          IF i > Len(vs) THEN <<>>
          ELSE Entry(address, vs, i) \o from[i + Takes(address, vs, i)]
    IN  from

Entries(address, vs) == EntriesFrom(address, vs)[1]

\* One round of wear_leveling_playback_log at slot i of a log that reads as half, by
\* the type of the entry: the slots it reads, what it writes to the cache, and whether
\* it goes on.  (No entry is longer than five bytes; what memcpy finds behind them is
\* 0 here.)
DecodeMultibyte(half, i) ==
    LET len == (half[i][1] \div 8) % 8
        a   == (half[i][1] % 8) * 65536 + half[i][2] * 256 + half[i + 1][1]
        vs  == <<half[i + 1][2], half[i + 2][1], half[i + 2][2],
                 half[i + 3][1], half[i + 3][2], 0, 0>>
        ok  == a + len <= Logical
    IN  [read  |-> IF len > 3 /\ ok THEN 4 ELSE IF len > 1 /\ ok THEN 3 ELSE 2,
         bytes |-> At(a, vs, len),
         ok    |-> ok]

DecodeOptimized64(half, i) ==
    LET a == half[i][1] % 64
    IN  [read |-> 1, bytes |-> At(a, <<half[i][2]>>, 1), ok |-> a < Logical]

DecodeWord01(half, i) ==
    LET a == (half[i][1] % 32) * 512 + half[i][2] * 2
    IN  [read  |-> 1,
         bytes |-> At(a, <<(half[i][1] \div 32) % 2, 0>>, 2),
         ok    |-> a + 1 < Logical]

Decode(half, i) ==
    LET type == half[i][1] \div 64
    IN  CASE type = MULTIBYTE    -> DecodeMultibyte(half, i)
          [] type = OPTIMIZED_64 -> DecodeOptimized64(half, i)
          [] type = WORD_01      -> DecodeWord01(half, i)
          [] OTHER               -> [read |-> 1, bytes |-> <<>>, ok |-> FALSE]

\* The log l as it reads; an entry cut off at its end is read on beyond it.
Half(l, beyond) == [i \in 1 .. Slots + 4 |-> IF i <= Slots THEN l[i] ELSE beyond]

\* The rounds from slot i on: the bytes they write, where they end, and whether they
\* got to the end.
Play(half) ==
    LET play[i \in 1 .. Slots + 4] ==
          IF i > Slots \/ half[i] = EMPTY THEN [bytes |-> <<>>, next |-> i, ok |-> TRUE]
          ELSE LET d == Decode(half, i)
                   p == play[i + d.read]
               IN  IF d.ok THEN [bytes |-> Over(d.bytes, p.bytes), next |-> p.next, ok |-> p.ok]
                   ELSE [bytes |-> <<>>, next |-> i + d.read, ok |-> FALSE]
    IN  play

\* The whole of it, on top of base: the cache, write_address, and whether it got
\* to the end
Playback(base, beyond) ==
    LET p == Play(Half(log, beyond))[1]
    IN  [cache |-> Over(base, p.bytes), next |-> p.next, ok |-> p.ok]

\* wear_leveling_read_consolidated: the data, if they have their hash
Consolidated == IF hash = data THEN data ELSE Zeros

-----------------------------------------------------------------------------
\* The end of a call that leaves c in the cache and w as the next slot: the lock,
\* if this call unlocked, and what it returns.  A start that fails empties the
\* cache, and does not look whether the lock fails.
Return(ok, c, w) ==
    /\ pc' = "idle" /\ todo' = <<>> /\ relock' = FALSE /\ starting' = FALSE
    /\ cache' = IF starting /\ ~ok THEN Zeros ELSE c
    /\ write_address' = IF starting /\ ~ok THEN 1 ELSE w
    /\ before' = cache'
    /\ \/ /\ unlocked' = (unlocked /\ ~relock)
          /\ failed' = (failed \/ ~ok)
       \/ /\ relock /\ "lock" \in Faults
          /\ unlocked' = TRUE
          /\ failed' = (failed \/ ~ok \/ ~starting)

MayFail(call) == call \in Faults \/ (call = "write" /\ ~unlocked)

\* wear_leveling_write with a value that is not in the cache, up to the first call
\* of the store: the cache has the new value whatever becomes of it.
Write(a, vs) ==
    /\ pc = "idle"
    /\ a + Len(vs) <= Logical
    /\ \E i \in 1 .. Len(vs) : cache[a + i - 1] # vs[i]
    /\ cache' = Over(cache, At(a, vs, Len(vs)))
    /\ \/ /\ pc' = "append" /\ todo' = Entries(a, vs)
          /\ unlocked' = TRUE /\ relock' = ~unlocked
          /\ before' = cache
          /\ UNCHANGED failed
       \/ /\ ~unlocked /\ MayFail("unlock")
          /\ failed' = TRUE
          /\ before' = cache'
          /\ UNCHANGED <<pc, todo, unlocked, relock>>
    /\ UNCHANGED <<store, write_address, starting>>

\* The next slot; all places behind the log are alike.
NextAddress == IF write_address > Slots THEN write_address ELSE write_address + 1

\* wear_leveling_append_raw.  A write into a slot that is not empty, or behind the
\* last one, is up to the driver.
AppendRaw ==
    /\ pc = "append"
    /\ \/ /\ log' = [i \in 1 .. Slots |-> IF i = write_address THEN Head(todo) ELSE log[i]]
          /\ \/ /\ write_address >= Slots
                /\ pc' = "erase" /\ todo' = <<>>
                /\ write_address' = NextAddress
                /\ UNCHANGED <<cache, unlocked, relock, starting, before, failed>>
             \/ /\ write_address < Slots /\ Len(todo) > 1
                /\ todo' = Tail(todo)
                /\ write_address' = NextAddress
                /\ UNCHANGED <<cache, unlocked, pc, relock, starting, before, failed>>
             \/ /\ write_address < Slots /\ Len(todo) = 1
                /\ Return(TRUE, cache, NextAddress)
       \/ /\ MayFail("write") \/ ~(write_address <= Slots /\ log[write_address] = EMPTY)
          /\ Return(FALSE, cache, write_address)
          /\ UNCHANGED log
    /\ UNCHANGED <<data, hash>>

-----------------------------------------------------------------------------
\* Erasing: wear_leveling_consolidate_force, and wear_leveling_erase, which
\* empties the cache whether the erase fails or not.

Erase ==
    /\ pc = "idle"
    /\ \/ /\ pc' = "wipe"
          /\ unlocked' = TRUE /\ relock' = ~unlocked
          /\ UNCHANGED failed
       \/ /\ ~unlocked /\ MayFail("unlock")
          /\ failed' = TRUE
          /\ UNCHANGED <<pc, unlocked, relock>>
    /\ UNCHANGED <<store, cache, write_address, todo, starting, before>>

\* Mutant of EraseData: consolidating, which will write the data and their hash
\* again, erases the log only.
EraseDataLogOnly ==
    /\ pc \in {"erase", "wipe"}
    /\ data' = IF pc = "wipe" THEN Zeros ELSE data
    /\ hash' = IF pc = "wipe" THEN None ELSE hash
    /\ log' = EmptyLog
    /\ pc' = IF pc = "wipe" THEN "wipeLog" ELSE "eraseLog"
    /\ UNCHANGED <<cache, write_address, unlocked, todo, relock, starting, before, failed>>

\* backing_store_erase, up to the last sector
EraseData ==
    /\ pc \in {"erase", "wipe"}
    /\ data' = Zeros /\ hash' = None
    /\ log' = Erased(1 .. Earlier, log)
    /\ pc' = IF pc = "wipe" THEN "wipeLog" ELSE "eraseLog"
    /\ UNCHANGED <<cache, write_address, unlocked, todo, relock, starting, before, failed>>

EraseLog ==
    /\ pc \in {"eraseLog", "wipeLog"}
    /\ log' = Erased(Earlier + 1 .. Slots, log)
    /\ \/ /\ pc = "wipeLog"
          /\ Return(TRUE, Zeros, 1)
       \/ /\ pc = "eraseLog"
          /\ pc' = IF unlocked THEN "data" ELSE "unlock"
          /\ UNCHANGED <<cache, write_address, unlocked, todo, relock, starting, before, failed>>
    /\ UNCHANGED <<data, hash>>

\* It fails at some sector; the last one is erased all the same or not.
EraseFails ==
    /\ "erase" \in Faults
    /\ pc \in {"erase", "eraseLog", "wipe", "wipeLog"}
    /\ log' \in {log, Erased(Earlier + 1 .. Slots, log)}
    /\ IF pc \in {"wipe", "wipeLog"} THEN Return(FALSE, Zeros, 1)
                                     ELSE Return(FALSE, cache, write_address)
    /\ UNCHANGED <<data, hash>>

\* wear_leveling_write_consolidated: at the start the store is still locked here.
Unlock ==
    /\ pc = "unlock"
    /\ pc' = "data"
    /\ \/ unlocked' = TRUE /\ relock' = TRUE
       \/ MayFail("unlock") /\ UNCHANGED <<unlocked, relock>>
    /\ UNCHANGED <<store, cache, write_address, todo, starting, before, failed>>

WriteData ==
    /\ pc = "data"
    /\ data' = cache
    /\ pc' = "hash"
    /\ UNCHANGED <<hash, log, cache, write_address, unlocked, todo, relock, starting,
                   before, failed>>

WriteHash ==
    /\ pc = "hash"
    /\ hash' = cache
    /\ Return(TRUE, cache, 1)
    /\ UNCHANGED <<data, log>>

\* Mutant of ConsolidateFails: the failure is not passed on.
ConsolidateFailsUnreported ==
    /\ pc \in {"data", "hash"} /\ MayFail("write")
    /\ Return(TRUE, cache, 1)
    /\ UNCHANGED store

ConsolidateFails ==
    /\ pc \in {"data", "hash"} /\ MayFail("write")
    /\ Return(FALSE, cache, 1)
    /\ UNCHANGED store

-----------------------------------------------------------------------------
\* Power fails; what is in RAM is gone.
PowerLoss ==
    /\ pc # "off"
    /\ pc' = "off"
    /\ cache' = Zeros /\ before' = Zeros /\ write_address' = 1
    /\ unlocked' = FALSE /\ relock' = FALSE /\ starting' = FALSE
    /\ todo' = <<>>
    /\ UNCHANGED <<store, failed>>

\* Mutant of Start: a full log is left as it is.
StartKeepsFullLog(p) ==
    /\ cache' = p.cache /\ before' = p.cache
    /\ write_address' = p.next
    /\ pc' = IF p.ok THEN "idle" ELSE "erase"
    /\ starting' = ~p.ok

\* wear_leveling_playback_log after the last entry
Start(p) ==
    /\ cache' = p.cache /\ before' = p.cache
    /\ write_address' = p.next
    /\ pc' = IF p.ok /\ p.next <= Slots THEN "idle" ELSE "erase"
    /\ starting' = (pc' = "erase")

\* wear_leveling_init
Restart ==
    /\ pc = "off"
    /\ \E b \in Beyond : Start(Playback(Consolidated, b))
    /\ UNCHANGED <<store, unlocked, todo, relock, failed>>

Next ==
    \/ \E n \in Lengths : \E vs \in [1 .. n -> Value], a \in Address : Write(a, vs)
    \/ AppendRaw
    \/ Erase \/ EraseData \/ EraseLog \/ EraseFails
    \/ Unlock \/ WriteData \/ WriteHash \/ ConsolidateFails
    \/ PowerLoss \/ Restart

Spec == Init /\ [][Next]_vars

-----------------------------------------------------------------------------
\* Properties.

\* The types; an idle store has a slot left for the next entry, unless a call has
\* failed.
TypeOK ==
    /\ \A f \in {data, cache, before} \cup ({hash} \ {None}) :
           DOMAIN f = Address /\ \A a \in Address : f[a] \in 0 .. 255
    /\ \A i \in 1 .. Slots : log[i] \in (0 .. 255) \X (0 .. 255)
    /\ write_address \in 1 .. Slots + 4
    /\ pc \in {"idle", "append", "erase", "eraseLog", "unlock", "data", "hash", "wipe",
               "wipeLog", "off"}
    /\ pc = "append" <=> todo # <<>>
    /\ pc = "idle" /\ ~failed => write_address <= Slots
    /\ {unlocked, relock, starting, failed} \subseteq BOOLEAN

\* What a start would find if power failed now
Stored == Playback(Consolidated, EMPTY).cache

\* As long as no call has reported a failure, the store holds what a read returns:
\* every entry is read back as it was written, also behind one that was cut off by
\* a loss of power, and a full log is consolidated without losing the write that
\* filled it.
KeptUnlessReported == pc = "idle" /\ ~failed => Stored = cache

\* The log ends in an entry of several halfwords that is not complete.
CutOff == LET next == Playback(Consolidated, EMPTY).next
          IN  next > write_address \/ next > Slots + 1

Erasing == {"eraseLog", "unlock", "data", "hash", "wipeLog"}

\* When power fails, each byte keeps its value from before the call or has its new
\* one; only while the store is erased and written again it may be reset to 0, but
\* never has it a value older than that.  The exception is power lost within an
\* entry of several halfwords, whose missing halfwords are then read as they are.
NothingStale ==
    pc # "off" /\ ~failed /\ ~CutOff =>
        \A a \in Address : \/ Stored[a] \in {before[a], cache[a]}
                           \/ pc \in Erasing /\ Stored[a] = 0
=============================================================================
