# A verification of the Keychron wireless firmware

The repository is a fork of the QMK keyboard firmware for two Keychron boards
(`keyboards/keychron/p1`, `keyboards/keychron/colorful`) built around a WB32 /
STM32-class microcontroller and an LKBT51 radio module. QMK itself (`quantum/`,
`tmk_core/`, `drivers/`, `platforms/`) and the vendored libraries (`lib/`) come
from upstream; what the fork adds, and what this project is about first, is
`keyboards/keychron/common/`: the wireless stack that carries key reports to a
Bluetooth or 2.4 GHz host, its power management and its indicators.

## Inventory

| Part | Code (under `keyboards/keychron/common/`) | State | Operations |
|---|---|---|---|
| Event queue | `wireless/wireless.c` 57-87 | ring of 16 events, head, tail | enqueue (driver), dequeue (task) |
| Report queue | `wireless/report_buffer.c` 55-99 | ring of 256 reports, head, tail | enqueue, dequeue, init |
| Report sender | `wireless/report_buffer.c` 101-149, `wireless.c` 355-460, `lkbt51.c` 361-424, 683-706 | outstanding report, retries, interval, two timers | send keyboard / consumer / system, task, acknowledgement |
| Connection | `wireless/wireless.c` 92-340, 474-556 | wireless_state, host index, LED state, PIN entry | connect, pair, disconnect, one handler per event |
| Transport | `wireless/transport.c` | selected transport, NKRO choice per transport | set_transport and what it enables and disables |
| Mode keys | `wireless/lemokey_wireless_common.c` | pairing key timer, first-disconnect flag | host keys, long press, restore at boot |
| Radio driver | `wireless/lkbt51.c` | sequence number, connection interval, parser state | commands, status frames, packets |
| Battery | `wireless/battery.c` | voltage, three counters | sample, empty, critical |
| Low power | `wireless/lpm.c`, `lpm_stm32f401.c`, `lp_sleep.c` | power mode, idle timer, the interrupt hardware | timer, sleep, wake up, interrupt handlers |
| Indicator | `wireless/indicator.c` | indicator configuration, timers, low-battery blink | set, timer callback, stop |
| Keys | `lemokey_common.c`, `factory_test.c`, `lemokey_task.c` | what the host takes for pressed, reset bits and timer, test mode, Siri timer | press, release, tasks, test command |
| Matrix and debouncing | `quantum/matrix.c`, `quantum/debounce/sym_eager_pk.c` (of the repository) | raw and debounced matrix, counters, two flags, one time stamp | scan, initialisation after sleep |
| EEPROM | `quantum/wear_leveling/` (of the repository) | cache, backing store, log | write, erase, consolidate, start |

The firmware has one thread: the main loop scans the keys (which may queue or
send reports and may switch the transport) and then calls `wireless_task`, which
polls the radio driver, handles all queued events, sends or repeats one report,
and runs the indicator, the pairing key timer, the battery and the low power
task, in that order. What makes it hard is the radio module, which runs
concurrently: it answers late or never, its answers carry no reference to what
they answer, its status changes race with the keys the user presses, and the
main loop stops handling events while a transport switch is in progress.

The hard behaviours, and the properties that make each part correct:

| Part | What is hard | What must hold |
|---|---|---|
| Event queue | the ring overflows during a burst; which event is lost matters | it is a FIFO that loses only its oldest event |
| Report queue | full with one slot free; emptied under its users | it is a FIFO that loses nothing but what it refuses or what `report_buffer_init` clears |
| Report sender | late, lost and unattributed answers; retries on timers; a link that goes down | bounded retries, order, no report on a wrong link, none forgotten, progress |
| Connection, transport, mode keys | events read but not handled during a switch; `wireless_state` set both by requests and by events; repeated frames; a pairing timer that outlives the transport | the firmware and the module agree once all is handled; no host sees another's LEDs; USB silences the radio; typing always leads back to a connection |
| Battery | values arrive after they were asked for; two counters reset on different conditions | warning before shutdown, no way out of critical but the cable |
| Low power | an edge missed while going to sleep; a timer and a mode kept over sleeps | no lost wake-up, sleep only when quiet, sleep again and again, USB back when chosen |
| Radio driver's reader | statics that outlive a read; lengths at both ends of the buffer | what is handled was read; the reader never stops |
| NKRO settings | one setting in force, exchanged on switches and changed by events | USB keeps its own |
| Indicator | statics and early returns; indications that keep the firmware awake; a clock that wraps | shows the connection, ends, not too often |
| Keys | two combinations on one set of bits; shared key codes; timed releases | nothing resets by accident, nothing stays pressed |
| Debouncing | counters that share a time stamp and flags; sleep in between | each key debounced by itself, no change forgotten |
| EEPROM | loss of power and failing calls between any two steps | never an older value; a failure is reported |

## Modules

| Module | Models |
|---|---|
| `Ring` | the index arithmetic both rings share, and the sequence of elements a ring holds |
| `EventFifo`, `EventQueue` | what the event queue promises; the ring of `wireless.c` 57-87 |
| `ReportFifo`, `ReportQueue` | what the report queue promises; the ring of `report_buffer.c` 55-87 |
| `ReportBuffer` | sending, repeating and acknowledging reports |
| `Wireless` | connection, transport switch, mode keys, status frames, the module |
| `HostKeys` | the slot a long press pairs; extends `Wireless` |
| `Nkro` | the NKRO setting per transport; extends `Wireless` |
| `Indicator` | the host indication; extends `Wireless` |
| `LowBattery` | the low battery indication and its clock |
| `Battery` | the battery monitor |
| `Lpm` | going to sleep, stop mode and waking up |
| `PacketReader` | finding and checking a packet of the module in a read |
| `Keys` | factory reset, backlight test, Siri and the key combinations |
| `EagerKeys`, `Debounce` | what eager debouncing promises; `sym_eager_pk.c` as `matrix_task` runs it |
| `WearLeveling` | the wear-leveled EEPROM |
| `MCRadio` | `EventQueue`, `ReportQueue` and `PacketReader` for TLC |
| `MCReportBuffer` | `ReportBuffer` for TLC |
| `MCConnection` | `Wireless`, `Nkro` and `Indicator` for TLC |
| `MCPower` | `Battery`, `LowBattery` and `Lpm` for TLC, with voltages around the thresholds and rows on one vector |
| `MCKeyPath` | `Debounce` and `Keys` for TLC |
| `MCWearLeveling` | `WearLeveling` for TLC |
| `Radio_proofs` | TLAPS proofs about `Ring`, `EventQueue`, `ReportQueue` and `PacketReader` |
| `ReportBuffer_proofs`, `Wireless_proofs` | about the module of that name |
| `Connection_proofs` | about `HostKeys` and `Nkro`, on top of `Wireless_proofs` |
| `Indicator_proofs` | about `Indicator`, on top of `Wireless_proofs` |
| `Power_proofs` | about `Battery`, `LowBattery`, `Lpm` and their composition `MCPower` |
| `KeyPath_proofs` | about `Debounce` and `Keys` |
| `WearLeveling_proofs` | about `WearLeveling` |

`ReportBuffer` and `Wireless` use the abstract queues (`INSTANCE ReportFifo`,
`INSTANCE EventFifo`); the rings are proved to implement them, so nothing is lost
by leaving the indices out. `Wireless` sees the battery as the flag `critical`,
whose changes `Battery` explains. `HostKeys`, `Nkro` and `Indicator` compose a further
part with the whole of `Wireless`: each step of `Wireless` is joined with what the
same code does to the new variables, so that switches, events and keys come in
every order that `Wireless` allows.

`MCRadio`, `MCConnection`, `MCPower` and `MCKeyPath` put several parts in one
instance. Their parts share no variable (in `MCConnection` the setting and the
indication each read the connection, and neither changes it), and each is modelled
with everything that its surroundings can do to it. Every property speaks of one
part. So a behaviour chooses a part at the start and follows that one: interleaving
it with steps of the others would add states and no behaviour of the part. The
fairness conditions of a part are guarded by the same choice.

### ReportBuffer

One action per function: `SendKeyboard`, `SendConsumer`, `SendSystem` are the
host driver's functions, `TakeNext`, `TakeUnsent` and `Resend` the three outcomes
of `report_buffer_task`, `AckHandler` is `ack_handler`, `ClearBuffer` is
`report_buffer_init` inside `EnterDisconnected` and `WakeUp`. `kb_rpt`, `retry`,
`connection_interval` and `report_interval` keep their names; the two time stamps
are kept as elapsed milliseconds. `link` keeps only what the report code reads of
`wireless_state`. Reports are numbered, and carry the number of the link they
were made on; these and `sends`, `accepted`, `givenUp`, `newest` are history.

The module answers any transmission with any of its three answers: how full its
FIFO is depends on the host and on mouse reports, which are sent without answers.
It holds at most `MaxAcks` answers. With `LossySpi` packets and answers get lost.
A usage outside 0x81 to 0x83, which `lkbt51_send_system` ignores, is no step. The
interval of a status frame is set twice, by the driver and by the event; doing
both at once hides no outcome, since only an answer in the same read could come
between, and it sets the interval again. `EnterConnected`
needs the DISCONNECTED event of a former link handled first: an overflow of the
event ring that displaces just that event is left out here (`Wireless` has it).

### Wireless

The variable `phase` is where the main loop is; see the head of the module. The
handlers of `wireless_event_task` are the disjuncts of `EventTask`;
`SwitchToUsb` and `SwitchToWireless` are `set_transport`, the second one ending
in phase `polling`, where `PollModule` reads frames and `EndPolling` is the
connection request and the rest of the key's handler. `PressHost`, `PressP24g`,
`ReleaseHost`, `PressUsb` are the keys, `CommonTask` the pairing timer,
`BatteryTask` the part of `battery_task` that reaches the connection.

The radio module is external. Assumed of it, from how the driver uses it: it
executes commands at once; tells every change in a status frame; frames are read
in order; a connection status that is not acknowledged is repeated (the comment at
`lkbt51.c` 426 says twice); a connected module tells that the link ends before it
moves on; asked for what it already does it says nothing; slot 0 means the current
slot and 30 the last bluetooth slot; after a reset it reports that it is
disconnected. A frame that carries several events is a sequence of frames.

Left out: `timer_read32() == 0` in `wireless_connect` (a key press without effect,
which the model allows as no step); `firstDisconnect` in the first second after a
wrap of the clock, 49 days later; `lkbt51_param_init`, which sets no state of the
firmware; `EVT_HID_SET_PROTOCOL`, which no code produces; the empty report of
`bt_transport_enable(false)`, which cannot happen since `transport` has already
changed when it is called.

### Battery

`Check` is the sampling branch of `battery_task`, with the clearing by the cable
at its end; `ClearOnCable` is that clearing alone. `EmptyCount` and
`CriticalCount` are the counters that `battery_check_empty` and
`battery_check_critical_low` leave. `Deliver` is `battery_calculate_voltage`; the
backlight's share of a measured voltage is part of the value that is delivered.
The counters are `uint8_t` and the voltages `uint16_t`: `WidthAssumption` is what
keeps both from wrapping; the firmware's constants satisfy it, and so do those of
the run, which TLC evaluates it for.

### HostKeys

Adds only the slot of the key pressed last, as history. The static `host_idx` of
the key handler (`lemokey_wireless_common.c` 59) hides the variable the pairing
task reads, so the task passes slot 0. `PairsSlotOfKey` shows that the module is
then on the slot of the key all the same. Exempt are keys for which
`wireless_connect_ex` does nothing (a critical battery, or a connection whose end
is still queued) and the skipped switch of finding 3. `conn_agree` runs this module.

### Nkro

`SwitchNkro` is the exchange in `set_transport`, `EventNkro` what three event
handlers do, `ToggleNkro` the NKRO key. `usbChoice` and `mixed` are history;
`mixed` marks the ways in which a wireless setting gets to USB: a direct switch between the wireless transports, and an event handled while
the transport is not a wireless one.

### Indicator

`IndicatorSet` is `indicator_set` with its two statics, `TimerCb` one step of
`indicator_timer_cb`, `IndicatorTask` the end of a step. A step lasts any time.
Which LED a slot is, the drawing, and the indications of USB and of the OS switch
are left out. `ConnectIndication` may leave the indication alone although nothing
is shown, since a low battery indication counts as running too.

### LowBattery

Time goes in steps of a blink period. The clock counts a short day. A second
indication within the interval is possible in two ways, and `NotTooOften` exempts just
these: the clock shows 0 at one of the starts, or the indication was turned off in
between (`turned_off`). Turning it off forgets the start (`indicator.c` 570); a
disconnect, a sleep from pairing, the critical battery (`wireless.c` 285, 325, 469) and
the cable (`battery.c` 259) do so.

### Lpm

The phases are those of the main loop and, between the decision to sleep and WFI,
the points at which a pin may change: see the head of the module. The interrupt
hardware is `armed` and `pr` (EXTI) and `nvic` and `ispr` (NVIC), and `Edge` is
what an edge does to it. Before `chSysDisable` the handlers run at once; they
disable their vector, which is why rows that share one matter. The loop in
`stop_mode_entry` writes `0x01UL < j` for a shift, so it never clears an interrupt
of the rows, and an edge that comes just before the clearing still wakes the
board: `NoLostWakeUp` depends on that, as its mutant shows. A frame or a key that
comes before interrupts are disabled is handled then and may not end the sleep
that follows, and the property starts at `chSysDisable`. The module's and the cable's
pin have vectors of their own on both boards, and `VectorAssumption` says so: with
one shared with a row, `lowpower_before_config` would enable it again after its
handler has disabled it, and the invariants would not hold. Times above
`RUN_MODE_PROCESS_TIME` are alike.

### PacketReader

A read is the set of headers in it, wherever 0xAA 0x57, a length and its
complement stand. Lengths below 3 make the code compare bytes of the header
itself, which `SumOk` spells out; whether the checksum of a longer packet fits is
a free choice.

### Keys

Time goes in ticks of a little more than 250 ms. `registered` is what the host
takes for pressed. Only the keys with a meaning to this code are modelled; KC_LWIN
and KC_LCMD are the same code. A handler that returns false ends the chain.

### Debounce and EagerKeys

`age` is the time since `last_time`. `MatrixTask` is a scan with any state of the
switches; `MatrixInit` is the initialisation after a sleep, which renews the
counters and keeps the flags. `EagerKeys` says that a key takes the level of its
switch at a scan unless it changed less than `DEBOUNCE` ago. The refinement maps
the time a key is deaf to its counter less `age`. Ghosting is off on these boards,
so `matrix_previous` follows the matrix.

### WearLeveling

A step is one call of the backing store, so power may fail between any two. The
log is a sequence of pairs of bytes with the encodings of
`wear_leveling_internal.h`. The loops of `wear_leveling_write_raw` and
`wear_leveling_playback_log` are the recursive functions `EntriesFrom` (over the bytes
still to be written) and `Play` (over the slots of the log): `Entry` and `Takes` are one
round of the one, `Decode` of the other. A log is played back as it reads (`Half`),
which is on behind the store where the code does. The hash of the data is the data.
`Earlier` splits the store into its last sector and those before. `failed` remembers that
some call has returned a failure. `CutOff` is what is left of an entry that power
loss interrupted. Both Keychron boards keep their settings in an EEPROM on I2C
(`p1/rules.mk` and `colorful/rules.mk` 20, where `wear_leveling` is commented out), so
neither build contains this code; it is the alternative that the comment there names.

## Runs

| Run | Module | Instance | Distinct states | Shows |
|---|---|---|---|---|
| `radio_queues` | `MCRadio` | rings of 4 slots, 3 values; buffer of 64, lengths 0 to 3, 59 and 60, up to 2 headers a read | 7 thousand | the rings implement their queues, through full, empty, wrapped and cleared; the header of a packet handled was in that read; a length below 3, which wraps around, reaches no handler that looks at data; only a length that does not fit stops the reader |
| `report_order` | `MCReportBuffer` | 2 slots, 3 reports, 2 retries, lost packets, late answers, wrapping clock, reports past the queue | 2.1 million | bounded retries, own link only, snapshots in order |
| `report_kept` | `MCReportBuffer` | as above, one link, answers read within the millisecond, nothing past the queue, `FairSpec` | 106 thousand | no report disappears but those the firmware gives up, the queue drains |
| `report_lost`, `report_macro` | `MCReportBuffer` | the smallest that show it | | findings 1 and 2 |
| `conn_agree` | `HostKeys` | 2 bluetooth hosts and the receiver, event queue of 2, one repetition, one reset | 1.5 million | agreement, LEDs, silence on USB and on a critical battery, the host of the transport, the slot of a long press |
| `conn_shown` | `MCConnection` | the same with one frame on its way; the setting with 1 host and the receiver | 4.0 million | an indication shows the connection, a connection is shown, USB keeps its NKRO setting |
| `conn_live` | `MCConnection` | `ConnFairSpec`, 1 bluetooth host and the receiver; the indication without resets and with one frame at a time | 113 thousand | typing leads to a connection, an indication ends |
| `conn_skipped` | `Wireless` | 1 bluetooth host and the receiver | | finding 3 |
| `power` | `MCPower` | `FairSpec`; the firmware's thresholds, nine voltages, counts of 2, 4 and 3; a day of 24 periods, an interval of 9, 3 blinks; 2 rows on one vector, module and cable | 91 thousand | warning first, critical stays, level agrees, low is noticed; does not blink twice in an interval in which it is not turned off; no lost wake-up, sleep only when quiet and again and again, USB is back |
| `key_path` | `MCKeyPath` | `FairSpec`; 2 keys, `DEBOUNCE` 4, counters up to 6; the five keys of both combinations, and five that share `KC_LGUI` | 358 thousand | each key is debounced by itself and acts when it rests; no accidental reset or test, nothing but J and Z stays pressed |
| `wear` | `MCWearLeveling` | 4 bytes, 4 slots, writes of 1 and 2 bytes, every call may fail, power may fail between any two | 461 thousand | what is lost is reported, no older value comes back |

Why the bounds are enough. A ring of 4 slots is the smallest in which head and
tail wrap independently with more than one element; the proofs cover all sizes.
Three reports on two slots and two links give a report outstanding, one waiting
and one refused, and a link change with each; two retries separate the first, a
middle and the last transmission. An event queue of 2 overflows in one transport
switch; two bluetooth hosts are needed for a change of host within a transport,
a third would be symmetric. `MaxFrames` only bounds when keys and the module may
add frames, never what the firmware reads. The timing constants keep the order of
the code's values (an interval below, at and above the retry gap). Battery needs
the voltages at each threshold and its neighbours, and counts in the order of the
firmware's 10, 20 and 15 (the safety properties are proved for all).
`Lpm` needs two rows because vectors are shared, and times only up to the limit and one more. A day of
24 periods holds the interval and the blinking several times, at every offset from
midnight. `PacketReader` has the lengths around both limits with every value of the
bytes that are compared there; two headers in a read are needed for the loop
without a break. In `Keys` 8 ticks of holding leave room for the whole reset
indication. `DEBOUNCE` below `UINT8_MAX` covers the cap on the elapsed time,
and the proofs cover every value. A log of 4 slots is filled, consolidated and
filled again with every kind of entry at its end; the bounds of the addresses are
lowered so that all three kinds of entries occur. `wear` has one sector (`Earlier`
is 0; see the observations for more) and follows a behaviour up to the first failure
that was reported, after which nothing is promised. `QueueDrains` is checked with
answers read in time and nothing past the queue, the instance `NotForgotten` needs;
the module may still lose, refuse or never answer every transmission.

Deadlock is checked in every run.

### Fairness

`report_kept`: weak fairness of `report_buffer_task`, of the clock and of reading
answers, since the main loop runs for ever; nothing is assumed of the module, the
keys or the link. `conn_live`: weak fairness of the main loop; strong fairness of
`SendKeyboard` (the property is about a user who types), of `Reconnected` (a host
asked again and again answers some time), of `PairingTimeout` (the module ends
pairing after 180 s, set in `lkbt51_param_init`) and of `IndicatorTask`, whose turn
comes in every round once the step is over. `KeepsConnecting` speaks of
behaviours in which the user leaves the mode keys alone and the battery lasts,
from some time on. `power`: weak fairness of `battery_task` and of the clock, strong
fairness of the answer to a measurement that is asked for again and
again; for sleep, weak fairness of the main loop, of time, and of the end of
indications and of the backlight, which their own timers bring about, and nothing of
keys, frames or the cable. `key_path`: scanning, where a variable that changes with
every scan makes one that finds nothing new a step too, and time.

## Findings

1. `report_lost`: `ack_handler` (`lkbt51.c` 691) takes any answer for one to the
   outstanding report. A media key sent past the queue is acknowledged while a key
   report, refused because the module's FIFO was full, waits for its retry: the
   retry is cancelled and the key report is never sent. The buffer exists "to fix
   key press lost issue" (`report_buffer.c` 22).
2. `report_macro`: the ring holds one report less than its size, so a macro of
   `REPORT_BUFFER_QUEUE_SIZE` / 2 characters, the length `report_buffer.c` 23-26
   allows, loses its last key release.
3. `conn_skipped`: after 2.4 GHz connected, USB key, 2.4 GHz key, pressed before
   the DISCONNECTED event was handled, `wireless_connect_ex` (`wireless.c` 176)
   returns early on the old state. The switch has disconnected and does not
   reconnect until a key is typed, against `transport.c` 83. `HostOfTransport` is
   therefore stated for switches that did connect, and `conn_live` shows that
   typing repairs it.

### Observations

Met while modelling, in the models as the code has them, and excepted by name in the
properties they would break:

- The reader: a header whose length is above 59 and fits its complement (`lkbt51.c`
  880) sets `wait_for_new_pkt` to false and never fits at 890; no packet is handled
  until a reset. `StoppedByLengthOnly` shows that nothing else does this.
- Sleep: the cable is tested (`lpm.c` 126) before its event is enabled (143); plugged
  in between, it leaves the board asleep, where the comment at 125 says otherwise. A
  row is armed for the falling edge only (`lp_sleep.c` 150), where the comment at 148
  says both.
- NKRO: a switch during PIN code entry stores NKRO as off for the wireless transports
  (`transport.c` 172), and `wireless_enter_connected` loads that where its comment
  (`wireless.c` 240) means to turn it on.
- Indicator: `wireless_connect` (`wireless.c` 161) shows slot 30, the code for the
  last host, while the module has not named it; `indicator.h` 79 bounds the slots
  by 6.
- Low battery: turning the indication off sets `rtc_time` to 0 (`indicator.c` 570), so
  after a disconnect (`wireless.c` 285) and a new connection a key press makes the
  battery blink again at once, well within `LOW_BAT_LED_TRIG_INTERVAL`. And `rtc_time`
  0 stands for "no indication yet" and is also a time of the clock (`indicator.c` 562),
  so an indication may come back before the interval.
- Keys: J or Z pressed before Fn and released after it: the release is skipped
  (`factory_test.c` 161, 180) and the key stays pressed at the host. `OnlyJAndZStuck`
  shows that these two are the only keys that can stay.
- Wear leveling: an entry of several halfwords cut off by a loss of power is completed
  with whatever is behind it (`wear_leveling.c` 512), which is read beyond the end of
  the store when the entry was the last. A write that failed to unlock the store has
  already changed the cache, so repeating it is skipped (687) and succeeds. After a
  failed erase the next entry goes behind the store (345). With several sectors
  (`Earlier` above 0) entries left in a later one by an erase that was cut off
  (`wear_leveling_efl.c` 105) are played back once the log reaches them again.

## Proofs

Each row's last column is what is inductive, and why the property alone is not.

| Theorem | States | Inductive invariant |
|---|---|---|
| `EventQueueSafe`, `ReportQueueSafe` | indices in range, only what was put in between them | the conjunction itself, `EventInv`, `ReportInv` |
| `EventQueueImplementsFifo`, `ReportQueueImplementsFifo` | the rings implement their queues | the same; each step maps to a step of the queue by the lemmas at the top of `Radio_proofs` on what advancing head or tail does to the contents |
| `PacketsAreRead`, `OnlyLengthStops` | `HandledWasRead`, `StoppedByLengthOnly` | `ReaderInv`: a reader that does not look for a packet was stopped by the length it remembers, which is why the length of one read is never used with the bytes of another |
| `RetriesBounded` | `TypeOK` and `RetryBudget` | `TInv`: also, what is outstanding is a report |
| `ReportsStayOnTheirLink`, `SnapshotsInOrder` | `SameLink`, `NoStaleSnapshot` | `OrderInv`: numbers grow from `newest` over the outstanding report and the queue to `nextId`, all on the current link. Neither property is inductive: order needs to know that the queue is sorted and above the outstanding report |
| `NoReportForgotten` | `NotForgotten`, assuming no report bypasses the queue and `PromptAcks` | `AnswersOfThisReport`: an answer not yet read was given in this millisecond, to the outstanding report. Finding 1 is what happens without the assumption. A report taken while `timer_read32()` is at most 2 counts as given up (`report_buffer.c` 121), like one refused or cleared |
| `CriticalKeepsSilent` | `TypeOK` and `SilentWhenCritical` | the conjunction, `WInv`; one lemma per group of actions |
| `ConnectionAgrees`, `LedsFollowHost` | `Agreement`, `LedsOfThisHost` | `AInv`, about the stream of queued events followed by unread frames, of which a push to the full queue drops the first: the last status in it that tells of a link fits the module; if there is none, the firmware knows the module's state; an LED status is followed by a DISCONNECTED or belongs to the connected host; and what the polling of a transport switch leaves in the stream contains a disconnect |
| `UsbIsSilent`, `TransportObeyed` | `SilentOnUsb`, `HostOfTransport` | `TInv` with `AInv`: on USB the module is idle unless it was made to pair; a switch that did connect has moved the module to a slot of its transport |
| `IndicationShowsConnection`, `NewConnectionIsShown` | `ShowsConnection`, `ConnectionIsShown` | `IndInv`: `AInv` and two invariants, described below |
| `UsbKeepsItsSetting` | `UsbSettingKept` | `NkroInv`: on USB the setting is in the keymap, elsewhere in `nkro.usb`, unless it was mixed up |
| `LongPressPairsItsKey` | `PairsSlotOfKey` | `KeyInv`, with `AInv` and `TInv`: a key that asked for a slot has moved the module to it, or will when the polling ends |
| `WarningComesFirst` | `BatteryTypeOK` and `WarnedFirst` | `BInv`: the critical counter is ahead of the empty counter only when the latter is full, and a full one has warned |
| `CriticalLatches` | `StaysCritical` | `BInv` |
| `LevelIsRight` | `LevelAgrees` | `BInv` for the types; then a statement about `Percentage` on all voltages, from lemmas on products and integer quotients, range by range |
| `LowBatTypes`, `BlinksSeldom` | `LowBatTypeOK`, `NotTooOften` | `LowBatInv`: while the interval runs and the indication was not turned off `rtc_time` is not 0, and the clock has not passed it by more than the time since the start, or has started again |
| `LpmTypes`, `WakeUpsAreKept` | `LpmTypeOK`, `NoLostWakeUp` | `LineInv`: which lines are armed at each step of going to sleep, that a line left pending has its vector disabled, and that an edge on an armed line since interrupts were disabled is pending at the NVIC |
| `SleepIsEarned` | `SleepsWhenQuiet` | `LpmInv`: on a wireless transport the timer is not ahead of the time without a key |
| `PowerTypes` | `TypeOK` of `MCPower` | the invariants of its three parts |
| `Types`, `NothingIsForgotten` | `DebounceTypeOK`, `NothingForgotten` | their conjunction: a flag is needed for every running counter, and a running counter for every key that differs from its switch |
| `Refines` | `IsEager` | the same; each scan maps to a scan of `EagerKeys`, by the lemmas that the counters brought up to date are what each key is deaf for, and that a scan without a transfer flips none |
| `HoldsAreReal` | `HeldLongEnough` | `HoldInv`: the timer runs only while the bits are a combination, the bits are among the keys held, and the timer is not ahead of `heldFor` |
| `WearTypes` | `TypeOK` of `WearLeveling` | `Types`: the bytes of the log and of the halfwords still to be appended are bytes, and so is what playback makes of them; a write that is being appended has a slot left |
| `NothingLost`, `NothingOlder` | `KeptUnlessReported`, `NothingStale`, for a store of one sector | `Kept`, described below |
| `OnlyJAndZ` | `OnlyJAndZStuck` | `HostInv`: every code registered belongs to a key that is held, to Siri while its timer runs, or to J or Z |

What is shown depends on every status still in the stream and on its order, which
`AInv` does not tell. `TellInv` does: a RESET in the stream is followed by a
DISCONNECTED; between the connections to two hosts there is the end of the first; that
the module is reconnecting is the last link status in the stream, or known; behind the
events a transport switch collected comes the end of the connection, so the one that a
full queue loses does not matter; and a SLEEP does not come right after a connection,
since the module sleeps only from pairing. `ShownInv` adds the indication: its
configuration is the one of the static `current_state`; it fits the connection, or a
status whose handler calls `indicator_set` is still in the stream; while a transport
switch polls nothing runs; a connection that is shown ends in the stream before one to
another host is told; and `current_state` is CONNECTED after another status was handled
only while the end of the connection is still in the stream. The lemmas on `Thinned`
say what reading and handling do to such statements: places keep their order, the first
may be lost, one may be repeated. TLC checked these parts of `IndInv` before they
were proved, with two hosts and a queue of two events.

That no setting is lost needs to know at each step of a call what the log will read as.
`Kept` says it, until a call fails: the log plays back without a fault, and behind the
slot where that ends it is empty; between calls it plays back to the cache; while a
write is appended, what lies before the entry that is being written plays back to the
old bytes with those written so far, and the rest of that entry and the entries of the
bytes that follow are what is still to be appended; while the store is consolidated,
data, hash and log are as far as the step tells, the cache being the only copy of the
new bytes until the hash is written. `NothingStale` then follows step by step. The
proof rests on three groups of lemmas. What is encoded is decoded again, for each kind
of entry. The log with one more complete entry plays back to what it did before, with
the bytes of the entry copied over. And the recursive functions exist and unfold: an
induction over slots is replaced by a least (or greatest) slot that is a counterexample
(`Downward`), which the theorems about well-founded relations give for sets. TLC checked
`Kept` on the whole instance of `wear` before it was proved.

The assumptions are those of the modules: a ring has at least 2 slots, the hosts are
distinct numbers, shutdown < empty < full, the empty count is at most the critical
count, the interval of the low battery indication fits into a day, the interrupt
vectors of the module's and of the cable's pin are their own, `DEBOUNCE` is positive
and at most `UINT8_MAX`, what is written to the EEPROM and what lies behind it are
bytes, and its addresses fit into the 19 bits that an entry has for them. All theorems
hold for every value of the constants that satisfies these; `NothingLost` and
`NothingOlder` assume `Earlier = 0` besides, a store of one sector. With several,
`KeptUnlessReported` is false, see the last of the observations, and so is the invariant
of both theorems, that the log is empty behind its end. TLC finds no violation of
`NothingStale` with `Earlier = 2` on the instance of `wear` either (5.1 million states):
where entries are left over they count as cut off there.

The type invariants `EventTypeOK`, `ReportTypeOK`, `DebounceTypeOK` and `TypeOK` of
`ReportBuffer` and `Wireless` are parts of these theorems and are not run as well; that of
`MCPower` and that of `WearLeveling` are proved and run.

Only model-checked: the liveness properties (`QueueDrains`, `KeepsConnecting`,
`LowIsNoticed`, `SleepsAgain`, `UsbIsBack`, `IndicationEnds`,
`StableIsActedOn`), which are out of the prover's reach.

## Not modelled

USB itself; the LED drivers and what is drawn on them (which LED an indication
uses, the battery level animation, the indications of USB and of the OS switch); the
firmware update channel of the radio module; the answers of the factory test
commands; the shift register of `common/matrix.c`, which is in no build of these
boards; the debug UART. The callback lists of `lemokey_task.c` are compiled only with
`LEMOKEY_CALLBACK_ENABLE`, which no board defines. `wireless_transport.c` and the
`bluetooth/` directory are in no board's build. In the wear leveling: reads that fail
(the result of reading the checksum at `wear_leveling.c` 227 is ignored), the
erase of a store that is still locked at the start, which depends on the driver, and
write sizes of 4 and 8 bytes. The rest of the repository is upstream QMK, vendored
libraries and the definitions of other boards, several million lines that the fork
does not change; only where its own code meets them are they modelled
(`clear_keyboard`, `matrix_task`, the debouncer, the NKRO key). See the components of
`PROJECT.json` for each part and its reason.

## Plan

Done: every module of the table above, with the proofs listed. Next: a composition of
`Wireless` and `ReportBuffer`, for a displaced DISCONNECTED event that leaves the report
buffer uncleared.
