# Verification of the 1608 headset firmware

This directory models parts of the firmware in `src/`: a Bluetooth headset (and,
in another role, a Bluetooth transmitter) on a BES best1000 chip, running RTX
with a handful of threads and many interrupt handlers. The modules are TLA+; TLC
checks them on small instances, and TLAPS proves some of the results for every
value of the constants. `PROJECT.json` names every run, mutant, finding, hazard
and theorem, and maps every definition to the lines it stands for.

## 1. Inventory

### The program

| Component | Source | State | Operations |
|---|---|---|---|
| system frequency arbiter | `hal_sysfreq.c`, `app_utils.c` | request per user, `top_user` | `hal_sysfreq_req`, `app_sysfreq_req` |
| clock and PLL unit | `hal_cmu.c` | frequency, selected PLL, map of users per PLL | `hal_cmu_pll_enable/disable`, low frequency mode |
| hardware timer list | `hwtimer_list.c`, `hal_timer.c` | free, active and fired lists, state per timer, one hardware timer | alloc, free, start, stop, the interrupt handler |
| media manager | `app_bt_media_manager.cpp` | active sounds, current sound, device of music and of call audio | start, stop, switch, stop prompts, update |
| audio queue | `app_audio.cpp` | list of at most 5 entries | open, close, close all |
| streams, prompt player | `app_bt_stream.cpp`, `app_media_player.cpp` | open stream, running players, end-of-prompt flag | open, close, close all; end of a prompt |
| hands-free glue | `app_hfp.cpp` | call, call setup | callbacks of the Bluetooth stack |
| A2DP sink glue | `app_a2dp.cpp` | stream state | callbacks of the Bluetooth stack |
| application core | `apps.cpp` | power-off flag, ten-second timers | voice report, power-on and power-off sequences |
| app_thread | `app_thread.c` | mailbox of 20 messages, one handler per module | put, the thread |
| Bluetooth application | `app_bt.cpp`, `besmain.cpp` | reconnection state, retries, profile flags | reconnect, role, access and sniff managers |
| Bluetooth thread mailbox | `app_bt_func.cpp` | mailbox | requests of other threads |
| nvrecord | `services/nvrecord` | paired devices in RAM, dirty flag, flash sector | add, find, delete, flush, clear |
| audioflinger | `audioflinger.c` | state and half-buffer index per stream | open, start, stop, close, DMA interrupt, thread |
| keys | `hal_key.c`, `app_key.cpp`, `app_keyhadle.cpp` | debounce and click state | GPIO interrupt, debounce timer, events |
| sleep | `hal_sleep.c` | busy masks, locks | idle thread |
| battery and charger | `app_battery.cpp` | measuring state | timer, mail, charger interrupt |
| A2DP source and line-in | `app_a2dp_source.cpp`, `cqueue.c`, `lockcqueue.c` | PCM queue | capture interrupt, encoder thread |
| inter-processor messages | `hal_intersys.c` | two message lists, flow control | send, receive, done interrupts |
| ring merge | `app_ring_merge.cpp` | running flag, buffer | start, more data |
| sound data of the players | `a2dpplay.cpp`, `voicebtpcmplay.cpp` | music queue, jitter buffers | store, decode |
| LED, factory modes, overlays, drivers | `app_status_ind.c`, `app_factory.cpp`, `app_overlay.cpp`, `hal_*.c` | tables and registers | |

Vendored, third-party or generated and left aside: the RTX kernel and CMSIS, the
mbed layer, the BLE and Bluetooth profile stacks, the file system, codecs and
speech processing (`services/multimedia`), jansson and the libc subset, the flash
programmer under `tests/`, and the copies of older sources and libraries at the
top of the tree.

### How the parts interact

* Bluetooth callbacks, keys, battery and the power-off sequence do not act on the
  sound. They post *requests* to the media manager into the mailbox of
  `app_thread`. The manager decides, and posts *messages* to the audio queue into
  the same mailbox, behind whatever already waits. The queue opens and closes the
  stream. A prompt that runs out of data posts its own CLOSE, and when the last
  prompt is closed the queue posts STOP back to the manager.
* The call state (`hfchan_call`, `hfchan_callSetup`) is written by the Bluetooth
  thread and read by the manager in `app_thread`, with no lock.
* Everybody who needs cycles asks the frequency arbiter; the arbiter, the audio
  driver and the USB driver share the PLLs.
* Keys and the idle thread share the hardware timer list, from thread and
  interrupt context, including interrupts that preempt its handler.
* The Bluetooth thread, a timer's handler and the factory mode change the paired
  records; the idle thread and, at the end, the main thread write them to the flash.
* The retry timer asks the Bluetooth thread for a profile through its mailbox; the
  profile callbacks, in that thread, stop and start the timer.
* `app_thread` starts and stops the music; the Bluetooth thread fills its queue,
  audioflinger's thread decodes it under audioflinger's mutex, and the DMA interrupt
  drives that thread.

### What is hard here

* **Requests and their execution are apart.** A decision is stored at once, its
  effect is a message that may wait behind the one that revokes it.
* **Shared variables without a lock**: call state, the frequency table.
* **Interrupts that preempt the timer handler** between the hardware's expiry and
  the handler's critical section, and clients that act between two callbacks.
* **Lists with special ends**: the head that is already overdue, the last timer.
* **Limits** (list of 5, mailbox of 20) that end in an ASSERT, which stops the
  program.
* **Erase before write** in the flash, and writers that are not locked against it.
* **A timer racing connections**: the phone may connect by itself, refuse, or be
  lost again between the timer, the mailbox and the answer to a page.
* **Three threads and an interrupt on one stream**: signals left from an earlier
  stream, a producer and a decoder that wait for each other, a stop that needs the
  stream to go on.

### What makes each component correct

* Arbiter: the clock is at least as fast as every granted request, a fast clock
  has a powered PLL, a PLL is powered exactly while it is used, and it is given
  back when nobody needs it.
* Timer list: every timer is in the list its state names; every active timer
  fires or is stopped; not early, not late by more than a stated number of ticks;
  a stopped timer is not called back; the code's ASSERTs hold.
* Media path: one player runs; what the manager believes, what the list holds and
  what is heard agree once everything has been handled; the music comes back
  after prompts; a prompt ends; no table is indexed by an unknown device.
* nvrecord: what is restored at power-on is one whole earlier table, or nothing; what
  is not marked for writing is in the flash. (The code keeps the first but for two
  cases, see section 6.)
* Reconnection: the phone is paged a bounded number of times, nobody asks for it
  again once the reconnection is over, and a reconnection ends.
* Music: the half that is chosen to be filled is not the one being played, the queue is
  a queue, the
  decoder never reads memory that was given up, the amplifier is on only while it is
  fed, and nobody waits for ever.
* Keys: one event per click, no timer used after it was freed. Sleep: no sleep with
  work pending. Inter-processor: every message is acknowledged once.

## 2. Plan

Done, in this order: `SysFreq` (small, proved about), `HwTimerList` with
`HwTimerPunctual` and the abstract `TimerService`; the media path `MediaManager`,
`AudioQueue`, composed with their environment in `AudioPath`; the records,
`NvRecord` with the abstract `RecordStore`; the reconnection, `Reconnect`; the music,
`AudioFlinger` and `MusicQueue` composed in `Music` with the abstract `MusicFifo`.

Not done, in the order of what they would add: the key driver on `TimerService`; the
mailbox's capacity in `AudioPath`; sleep; the source's PCM queue on the queue of
`MusicQueue`; inter-processor messages; ring merge; battery.

Proved, one module per component (section 5): `SysFreq_proofs`, `HwTimerList_proofs`
and on it `HwTimerPunctual_proofs`, `AudioPath_proofs`, `NvRecord_proofs`,
`Reconnect_proofs`, `Music_proofs`, with the facts about lists they share in
`ListLemmas`. Of the runs' safety properties what is heard in a settled state
(`QueueIsHeard`, `CurrentIsHeard`, `MusicHeard`, `VoiceHeard`) is proved for one of the
three environments of `audio_heard`, music and the phone's audio; the two with
prompts are left.

## 3. Modules

### SysFreq

`perUser` is `sysfreq_per_user`, `topUser` is `top_user`, `cmu` holds the frequency
of `hal_cmu.c`, the PLL selected for the system clock, and per PLL its users and
whether it is powered. The point of interest is that `hal_sysfreq_req` writes the
table *before* `int_lock`: `Store` and `Settle` are two actions, with `pending`
remembering the request in between. `app_sysfreq_req` holds the lock throughout and
switches the PLL around the request: it is one action, `AppReq`. `Device` is the
audio and USB drivers taking and releasing their PLL. `Ask` gives the frequencies
a user's call sites name.

### HwTimerList, HwTimerPunctual, TimerService

`Timer` is any finite set (the code has an array of them).
`free`, `active`, `fired` are the three lists as sequences, `state` and `time` the
fields of a timer, `hw` the hardware timer: enabled, ticks left, ticks since its
start, interrupt pending. Every operation of the file is one critical section and
one action: start has three cases (`StartAlone`, `StartFirst`, `StartLater`), stop
five (`StopHead`, `StopExpiredHead`, `StopInner`, `StopLast`, `StopFired`).
`hwtimer_alloc` marks the timer after `int_unlock` and is two actions. The handler
is `IrqEnter` (the hardware interrupt is cleared, the lock not yet taken), then
`IrqSpurious` or `IrqFire`, then one `CallbackReturn` per callback. Clients may act
between any two of these steps: the GPIO interrupt has the highest priority and
preempts the handler, and callbacks run with interrupts enabled.

`HwTimerPunctual` adds two history variables for when a timer may fire and is due.
`TimerService` says what a client may rely on, without lists and ticks;
`HwTimerList` implements it (`ServiceSpec`) under the mapping FREE/free,
ALLOC/stopped, ACTIVE and FIRED/armed, CALLBACK/calling.

Stopping the last of several timers executes `next->next->time += timer->time` with
`next->next == NULL`. Address 8 is in ROM; the model allows both outcomes the
hardware can produce, a write that is dropped (`StopLast`) and a trap
(`StopLastTraps`, `fault`).

### MediaManager, AudioQueue, AudioPath

`MediaManager` has one action per request of `app_audio_manager_handle_process`,
with the branches of `bt_media_start` and `bt_media_stop` in the code's order.
`media` is `bt_meida`: the active sounds, the current one, and whether the device of
the music and of the call audio is known. The build has one phone
(`__BT_ONE_BRING_TWO__` undefined). `Decide(m, requests)` is the shape of every
outcome: the new manager state and the messages put behind those that wait.

`AudioQueue` has the list with its filter and its remove callback, and the stream:
`player.stream` is the one `gStreamplayer` names, `player.run` the players whose
`isRun` is set, `player.ending` the prompt player's end-of-data flag.

`AudioPath` composes both with their callers. A callback of the Bluetooth thread is
a sequence of steps (`callback`): `app_thread` has the higher priority, but its
handlers sleep (fade-out, `osDelay`, flash), so a callback may be cut between any
two posts. `happens` is the set of events of a behaviour; `Environments` the sets a
run considers. A failed ASSERT stops the program: `failed` names it and nothing
happens after it.

### NvRecord, RecordStore

`ram` is the table in the RAM pool, `flash` the sector, `is_update` the flag, `envp` the
cached pointer to the environment. Nothing locks the table, so a change is as many
steps as the code has between which another context may act. `bt` is where the
Bluetooth thread stands: an add takes the device's old record out (`AddBegins`),
evicts the oldest (`AddEvicts`), inserts (`AddLinks`, `AddEnds`) and marks (`AddMarks`); a
link key that is dropped deletes a record (`nv_record_ddbrec_delete`); the
reconnection at power-on deletes the latest records without a profile one at a time,
the latest first (`DropUseless`); a profile sets its flag and marks
(`ProfileConnects`, `nv_record_touch_cause_flush`). Every deletion is a stretch of
writes (`bt.at = "unlinking"`) that `Unlinked` ends and `DeleteMarks` marks; every
insertion is one too (`"linking"`, ended by `AddEnds`). The environment is written
through the pointer and marked afterwards (`EnvWrite`, `nv_record_env_set`).

There are two flushes. The idle thread's hook runs with interrupts off and only when no
other thread is ready, so when nobody is in the middle of a change. The main thread
flushes as the last thing of `app_deinit`; a shutdown has raised it to the highest
priority, so it may preempt the Bluetooth thread in the middle of an add, and whatever
it preempts never continues. `Images` is what the pool may look like then: the table as
it was, or a list of which some writes are done and others not, `Damaged`, one value for
all of these, saved under a valid CRC like any other pool. A third flush, in `app_thread`
(`app_audio_switch_flash_flush_req`), has no caller. The flush is erase, then write;
power may fail in between (`PowerFails`), and the next start finds no valid CRC and
begins with an empty table.

The factory mode's rebuild (`SectorClear`, `RebuildDone`) makes the table anew and
leaves the environment's pointer as it was. `nv_record_env_get` refuses NULL only, so
later writes go through it (`WritesEnv`): into free memory (`"stale"`), or, once an
addition has allocated there, into the list (`"overlaid"`), which damages it. What a
damaged list does is not followed: it may stop the program at an ASSERT of
`list_ext.c`, after which the system starts again, or go on (`UsesDamaged`).

`RecordStore` says what a user may expect: operations on one table with its order
(a device is remembered, activated or forgotten, one at a time), a save that either
happens as a whole or leaves nothing, and a restart that reads back what was saved. A
save waits for a change that is under way. Two of its actions say where this ends: the
save at power-off does not wait (`LastSave`), and after a wipe the table may be damaged
(`Damage`, `BeginSave`). `NvRecord` implements it (`StoreSpec`): nothing else can damage
what is saved.

### Reconnect

`manager` is `bt_profile_manager[BT_DEVICE_ID_1]` (mode, counter, status per profile,
`has_connected`), `armed` and `due` the timer, `mail` the profile requests in the
Bluetooth thread's mailbox, `chan` what the stack has of each profile. The callbacks of
the two profiles run whole, in the Bluetooth thread. `connect_timer_cb` is always
NULL in this build (one phone, `BRING_TWO` undefined). The stack is closed code:
its answers follow the comments in `hf.h` and `a2dp.h`. A link is lost for all
profiles at once, and each hears of it in a step of its own, so that requests,
answers and the timer fall in between.

`hfp_act` is never set in the sink role: the statement between `else` and
`hfp_act = true` at `app_bt.cpp:1198` is commented out. The model does what the code
does; finding 4 is the consequence.

### AudioFlinger, MusicQueue, Music, MusicFifo

`AudioFlinger` is one playback stream on the internal codec. `pp_index` is the half
the code believes is played, `playing` the half the DMA plays. The thread wakes
(`ThreadWakes`), takes the mutex and chooses the half (`ThreadLocks`), runs the
handler, takes one step of the amplifier's fade (`PostWaits`, `PostMoves`) and
unlocks. What the application does under the mutex is one action, enabled when the
thread does not hold it; `af_stream_stop` gives the mutex back while the music fades
out and is two (`FadeOut`, `af_stream_stop`). The build sets
`AUDIO_OUTPUT_DIFF_DC_CALIB` and `AUDIO_SW_OUTPUT_GAIN`; the states that end by time
or by samples may stay (`Timed`). The interrupt may come at any time, more than once
while the thread fills a half.

`MusicQueue` is `cqueue.c` and its two users. `store_sbc_buffer` is cut at every
access to shared state: the look at the cache's state, the insertion, the switch to
OK together with the request for a signal, `osSignalClear`, the wait. The decoder is
cut at every lock of the queue: peek, decode in place, remove. A cell holds a packet,
which is what the handler needs for half a buffer; the pieces it is decoded in are
one. What the bytes outside the queue hold is one value, `"free"`.

`Music` adds `bt_sbc_player`, step by step, and `pool`, whose the memory of
`app_audio_mempool` is: `PlayOther` stands for another player that takes it.

`MusicFifo` is a queue whose head is looked at and then taken. `Music` implements it
(`FifoSpec`) with the ring's contents as the sequence.

## 4. Runs

| Run | Instance | Shows |
|---|---|---|
| `sysfreq` | 4 users: key, USB, APP_0, APP_1 with the frequencies of their call sites | `Covered`, `FastClockHasPll`, `PllPoweredByUsers`, `PllDisabledIfCapable` |
| `hwtimer_list` | 3 timers, intervals of 1-2 ticks, interrupt late by at most 1 | lists and states agree, the counter's ASSERTs hold, active timers end, refinement of `TimerService` |
| `hwtimer_punctual` | the same with the history | `NeverEarly`, `NeverLate` |
| `hwtimer_trap` | 3 timers, up to 3 ticks | *violation* of `NoTrap` |
| `audio_path` | everything but line-in together, 2 prompts, list of 3, backlog 2 | `DevicesKnown`, `StreamInFront`, `EndWillClose` |
| `audio_heard` | three environments, 3 prompts, list of 3, backlog 3 | `OneStream`, `QueueIsHeard`, `CurrentIsHeard`, `MusicHeard`, `VoiceHeard`, `MusicReturns` |
| `audio_current` | music, audio without a call, prompts; the code's limits | *violation* of `NoCurrentWrong` |
| `audio_device` | the same | *violation* of `NoInvalidDevice` |
| `nvrecord` | 3 phones, 2 records, 2 environments; power failures | `SavedUnlessDirty`, `SavedInTheEnd`, refinement of `RecordStore` |
| `reconnect` | a known phone with music, the real 15 retries | `PagesBounded`, `NothingNewAsked`, `RetriesGoOn`, `OpeningEnds` |
| `reconnect_calls` | a new phone used for calls only | *violation* of `ReconnectEnds` |
| `music` | 2 packets told apart, a queue of 2, one retry | `DecoderOwnsQueue`, `SpeakerFed`, `FillsOtherHalf`, `PutReturns`, `MusicGoesOn`, `PlayerReturns`, refinement of `MusicFifo` |

Every property of a passing run has a mutant in `PROJECT.json`: a small, plausible
error in a mapped definition under which TLC finds the property violated.

### Bounds, and why they suffice

* `SysFreq`: no bound; the state space is finite. Two drivers make two halves of a
  call overlap; two application users make a release while another still asks.
* `HwTimerList`: `Timer` has three elements so that a list has a head, an inner and
  a last timer; `MaxTicks` is 2 and `MaxLate` 1, so that a head can be overdue with
  followers due together and later; `Delta` is `HAL_TIMER_LOAD_DELTA`, 1. Timers are
  symmetric in the runs without liveness.
* Media path: `MAX_AUDIO_BUF_LIST` 3 and `MaxWarnings` 2 (in the code 5 and 4)
  keep the order of the limits; the findings use 5 and 4. `Backlog` bounds how many
  messages wait before somebody *outside* `app_thread` posts another one: 2 or 3 are
  enough for a request, the messages that answer it and the request that revokes
  it. Deadlock is not checked where an ASSERT stops the program or everything may
  be idle.

* `NvRecord`: one device more than there are records, so that an add evicts; two
  environments, so that a write of it is seen. The code keeps 10 records (`DDB_RECORD_NUM`); eviction takes the
  oldest whatever their number.
* `Reconnect`: `RETRY_LIMIT_CNT` is the code's 15. `MAILBOX_MAX` bounds the waiting
  requests: no event of the stack happens while 3 wait (`Room`); the timer alone puts
  one at a time. `PagesBounded` allows one page more than the limit, for a request
  that was waiting when the retries began.
* `Music`: two cells make a queue that wraps, is partly filled and full; `CACHE_OK` 2
  makes the cache wait for more than one packet; `TIMEROUT_CNT` 1 (5 in the code) has
  a retry and a last attempt. Two packets show an order and an overwriting.

### Properties of the timer list in ticks

`NeverEarly` and `NeverLate` state what the code achieves, and it is less than the
interval asked for. A timer may fire early by one tick for its own load, one per
restart of the hardware timer while it waits, and by the time the head was overdue
when it was started. It is late by at most the interrupt's delay and one tick,
except that each stop of an overdue head lets those due with it wait for one more
expiry.

### Environments of the media path

With calls and prompts together, `MusicHeard`, `VoiceHeard`, `QueueIsHeard` and
`CurrentIsHeard` do not hold, as consequences of the findings below and of the
order in `HF_EVENT_SERVICE_DISCONNECTED`, which posts STOP VOICE before the call
state is cleared and no UPDATE_MEDIA after it, so that music stays silent.
`audio_heard` therefore checks them in three environments in which the code does
keep them: music with prompts; music with the phone's audio, hands-free drops and
power-off; line-in with prompts and power-off. `audio_path` checks what holds with
everything together.

`Settled`, the premise of these properties, is no accident of the model: no
message waits, no callback is half done, no prompt plays, the power is on. Line-in
is excluded because as a source the headset does not reopen line-in after a prompt.

### Fairness

* `HwTimerList`: weak fairness for time and for the end of a callback, strong
  fairness for taking the interrupt and for the handler finding its timer. Another
  client can revoke the interrupt between expiry and handler by stopping or starting
  a timer; strong fairness says it does not hit that window for ever. The hardware
  keeps its interrupt pending and nothing disables it, so no more is assumed.
  Nothing is assumed of the clients.
* `AudioPath`: weak fairness for `app_thread`, for the Bluetooth thread's callback,
  and for the audio thread reaching the end of a prompt. RTX is preemptive with
  priorities, `app_thread` outranks the others and its waits are bounded. Phone,
  keys and user owe nothing. `MusicReturns` assumes that voice reports cease and
  that the phone's audio stays disconnected: a user who presses keys for ever may
  keep prompts playing for ever.
* `NvRecord`: weak fairness for the idle thread's flush and for the write after the
  erase. `SavedInTheEnd` is about a system left alone: the idle thread then reaches
  its hook again and again, if no driver keeps the clock for ever (which driver does is
  not modelled). Nobody has to add, to shut down or to lose power.
* `Reconnect`: weak fairness for the timer, its handler and the mailbox; the stack
  answers each attempt and reports a lost link. Neither the phone nor its user owes
  anything.
* `Music`: weak fairness for the DMA, for `af_thread`, for the Bluetooth thread and for
  the phone's data while it is asked for. Strong fairness for `app_thread`'s calls,
  which need a mutex that `af_thread` takes and gives back for every half (both have
  the same priority while music plays, and RTX then serves waiters in order); for the
  fade, whose times pass although a look may come too early; and for a frame that can
  be decoded: not all are damaged.

## 5. Proofs

All theorems are about the specification without fairness (`Spec`; `TimedSpec` with the
history of `HwTimerPunctual`), for every value
of the constants that satisfies the assumptions in the modules that declare them.
The pattern is always the same: the invariant that a run checks is not inductive;
`IInv` adds what it needs; `IInv` holds in `Init`, every action keeps it (one lemma
per action), and it implies the invariant. TLC checked each `IInv` on the instances of
section 4 before it was proved.

### Lists (`ListLemmas`)

The lists of the firmware are sequences without repetition, and their operations
insert, remove, split and take tails. `InsertDistinct`, `RemoveDistinct`,
`TailDistinct`, `FrontDistinct`, `ConsDistinct` and `SplitDistinct` say what each
operation does to the type, to distinctness and to the set of elements. Where an
induction would be natural, `LeastNatural` and `LargestNumber` take its place: every
nonempty set of naturals has a least element, so a counterexample would have a least
one.

### SysFreq

* `TypeCorrect` and `CoveredAlways` from `IInv`. `Covered` alone is not inductive:
  `Settle` grants what was stored earlier, so one needs that the stored request is
  still the table's entry (`PendingStored`). The lemmas `MaxReqBounds` and
  `GrantedCovers` carry the argument: the clock is lowered to the maximum of the
  *whole* table, half-finished calls included.
* `PllPoweredAlways` and `FastClockAlwaysHasPll` from `PInv`: powered exactly while
  used is preserved by every PLL operation, the switch included; and while the
  clock is above 52 MHz the multiplexer selects the audio PLL and the system clock
  is among its users. It rests on `DriverAssumption`: drivers ask for at most
  52 MHz, so that only `app_sysfreq_req`, which takes the PLL first, goes above.
* `PllDisabledAlways` has a hypothesis, `Alone(s)`: one user s alone asks for more than
  52 MHz. It holds of today's call sites (`MCSysFreq` states it of the instance), and
  without it the property is false: see section 6. `SInv` adds that a fast clock runs
  at s's frequency with s as the top user, so that only s's own next request lowers
  it, in the one call that also gives the PLL back.

### HwTimerList

`IInv` adds two facts to the type and to `ListsMatchStates`: a callback runs exactly
while the handler is calling back, and nothing is fired otherwise (`HandlerInv`), and
what the counter has left and the ticks since its start make up the head's time but
for the load delta (`CounterInv`). The type is the hard part: `time` stays a natural
number only because the searches through the list stop at the right place.

* `SumsExist` and `TimeUpToIs`: the running sum of a list's times exists for every list
  and obeys its recursion, by the least number at which it would fail.
* `DueWithinIs`, `DueBeforeIs`: what the two searches return is the last place whose
  sum is in reach, so that the timer behind it has at least what is taken from it.
* One lemma per case of start and stop, and `FireLists` for the handler's split of the
  list into the due and the others.

From it: `TypeCorrect`, `ListsAlwaysMatch`, `CounterAlwaysHeads`
and `TimersAreAService`, the refinement of `TimerService`: `AllocMark` takes, `Free`
gives, `Start` arms, `StopActive` and `StopFired` disarm, `IrqFire` calls,
`CallbackReturn` returns or switches to the next callback; ticks, the interrupt's
entry and spurious interrupts stutter. No bound on ticks or lateness is used beyond
their being naturals.

### HwTimerPunctual

`TimersNeverLate` and `TimersNeverEarly`, for any timers, intervals, lateness and load
delta. Let the *wait* of a timer be the sum of the times up to it (`Waits`), and
`since` what has passed since the hardware timer was started. Neither property is
inductive: each speaks of one timer, while every start, stop and expiry shifts the
waits of others. `TimedInv` ties the histories to the waits:

* `LateInv`: `latest` is at least the wait less `since` and `Delta`;
* `EarlyInv`: `soonest` is at most that, plus one tick behind a head whose time is 0,
  for which the hardware timer is loaded with one tick (`Slack`);
* `LoadInv`: while the counter runs, what is left and what has passed are the load,
  and `since` exceeds the head's time by at most `MaxLate`.

The proof is in two halves. The first is about the list alone: for each operation,
the wait of every timer before and after it (`StartFirstWaits`, `StartLaterWaits`,
`StopHeadWaits`, `StopExpiredWaits`, `StopBehindWaits`, `FireWaits`). All rest on
`SameMoves`: where a stretch of the list moves and keeps its times, all its waits
change by the same. The second is about numbers: a restart shortens the waits by some
c, and with `Covered(c)` the `Delta` that `soonest` is charged pays for it (`Charged`,
`HeadCovered`, `DueCovered`); `latest` needs c to be at least `since` (`LateEnough`), and
where a stopped head leaves less, `Rounding` pays for the difference. Then lateness
is `LoadInv` and `LateInv`; and the handler takes only timers whose wait is over, so
`EarlyInv` leaves at most 0.

### AudioPath

* `DevicesAlwaysKnown` needs the type of `media` only: it holds whatever order requests
  arrive in.
* `TypeCorrect`, `StreamAlwaysInFront`, `AlwaysOneStream` and `EndAlwaysCloses` hold for
  any prompts, limits, backlog and environment, and are inductive together (`IInv`).
  The one fact to add is what waits (`MailInv`): the mailbox and the rest of a
  callback hold messages somebody sends, CLOSEALL among them only once the power goes
  off. `StreamInFront` keeps the removal of a prompt from ever taking the stream,
  and the message that ends a prompt (`EndWillClose`) stays in the mailbox until the
  prompt that sent it has been closed or replaced.
* `QueueIsAlwaysHeard`, `CurrentIsAlwaysHeard`, `MusicIsAlwaysHeard` and
  `VoiceIsAlwaysHeard` hold for any backlog in behaviours in which at most music, the
  phone's audio without a call, hands-free drops and power-off happen (`Unprompted`, one
  of the environments of `audio_heard`). The manager decides from its own record and
  the queue acts later, so nothing about the current state alone is inductive while
  messages wait. `QuietInv` is about where they lead: a run of the mailbox (`RunOf`: a
  history of states, each the effect of one message on the one before) from the stream
  that plays, the list and the manager's record ends with the stream the manager's
  record wants, in the player and in the list; and once the message of the current
  callback is posted too, with what the phone has connected. Taking a message off the
  front shortens the run, posting one and the manager's answers lengthen it
  (`RunOfTail`, `RunsJoin`), and each answer leads from the stream that was wanted to
  the one that is wanted now (`Leads`, `Settles`). When the mailbox is empty the run is
  over and its ends are equal.

### NvRecord

* `TypeCorrect`, `ChangesAreMarked` (`SavedUnlessDirty`) and `RecordsAreAStore` need
  `IInv`. A table that is not damaged has no device twice and is at most `DDB_RECORD_NUM`
  long, in the pool and in the sector (`GoodPool`). Where the Bluetooth thread stands fits
  it (`BtInv`): a device on its way in is not in the list, one on its way out is, and the
  list is full when the oldest is evicted and not when a record is put in. Without that
  the end of an add could duplicate a device, and `Remember` would not map to a step of
  `RecordStore`. And only the last flush of a shutdown finds the Bluetooth thread at work
  (`QuietInv`), so that all others save the table as it is.
* In the refinement the beginning of a deletion or an insertion is `BeginChange`, its end
  `Forget` or `Remember`, whatever its reason; the erase begins the abstract save and the
  write ends it; marks and the other steps of the flags stutter. That every step maps to
  one of `RecordStore`'s, `LastSave` and `Damage` the only ones that damage anything, is
  what is proved: the damage itself is not excluded, as the code does not.
* `SavedUnlessDirty` is about the order of change and mark in each writer. Every flush but
  the last one needs all writers idle, so that little interleaving is behind it.

### Reconnect

`TypeCorrect`, `NothingNewIsAsked` and `PagesAlwaysBounded`, for any retry limit and
mailbox. The counter does not bound the pages by itself: it may begin with what an
earlier reconnection left, and requests that wait are served and counted after the
limit. `CountInv` bounds the counter by what is still pending (mail, timer, open
channels); `PagesInv` bounds the pages by what is counted and what is not yet
answered, and `PagesBounded` follows because less than the limit is counted and at
most two attempts, one per profile, are unanswered. For `NothingNewAsked` the invariant
has that the timer runs only for a reconnection (`TimerForRetries`), and each callback
is shown to post nothing while none is under way.

### Music

`IInv` follows the calls of `bt_sbc_player` through the stream and the amplifier
(`PlayerInv`), says that `af_thread` is past its wait for the mutex only while the
stream is open (`ThreadInv`), that what it decodes is the head of the ring although
the Bluetooth thread goes on storing (`FrameInv`), and that the Bluetooth thread has a
packet and an attempt left (`PutInv`, without which the type of its counter is not
inductive). From it: `TypeCorrect`, `DecoderAlwaysOwnsQueue`, `SpeakerAlwaysFed`, the
action property `FillsOther`, and `RingIsFifo`, the refinement of `MusicFifo`: for a
ring of any size, storing appends to its contents and removing takes their head
(`StoringAppends`, `RemovingTakesHead`), with the indices' wrap-around in `CellAfter`.

### Model-checked only

* Liveness (`ActiveEnds`, `MusicReturns`, `SavedInTheEnd`, `RetriesGoOn`, `OpeningEnds`,
  `PutReturns`, `MusicGoesOn`, `PlayerReturns`) needs fairness and ENABLED, which are out
  of the prover's reach.
* `QueueIsHeard`, `CurrentIsHeard`, `MusicHeard` and `VoiceHeard` with prompts (the other two
  environments of `audio_heard`). There the list holds more than the stream, the end of
  a prompt posts messages of its own, and a run of the mailbox would have to follow
  both. With calls they do not hold (section 4).

## 6. Findings

1. **Stopping the last of several timers writes through NULL**
   (`hwtimer_list.c:368`, run `hwtimer_trap`). The ASSERT a few lines further on
   expects the stop to succeed. In practice: the idle thread's timer and the key's
   debounce timer are active together and the later one is stopped.
2. **`media in sbc  current wrong` is reached** (`app_bt_media_manager.cpp:343`, run
   `audio_current`). Audio without an incoming call interrupts a prompt; the prompt's
   bit stays in `media_active`, and when the audio ends the manager keeps VOICE as
   the current sound although nothing plays.
3. **`INVALID_BT_DEVICE_NUM` is reached** (`app_bt_media_manager.cpp:523`, run
   `audio_device`). START VOICE and STOP VOICE are both waiting: the stream is
   opened after its device has been forgotten.

4. **A phone used for calls only is never paged again, and the reconnection never
   ends** (`app_bt.cpp:1198`, run `reconnect_calls`), against the comment at line 1005
   that computes its length. Without a flag in the record the timer's handler asks for
   nothing and starts nothing.

Seen while modelling, not runs of their own:

* Five prompts wait and a sixth is reported: `app_audio_list_append` stops at its
  ASSERT (`app_audio.cpp:509`).
* Music paused while a prompt plays over an incoming call is opened again at the
  prompt's end and then declared idle.
* With two users above 52 MHz, or two at 52 MHz, lowering the top user while the
  other stays leaves `top_user` unchanged (`hal_sysfreq.c:55`), and the clock, and the
  PLL with it, stay up after both have gone down. Today's call sites have one user
  above 52 MHz.
* After a lost link with both profiles, hands-free may stay `failure` while the music
  is back, so that the mode stays `reconnecting` with a connection up; the next event
  of either profile ends it.
* Requests that were waiting when the counter reached its limit are still served and
  counted: the counter may run over the limit by as many.
* `store_sbc_buffer` looks at the running player and the cache once. If `app_thread`
  stops the music and starts another player meanwhile, the Bluetooth thread stores its
  packet in memory that is the other player's (`a2dpplay.cpp:397`). The model reaches
  it; no document excludes it.
* `af_stream_start` sets `dac_dc_start_time` after it has unlocked and after the DMA
  runs (`audioflinger.c:1291`): the first half may find the time of an earlier start
  and switch the amplifier on at once.
* A shutdown while the Bluetooth thread deletes or adds a record can save a half-changed
  list under a valid CRC: `app_deinit` flushes at realtime priority (`apps.cpp:671`). The
  comments at `nvrecord.c:298` and `:314` ask for `OS_LockStack` around the changes only,
  and the flush does not take it. Every later power-on restores that list, and it may
  stop at an ASSERT of `list_ext.c` each time. The model reaches it (`flash = Damaged`);
  `StoreSpec` shows that no other interleaving does, but for the next one.
* The rebuild's TEST_PASS is written through an environment pointer to the memory
  of the table before it, and the pointer is handed out on. Once a phone has been added,
  a write of the environment may damage its record, until the next rebuild if a flush
  saves it.
* After the phone has connected by itself, a request of the timer that expired just before
  is still served: if the phone disconnects the profile meanwhile, it is paged once more
  although the reconnection is over. `NothingNewAsked` says that it is no more than that.

## 7. Not modelled, and why

`PROJECT.json` gives the reason per component. Inside the modelled components these
parts are abstracted:

* `hwtimer_update` on its own (`hwtimer_update_then_start` is a start), the clamping of
  ticks, and the refusal of foreign pointers.
* Volume, sample rates, codec data, and the time a prompt takes; prompts of no
  length. The second phone, and the SWAP_SCO and RESTART requests only it uses.
* The capacities of the mailboxes, and `app_set_threadhandle`.
* Names, link keys and volumes in the records, the heap in the pool (a record is its
  device and whether a profile is active), and the pointer `btdevice_volume_p` into it.
* Scan modes, pairing, sniff and role switch, the source role's reconnection.
* Capture streams, devices other than the internal codec, `af_close`; times and
  samples of the fade; overlays and equaliser; AAC and resampling, which the build
  does not contain. `PLAYER_OPER_RESTART` of the music.
* Peripheral clock dividers, the watchdog and resets of `hal_cmu.c`; 13 MHz, which no
  caller asks for.
* The DMA, I2C, UART, ADC and GPIO drivers, LEDs, overlays and test modes: registers
  and tables with little state to interleave.

## 8. Running

    tlc -config AudioHeard.cfg MCAudioPath.tla
    tlapm SysFreq_proofs.tla
    tlapm ListLemmas.tla
    tlapm HwTimerList_proofs.tla
    tlapm HwTimerPunctual_proofs.tla
    tlapm AudioPath_proofs.tla
    tlapm NvRecord_proofs.tla
    tlapm Reconnect_proofs.tla
    tlapm Music_proofs.tla

`ListLemmas` holds the facts that the others cite; each module is checked by itself.

A `.cfg` goes with the MC module of its component: `SysFreq` with `MCSysFreq`,
`HwTimerList` and `HwTimerTrap` with `MCHwTimerList`, `HwTimerPunctual` with
`MCHwTimerPunctual`, the `Audio*` files with `MCAudioPath`, `NvRecord` with `MCNvRecord`,
the `Reconnect*` files with `MCReconnect`, `Music` with `MCMusic`. `Music` is the longest
run, about three minutes with two workers.
