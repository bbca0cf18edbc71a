# A TLA+ model of the door controller

The program in `src/User` is the firmware of a door controller on a CH32V307:
cards, fingerprints and a keypad open a door for people in a user database, a
keypad dialogue administers that database, a screen shows what happens, and an
ESP8266 module connects the device to an MQTT broker. It is one cooperative
loop (`scheduler.c`) over nine periodic tasks, with three interrupts beside it
(the millisecond timer, the serial line to the ESP8266, the line to the
sensors).

This directory models what is hard about it: dialogues that share one keypad
entry, timers that race with keys, a lockout that other parts can see and end,
flash pages that are erased before they are written.

## 1. The system

| Part (source) | State | Operations | Talks to |
|---|---|---|---|
| Authentication manager (`auth_manager.c`) | `s_auth_mgr`: idle, processing, waiting for a password, locked; `uint8_t` failure counter; start of the lockout | judge a card, a finger, a password; start a password; periodic lockout test | password entry (callback), database, bolt, log, screen and network (result callback), administration mode (master password) |
| Password entry (`password_input.c`) | `s_pwd_input`: state, digits, start, callback | start, key, cancel, periodic timeout test | whoever started it, by callback |
| Administration mode (`user_admin.c`) | `s_admin`: mode, steps of two dialogues, selected user, last activity | enter, exit, keys, card, finger, cancel, confirm, inactivity timeout | password entry, database, screen |
| Fingerprint enrolment (`user_admin.c`) | `s_fp_enroll`: step, attempt, retry, time | one sensor command per call of its task | sensor, administration mode |
| Bolt (`door_control.c`) | `g_door_status`: locked or not, by whom, since when, for how long | unlock, lock, periodic relock test | network (state event) |
| Status screen (`door_status_ui.c`) | `s_ui_state`: which screen, since when, last redraw | told of starts, results, mode changes; periodic update | reads the manager's lockout and the mode |
| Keypad (`key_app.c`) | debounce state per key | dispatch of clicks and double clicks | administration mode, then entry, then normal keys |
| Card task (`rfid_task.c`) | time of the last card | poll, debounce, dispatch | administration mode or manager |
| Scheduler (`scheduler.c`, `timer_config.c`) | last run per task, millisecond counter | run what is due | all tasks |
| User database (`user_database.c`) | header and 50 entries in flash, header copy in RAM | format, add, delete, update, lookups, master password | flash |
| Access log (`access_log.c`) | header and 256 records in flash, header copy in RAM | record, read back, format | flash |
| MQTT application (`mqtt_app.c`) | event queue, heartbeat time | commands, events, heartbeat | ESP8266 driver, bolt, database, log |
| ESP8266 driver (`esp8266.c`, `esp8266_mqtt.c`, `esp_at.c`) | connection state, AT command in flight, retries | state machine every 5 ms, AT engine, publish, subscribe | serial line |
| Serial reception (`usart1_dma_rx.c`, `ringbuffer_large.c`) | DMA buffer, ring buffer | interrupt fills, main loop empties | AT engine |
| Card reader (`rfid_reader.c`) | receive buffer, expected length, work mode | interrupt per byte, set the mode, take a frame | card task |
| Fingerprint sensor (`as608.c`) | receive buffer; image, buffers and templates in the sensor | send a command and wait up to two seconds | enrolment, fingerprint key |
| Other drivers (`by8301.c`, LCD, LED) | pixels, pins | blocking calls | hardware |

Everything but the interrupts runs in the main loop, one task after the other.
A handler is therefore atomic with respect to the other handlers, with all the
callbacks it makes; what interleaves is the order of whole handlers, and that
order is where the errors are: three clients share one keypad entry and are
told of its end by callback, possibly long after they have moved on. Several
drivers block (the fingerprint search, the voice module, flash erase), so a
task may run late by any amount.

### What is hard, and what makes each part correct

* *Manager*: an entry may be open when a card or finger causes a lockout; the
  entry then ends by digits, cancel or timeout. Correct: a lockout refuses
  everything and ends, and the manager never waits for an entry that is gone.
* *Entry*: one entry, three callbacks. Correct: digits go to the dialogue on
  the screen; an entry always ends.
* *Administration mode*: left by key, double click or timeout in the middle of a
  dialogue. Correct: it is entered only with the master password, judges
  nobody, drives the sensor only in the right step, ends when unused.
* *Bolt*: opened by verdicts and by the network with different durations.
  Correct: it falls again.
* *Screen*: told of starts and results only. Correct: it does not show a state
  that is over.
* *Database and log*: a page is erased and rewritten word by word. Correct:
  power loss and full storage lose nothing that was stored before.
* *MQTT application*: a queue of eight events and a publish that may be refused.
  Correct: events are reported in order and once.
* *ESP8266 and AT*: answers may be late, lost or belong to an earlier command.
  Correct: it connects in the end, and after a loss again.
* *Serial reception*: two interrupts, the DMA controller and the main loop share
  counters and positions. Correct: bytes come once, in order and in the end, and
  a loss is flagged.
* *Fingerprint sensor*: answers carry no name; templates live in the sensor,
  users in the flash. Correct: a user's template is his finger.
* *Card reader*: frames are found by their bytes, not by pauses. Correct: what is
  taken for a card is one.
* *Scheduler*: a counter that wraps. Correct: tasks run at their periods.

`PROJECT.json` lists each of these hazards at its line.

## 2. Plan

Every step but the last is done.

1. `DoorAccess` and its components, checked for safety and liveness, proved.
2. `UserDatabase` with its abstract store, then `AccessLog`: pages and words,
   failures at every flash operation; proved, the refinement included.
3. `NetLink`: application, driver, AT engine and module, with late, lost and
   unsolicited answers.
4. `SerialRx`: the interrupts against the main loop on the ring buffer's
   counters, and the abstract lossy line that it implements.
5. `FingerAccess`: the sensor's line, the enrolment and the templates beside the
   users who refer to them.
6. `CardReader`: the receiver on real frames; proved for all cards that meet
   conditions on their bytes.
7. `Scheduler`: the due test when the loop runs late and the counter wraps.
8. Open: the machine of `key_app.c` that makes clicks of levels (section 12).

`NetLink` meets `DoorAccess` only in the two remote commands that `DoorAccess`
already has and in the events it reports, so neither state space multiplies the
other; `SerialRx` likewise implements a line of which bytes may get lost, which
is what `NetLink` assumes of the lines it reads. `FingerAccess` refines what
`DoorAccess` leaves to chance (a finger's lookup, the sensor's answers), and
`CardReader` the cards that come to `rfid_task`.

## 3. The door: `DoorAccess` and its components

One module per C file, each with the file's static state as one variable and an
operator or action per function; `DoorAccess` composes them and holds what
crosses file boundaries (the dispatch of keys, callbacks, the scheduler).

| Module | C file | Variable |
|---|---|---|
| `Timers` | `timer_config.c` | none; `Older` ages a timer |
| `PasswordInput` | `password_input.c` | `pwd` = `s_pwd_input` |
| `DoorControl` | `door_control.c` | `door` = `g_door_status` |
| `StatusUi` | `door_status_ui.c` | `ui` = `s_ui_state` |
| `AuthManager` | `auth_manager.c` | `auth` = `s_auth_mgr` |
| `UserAdmin` | `user_admin.c` | `admin`, `fp` = `s_admin`, `s_fp_enroll` |
| `DoorAccess` | `key_app.c`, `rfid_task.c`, `scheduler.c`, `main.c`, commands of `mqtt_app.c` | all of them and the age of the last card |

A step is one handler of the main loop with every callback it makes: a key, a
card, a network command, the periodic function of one component, or `Tick`, the
passing of one unit of time. Handlers interleave in any order; that includes
runs of the program in which a task is late because another one blocks.

What the abstraction does:

* *Time.* A component that stores a start time and tests `now - start >= limit`
  has an age here, which `Tick` increases up to the limit. The test is
  `age = limit`. The limit stands for any later time too.
* *Digits.* Which digits are typed is decided when the entry is complete: the
  completed entry is the master password, a user's, a disabled user's, or
  nobody's. A card or a finger likewise has a lookup result.
* *Dead data.* The callback of a finished entry, the dialogue steps outside
  their dialogue and the start of a lockout that is over hold a fixed value,
  because the code writes them before it reads them again.
* *Left out because unreachable.* The branch of the enrolment that finds itself
  outside its step (`user_admin.c:791`) and the keys of the master-password
  dialogue without an entry are excluded by `EnrolOnlyInItsStep` and
  `AdminEntryOwned`; `matrix_key`'s commented-out scheduling of the board keys
  and `auth_manager_reset_fail_count`, which nobody calls, have no action.
* The servo follows the lock state. `FpDelay` stands for the pauses of 600 and
  800 ms of the enrolment.

### Runs

`door` checks for safety, over 130,964 states:

* `TypeOK`;
* `PasswordWaitHasEntry`: the manager waits only while an entry runs that
  reports to it. Three dialogues share the entry and any of them may start,
  cancel or outlive one.
* `AdminEntryOwned`: the entry that runs in the administration mode belongs to
  the dialogue on the screen.
* `EnrolOnlyInItsStep`, `AdminScreenIsAdmin`: neither the sensor nor the screen
  is left in a dialogue that was abandoned.
* `LockoutRefuses`: no step taken during a lockout opens the door locally. (That
  no step taken in administration mode judges anybody, `NoVerdictInAdminMode`, is
  proved by `AdminModeSuspendsVerdicts` and not checked again.)
* `LockoutCutOnlyByCancel`: what can end a lockout before its time, and
  `AdminOpensAtEntryEnd`: what can open the administration mode. These two say
  precisely how far the code is from its documentation (findings below).

The same run checks under `FairSpec` that lockouts, entries, the unlocked door,
an unused administration mode and the lockout screen all end. Fairness is weak
and only on `Tick` and on the periodic functions: the timer interrupt always
comes, and the scheduler calls each task whose period has passed
(`scheduler.c:11`). No fairness is assumed of people, cards, sensors or the
network.

`admin_reopened` is violated: the change-master-password dialogue starts an
entry; a double click leaves the administration mode but not the entry; its end
calls `master_pwd_callback`, which sets the mode to UNLOCKED
(`user_admin.c:208`).

The other disagreement is stated positively by `LockoutCutOnlyByCancel`: a
password entry is open, a card causes the lockout, the entry is cancelled, and
`password_complete_callback` sets the manager idle without looking
(`auth_manager.c:107`). The 60 seconds documented are over at once.

Two smaller things that the model does as the code does, and no property
forbids: a cancelled entry leaves "enter password" on the screen, and a lockout
cut short does not reset the counter, which as a `uint8_t` wraps at 256, so that
a failure counts as the first again.

### Bounds

Entries of 3 digits (2 in the violated runs) and timeouts of 1 to 3 ticks are the
least for which a key can be pressed after one tick and before the next limit,
so that every order of "digit, timeout, lockout, relock" occurs. Two failures
lock the manager: the first does not and the second does. The counter wraps at
`FailModulus`, one step above the limit and reachable. The remote open time is
longer than the local one, so an unlock can both lengthen and shorten the other.
`CardDebounce` of one tick lets a card be refused once.

### Proofs

`DoorAccess_proofs` proves, for every value of the constants that the named
ASSUMEs admit, every safety property `door` checks. The inductive
invariant `IInv` is `TypeOK` and `Safety`, and the parts of `Safety` need each
other: that the manager's entry survives administration keys needs
`AdminEntryOwned`; that an enrolment step finds its dialogue needs
`EnrolOnlyInItsStep`, which needs that leaving the dialogue resets it.
`TypeCorrect` and `Invariant` follow action by action; the four action
properties are proved from `IInv` with one lemma per step rule (`StepRules`), as
none of them is an invariant of states. Liveness and the two violations stay
with TLC: fairness and ENABLED are out of the prover's reach.

## 4. Storage: `UserDatabase`, `UserStore`, `AccessLog`

`FlashPage` is what both files use of the controller's flash: a page is erased
as a whole and programmed in ascending order. A *cell* is the smallest part that
the code tells apart; the words of a cell are programmed one after the other and
a cell that is programmed in part is taken as erased, which is exact for the
magic number (a part of it is not the magic number), for the flags (one half
word) and for what precedes them (not looked at until the flags are there), and
for the master password (a password with an erased byte cannot be typed).

`UserDatabase` has the header in RAM, the page buffer, the two flash pages and
the operation in progress with the cell it has reached. One step is one flash
operation or what the program does between two. Power may fail before each of
them, and each may report an error; the constant `Faults` says which of the two
happen. Adding and deleting write two pages, one after the other. All callers
are in the main loop, so operations do not overlap; `AddUser` includes the check
that `user_admin_on_rfid` makes of a card. Fingerprints are bound exactly as
cards are (`user_db_set_fingerprint`) and have no action of their own; the
password of a user is data, the rewriting of the page that
`user_db_set_password` causes is an action. `user_db_update_user`, the setters
and `access_log_clear` are part of the interface although this version calls
none of them.

`UserStore` is the promise, without pages: places that hold users, the password
in effect, the password a restart finds. An operation changes one place; only
while a page is *exposed* (from its erase to the end of its rewriting) can a
failure take users away, and it neither invents nor alters one; only a store
whose header is gone is formatted. `StoreSpec` maps the database to it: a reader
sees the buffer from the erase on and the flash page otherwise.

`AccessLog` has the header in RAM, the two pages, the operation in progress and
one history variable, the records accepted since an operation was last cut
short between the first cell it changed and the last, at most as many as the log
holds.

### Runs

* `db_faults` (power and flash failures; 1,004,701 states): `TypeOK`;
  `NoTornUser`, no interruption leaves half an entry that counts as a user,
  because the flags come last; `StoreSpec`. Two more are claimed until an
  operation is cut short between the first cell it changed and the last (the
  history variable `whole`): `HeaderCorrect`, the count, the ids and the copy in
  RAM agree with the entries whenever the database is idle; `CardHasOneHolder`,
  as long as nobody is disabled. Power lost before the first erase (`Unbegun`) or
  after the last word (`Complete`), even inside an operation, breaks neither. A
  failure between entry and header does break the first: that is the exception,
  and the two do not catch it.
* `log_faults` (14,511 states): `TypeOK`; `IndicesAgree`, head, tail and count
  describe one run of the ring whatever fails, unless the header was cut off
  before them; `LatestSurvives`, the newest accepted record is the one that is
  read, also after a restart, one inside an operation that had not begun to
  write or had only to return included, and the log does not refuse the next.
  A header cut off before its indices, whose log refuses every record, is
  excepted by both.
* `log_ring` is violated: a record erases all others.

What happens after a cut is in the model and allowed by its properties, because
it is what the code does:

* Power lost between the erase of the header and its first word: the next start
  finds no magic number and formats a full database.
  `src/docs/用户数据库模块说明.md:10` promises that the data outlive a loss of
  power (`StoreSpec` has `Format` for it).
* Power lost after that word: the magic number is there, the counters and the
  master password are not, and the database is full and without a usable master
  password for good.
* Power lost during the rewriting of the user page: the users whose entries had
  not been written again are gone. `StoreSpec` allows it (what is `exposed` can be
  lost); the comment at `user_database.c:71` says that reading, erasing and
  writing back keep the other data of the page, and
  `src/docs/用户数据库模块说明.md:285` that the other users are kept safe.
* Power lost between entry and header: the count stays behind the entries, and a
  later deletion can take it below zero, to 65,535.

A card of a disabled user can be given to a second one, since the lookups pass
over him.

### Bounds

Two slots are the least that have "another user"; ids stop before they wrap
(65,535 additions exceed the endurance of the flash). `Modulus`,
`ErasedHalfword` and `ErasedWord` are small, which lets a counter reach the
value of an erased word, a coincidence the real one can meet too. One card and
two passwords are enough: the properties compare for equality only. Three log
slots and a sequence number that wraps turn the ring several times.

### Proofs

`UserDatabase_proofs` proves all five properties of `db_faults` for any number
of slots, cards and passwords. `IInv` says what the flash pages can look like
while nothing is written to them (`FlashOK`), that the header in RAM keeps its
types (`RamOK`), and, for the operation in progress, which cells are erased,
which are already those of the buffer and which page they belong to (`JobOK`);
types, `NoTornUser` and the refinement follow, the last with one lemma per step
of the flash. `WInv` adds what holds while nothing was cut short: at each stage
of an operation, how far the header is behind the entries it is about to be
written for, with what a cut at the two ends of the operation leaves
(`WholeUnbegun`, `CompleteGood`). `HeaderCorrect` and `CardHasOneHolder` are its idle case.

`AccessLog_proofs` does the same for the log: `IInv` for the types and
`IndicesAgree`, `LInv` for `LatestSurvives`, which ties the history of accepted
records to the header in RAM, the header in flash and the record that the head
has just passed.

## 5. The link to the cloud: `NetLink` and its components

| Module | C file | Variable |
|---|---|---|
| `EspAt` | `esp_at.c` | `at` = `s_eng`: queue and current command |
| `Esp8266Mqtt` | `esp8266_mqtt.c` | `mqtt` = `s_ctx` |
| `Esp8266` | `esp8266.c` | `esp` = `s_ctx` |
| `MqttApp` | `mqtt_app.c` | `app` = `s_app`: event queue, heartbeat due |
| `NetLink` | `scheduler.c`, `main.c`, the ESP8266 module (external) | `turn`, `owed`, `module` and the counters of the bounds |

The operators of the component modules take the records they work on as
arguments, because one call of `esp8266_tick_5ms` runs the engine, the driver
and the MQTT layer one after the other on what the one before has left:
incoming lines, timeout, start of the next command, state machines. A line is a
step of its own; `turn` keeps the application from running before the state
machines of the same call have run. The end of that call is `esp8266_tick_5ms`,
or `TimeoutTick` when the current command has run out of time.

What the abstraction does:

* *The line.* `owed` are the commands the module has received and not answered.
  The module acts on a command when its answer is read. The answer is `OK` if
  the module can do it; `ERROR` otherwise, or by a disturbance.
* *Answers without a name.* An answer finishes whatever command is current. After
  a timeout the old command may still be owed; its late answer finishes the next
  one.
* *Timeouts.* A command may time out when it is no longer owed (lost, or never
  ended), or as the disturbance "late" while it is.
* *Disturbances.* `late`, `lost`, `error`, `wifi` (the access point goes) and
  `broker` (the broker closes the session), together at most `MaxFaults`.
* *Commands.* A command is its purpose, the event it reports, and whether it fits
  the engine's buffer. The lengths: heartbeat about 209 bytes, event with a user
  at most 245, status reply about 274 of 255 that fit.
* *Start.* The module may be off or, as after a reset of the controller alone,
  still connected.
* *Left out because nobody calls it:* TCP mode, commands with a payload,
  `esp8266_reset`, `esp8266_disconnect_mqtt`. A command is sent at once, since
  `USART1_TX_Write` blocks; the engine is idle whenever a state machine enqueues,
  so the queue is never full and the MQTT state ERROR is not reached
  (`OneCommand` is the reason).

### Runs

`link` (92,524 states) checks with two disturbances of any kind:

* `OneCommand`: four users of one engine never overlap, and a busy flag is set
  only while the command that clears it is in hand. A flag left over would end
  publishing for good.
* `DriverInStep`: the driver is in an MQTT state only while joined, and in the
  one the MQTT layer is in. Consequently the branches of `esp8266_sm_join_ap`
  and `esp8266_sm_mqtt` for the opposite case are never taken.
* `SubscribedIsTrue`: unless an answer came late, "subscribed" means that the
  module is subscribed, also after lost sessions and reconnections. The
  exception is real: a late OK is taken for that of the subscription.
* `LossOnlyWhenBusy`: an event leaves the queue unpublished only when the
  heartbeat of the same call, or another command, has the engine.
* `QueueDrains`: the events do not wait for ever while the link is taken for up.
* `LinkSettles`: after the last disturbance the link comes to be connected for
  good or to one of four dead ends for good: the driver in ERROR after a failed
  set-up command; the request to connect forgotten; the MQTT layer, or the
  driver, believing in a connection that is gone. The code leaves none of these
  by itself; that there is no fifth is what the run shows.

Fairness is weak and on the two tasks (the scheduler calls them for ever), on
the timeout of a command that will not be answered, and on the module, which
answers what it has received.

`link_no_reconnect` is violated: a loss of the access point calls
`esp8266_mqtt_reset`, which clears `connect_req`. The driver joins again, and
`esp8266_mqtt_tick_5ms` returns at once for ever (no disturbance but the one
loss).

Three more things the model does as the code does:

* A new connection makes the heartbeat due; the same call of `mqtt_app_tick`
  sends it, takes an event from the queue, and is refused. The event is gone
  without any disturbance. `LossOnlyWhenBusy` states precisely this loss.
* The status reply does not fit `ESP_AT_CMD_MAX_LEN`; it is cut off without its
  end of line, and the module joins it to the next command. Both then end by
  timeout.
* After a loss of the broker the driver connects again but does not subscribe
  again (`subscribe_req` is cleared by the first subscription): it reports, and
  receives no commands. The documents do not say which of the two is meant, and
  `Connected` is about the connection only.

### Bounds

Two disturbances let every one be followed by every other, such as a loss of
the broker during a late answer. Two events over a queue of one let an event be
queued, dropped at a full queue, published or lost, and let a failure in a
lockout queue its alarm and find no room for its verdict. One message is one
command of any kind at any moment. The delays are one tick and 5 modulo 3 = 2,
shorter than asked for as 400 modulo 256 is. Two places in the engine's queue
are one more than `OneCommand` allows.

### Proofs

`NetLink_proofs` proves the five safety properties of `link` for any number of
disturbances, events, messages and places in the queues. `IInv` has a part for
every component: at the beginning of a call the engine has nothing, one queued
or one sent command (`EngineOK`), a busy flag has its command (`BusyOK`), driver
and MQTT layer are in one of the combinations they can be in (`DriverOK`,
`DriverInStep`), the application's queue keeps its order (`AppOK`), and what the
module owes is what was sent (`WorldOK`). `SInv` holds while no answer has come
late: the module owes at most the command the engine waits for (`Prompt`), so an
OK for a subscription is one (`SubOK`, `HoldOK`).

## 6. The serial line: `RingBufferLarge`, `SerialRx`, `LossyLine`

`RingBufferLarge` is `ringbuffer_large.c`; `SerialRx` puts the DMA controller,
the two interrupts of USART1 and the reader in the main loop around it. Here the
steps are single accesses, where another party can come between: the load and
the store of `itemCount--` in the main loop, and three points of the handler of
the silence (entry, stop of the DMA, start of the DMA). The handlers do not
interrupt each other (equal preemption priority), the DMA stores whatever runs.

A byte is the number of its place on the line, so that "the same byte again",
"out of order" and "left out" are statements about numbers.

`LossyLine` is the promise: bytes come in order, at most once, and none is left
out unless the overflow flag has been set. `LineSpec` maps the ring to it. The
promise holds until an interrupt falls into one of two windows the code leaves
open, which `raced` records:

* `ringbuffer_large_read` decrements the count without a lock
  (`ringbuffer_large.c:71`). An interrupt between load and store loses its
  increments; the bytes are in the ring, the count does not know, and every
  later one is read that much too late.
* The handler of the silence stops the DMA after it has been entered
  (`ch32v30x_it.c:121`). A byte that fills a half in between leaves an interrupt
  of that half pending, which moves it a second time.

### Run

`serial` (181,572 states): `NeverReadsAhead`, whatever increments get lost the
main loop never takes a byte that is not there; `LineSpec`; `EveryByteRead`,
every byte is read in the end, unless the flag is set or a window was hit. Weak
fairness is on the silence after the last byte, on pending interrupts and on the
main loop, which polls in every tick. The number of bytes is bounded, so the
system comes to rest (`CHECK_DEADLOCK FALSE`).

Two facts about time are assumed and stand in `LineByte`: half a DMA buffer
(128 bytes, 11 ms at 115,200 baud) takes longer than a handler is delayed, and a
handler takes less than the time of one byte. Programming the flash does not
contradict this: the code runs from the zero-wait memory. The ring holds 4,096
bytes; `src/docs` says 1,024.

### Bounds

A half of two bytes is the least that can be filled in part; a ring of three is
smaller than the DMA buffer, so a batch can overflow it, and both wrap. Five
bytes fill the first half, the second and begin again.

### Proofs

`SerialRx_proofs` is for any ring, any DMA buffer and any number of bytes.
`NeverReadsAhead` is inductive beside the types. The refinement needs `QInv`:
while no window was hit, the DMA buffer holds exactly the bytes that have not
been moved, in their places (`DmaOK`, with the positions each pending interrupt
implies), and the ring ends with the last byte moved or the flag is set
(`RingOK`). `HalfMoved` and `RestMoved` show that each handler moves the very
next bytes, `Moving` that what arrives in the ring is an `Arrive` of the line,
`TakeDelivers` that a read is a `Deliver`; `LineCorrect` puts them together.

## 7. Fingerprints: `As608`, `FingerAccess`

`As608` is the driver and, external, the sensor: image, two feature buffers,
template library. Every command of the driver is sent and then waited for, up to
two seconds, in `JudgeStr`; the answer carries no name. `FingerAccess` has the
two clients, the enrolment of `user_admin.c` and the search behind the
fingerprint key (`Press_FR`), and the users with the template number each refers
to. `DoorAccess` leaves all of this to chance.

Answers can be lost, late (after the timeout, then taken for the answer to the
next command) or cut (a pause ends the frame early, and the confirmation code is
read from where an older answer left it).

### Runs

* `fingers` (2,199,377 states, about a minute): four properties, which
  differ in what they except:

  | Property | Says | Excepts |
  |---|---|---|
  | `BoundIsOwners` | a user's template is of his finger | a number given twice, an answer late or cut (`InStep`) |
  | `OnlyTheOwner` | the key lets in only whom the finger belongs to | the same |
  | `FaultsKeepTemplates` | no step costs a user his template | a number given twice, an answer late |
  | `OneUserPerTemplate` | two users never refer to one template | nothing |

  The exceptions are real: `finger_overwritten` shows the first, and a late or
  cut OK can pass for a comparison or a search that failed. The last holds
  because the number is tested once more before the user is added
  (`user_admin.c:590`), too late for the template but in time for the user.
* `finger_overwritten` is violated: the number of a new template is the user
  count plus one. After a deletion that is the number of a template in use; it is
  replaced first, and only then found to be in use.

### Bounds

Two users with two fingers are the least for "another one's". One user is there at
power-up, enrolled in an earlier life of the device (`AtFirst`). At most two more
things happen: two users are added, by enrolment or from the network, or one is and the
line is disturbed once, of any kind at any moment (`MaxAdded` bounds the sum,
`MaxFaults` the disturbances; the proofs bound neither). Deletions and enrolments
that are broken off are not counted. So a number can be given twice and both
enrolments come to their end, the case `OneUserPerTemplate` is about, and a
disturbance finds another user's template in the sensor. Three template numbers
are one more than the slots. Two attempts let one fail. The fingers are
interchangeable, hence the symmetry.

### Proofs

`FingerAccess_proofs` proves all four and the types for any number of users,
fingers and templates, any users enrolled before and, `faults` being a count for
each kind and `MaxFaults` and `MaxAdded` any numbers, for any number of additions
and disturbances; what each property excepts stays
excepted. So `BoundIsOwners` and `OnlyTheOwner` are proved for any number of lost
answers and no late or cut one, `FaultsKeepTemplates` for any number of lost and
cut answers, these three as long as no number is given twice;
`OneUserPerTemplate` for any number of all three kinds and of numbers given twice.

`CInv` says which command is waited for in which state (`CallOK`, `StepsOK`),
that while nothing was late the sensor owes at most that one (`LineOK`), and that
the number of an enrolment is nobody's unless one was given twice (`FreshOK`):
with it, `FaultsKeepTemplates` is a property of steps. `DInv` adds what is in the
sensor at each stage of the enrolment and of the search (`EnrolData`,
`PressData`, `DialogueData`). `TInv`, for `OneUserPerTemplate`, needs neither: the
number a dialogue carries into its password step is no user's (`GivenOK`), and
stays so, as nothing but the end of that dialogue adds a user with a template.

## 8. Cards: `CardReader`

The receiver of `rfid_reader.c` finds frames by their bytes: 1 to 4 begins one
wherever it stands, the next byte is its length, and no pause ends it. So the
model has the real bytes, lengths and checksums, two cards (one of whose uid
begins a frame of its own), the setting of the work mode at power-up, and the
task that takes frames.

### Run

`cards` (199,508 states): with any mode an earlier life left the reader in, any
lateness of the task and one byte or command lost,

* `OnlyALostFourMisreads`: what passes for a card's frame is one, unless the lost
  byte was a 4. Then the header of the next frame takes its place, the bytes are
  moved by one, and the checksum still fits: the uid read is not the card's.
  `src/docs/RFID_API_Reference.md:230` and `:249` promise complete and verified
  frames (a disagreement without a run of its own);
* `ModeIsTrue`: neither a card's frame nor a piece of one passes for the answer
  to the mode;
* `FourthIsRecognised`: after a loss or a late task at most three frames pass
  unrecognised. A block of data full of headers can hide more.

A reader left in command mode whose command is lost stays silent
(`CHECK_DEADLOCK FALSE`). A mode it did not confirm is only printed
(`main.c:146`; no property covers that), and a frame of mode "block" is handed on
with the uid 00000000.
The debounce of two seconds is for every card, where the comment at
`rfid_task.c:21` says "同一张卡".

### Proofs

`CardReader_proofs` proves the three properties for any set of cards whose bytes
meet a condition, and two facts with no condition at all. None of the three holds
of every card, so the conditions at the end of `CardReader.tla` are part of the
statements; `MCCardReader` assumes, and TLC evaluates, that both of its cards meet
them (`PlainCards`: the first one alone).

* `CardReaderTypes`, and `CardReaderBufferBounded` with the invariant `RxOK`: the
  receiver holds at most what it expects and expects at most 64 bytes, whatever
  the cards and the losses. The branch `s_rx_len >= RFID_MAX_FRAME_LEN` of
  `RFID_OnRxByte` is dead, and the model leaves it out for that reason.
* `CardReaderModeIsTrue`, under `NoAnswerByte`: no frame of a card holds 161, the
  byte that names the setting of the mode. Until the reader has carried out the
  command, then, no byte on the line or in the receiver is one (`ModeInv`).
  Any number of losses.
* `CardReaderFourthIsRecognised` and `CardReaderFourthIsWhole`, under
  `PlainCards`: no byte of a card nor a checksum is taken for a header, and no
  byte of a frame for a length above 58. A header in the data can keep the
  receiver out of step for ever, and a false length of 59 to 64 can swallow one
  frame more. The invariant `FourthInv` follows the receiver through the frames
  since the disturbance (`Where`): a false frame begins at one of a few places of
  the frame and ends within the two after it; from then on the receiver waits at
  the beginning of a frame, or holds a whole one. Any number of losses.
* `CardReaderLosslessFrames`, under `NoFrameWithin`: while nothing is lost, what is
  taken for a card's frame is one, wherever in a frame the receiver begins. By
  `LosslessInv` a receiver that holds a 4 is in step with the frame on its way, or
  its third byte will be the number of no card's frame (`Begun`).
* `CardReaderShiftedChecksum`, for any bytes: a frame that has lost one byte and
  taken the next for its last passes the checksum exactly when the two are equal.
  This is why it takes a lost 4, the header that follows, and it rests on the
  checksum bit by bit: a frame is whole when every weight is in an odd number of
  its bytes.
* `CardReaderOneLoss` and, with `MaxFaults <= 1`, `CardReaderOnlyALostFour`: the
  property `OnlyALostFourMisreads`. The invariant `OneLossInv` says where a
  receiver can be after the one loss (`Astray`): in step, `Behind` by the byte it
  lacks, within a frame whose third byte is of no card, or in the one long frame
  that `<<4, 48, 0, 4>>`, at the third byte of every frame with number and block,
  becomes without its 0 (`Long`). It was checked by TLC on the cards of the run
  before it was proved. The conditions: no frame begins within a frame, nor within
  one that lacks a byte (`NoFrameWithin`, `NoFrameWithinLess`); no byte is 1
  (`NoAnswerHeader`), since the answer's header would replace a lost 1 as the
  next card's replaces a lost 4; and the 48 bytes of the long frame do not happen
  to pass the checksum (`NoLongFrame`). Two losses are beyond the property: the
  second can make up for what the first did to the checksum.

## 9. Clock: `Scheduler`

The round of `scheduler_run` over the counter of milliseconds. The due test is
`now >= last_run + rate_ms`; near the end of the counter (after 49.7 days) the
sum wraps before the counter does. The task is then called in every round, or,
if the counter wraps before the task is visited, not for another 49.7 days.

`clock` (633,653 states): three tasks, a counter of 32 and calls that block for
up to three units. `NeverTooOften` and `OverdueOnlyAtTheWrap` say that both
happen there and nowhere else. Proved for any number of tasks, periods and any
counter in `Scheduler_proofs`: the first by what a sum that has not wrapped
implies, the second by `LInv`, which follows how long ago each task was visited.
The second needs `ShortPeriods`: a period and a round of blocking calls are less
than a turn of the counter (periods are at most 500 ms, a call blocks for at
most 12 s).

## 10. What is proved, and what is only checked

| Module | Proved for all constants | Checked only |
|---|---|---|
| `DoorAccess` | types and every safety and action property of `door` | five liveness properties |
| `UserDatabase` | all five, the refinement of `UserStore` included | |
| `AccessLog` | all three | |
| `NetLink` | types, `OneCommand`, `DriverInStep`, `SubscribedIsTrue`, `LossOnlyWhenBusy` | `QueueDrains`, `LinkSettles` |
| `SerialRx` | types, `NeverReadsAhead`, the refinement of `LossyLine` | `EveryByteRead` |
| `FingerAccess` | types and all four | |
| `CardReader` | types, all three, under the conditions on the cards of section 8; `OnlyALostFourMisreads` for one loss | |
| `Scheduler` | types and both properties | |

The proofs assume the named ASSUMEs of the modules and nothing else; TLC
evaluates each of them in a run. Liveness under fairness is out of the prover's
reach and stays with TLC: eight properties of three runs. The theorems about
`CardReader` have hypotheses on the bytes of the cards besides, named in
`CardReader.tla`; no other theorem has any.

## 11. Findings

With a run each, in `PROJECT.json`, beside the lines that say otherwise:

1. `admin_reopened`: the administration mode is active again without the master
   password.
2. `log_ring`: the access log keeps one record.
3. `link_no_reconnect`: after a loss of the access point the device does not
   connect to the broker again.
4. `finger_overwritten`: an enrolment after a deletion replaces the template of
   another user.

Without a run, in the sections above: the lockout that cancelling an entry ends
(`LockoutCutOnlyByCancel`), the database that loses users to a loss of power, or
formats itself after one, the log that refuses every record after one, the event
lost to the heartbeat, the status reply without an end, the card read wrong
after one lost byte, the two windows of the serial reception, the stall at the
end of the counter.

Smaller ones that the model contains or passes over, and that are not listed as
hazards of their own: the failure counter wraps after 256 failures in a row; a
card held during a change of the administration mode is judged as soon as it is
left; the index of the log wraps; 400 ticks do not fit the `uint8_t` that counts
them (`esp8266.c`, in the model as `TickModulus`); the same digit typed twice
within 0.6 s is a double click and is lost (`key_app.c:372`).

## 12. Not modelled

* The machine of `key_app.c` that makes clicks, double clicks and long presses of
  debounced levels. It has one state per key and is used by nothing else;
  `DoorAccess` allows any click at any time, which includes all it can make.
* The functions of `as608.c` and `rfid_reader.c` that nothing in this program
  calls: notepad, address, password, deletion of templates; the commands on
  blocks, values and configuration of the card reader.
* The voice module (commands are sent blocking, nothing is read back), the
  display's drawing, LEDs, and the menu demo, which is not scheduled.
* The vendor's peripheral library, start-up code and the menu library GEM.

The last two groups are by far the largest part of the repository, which is why
the modelled lines are a small share of all lines; of the program's own control
logic, every file that keeps state is modelled.
