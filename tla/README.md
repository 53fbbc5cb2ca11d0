# A TLA+ model of esphome-subzero-ble

The program is an ESPHome component for an ESP32. It connects to Sub-Zero, Wolf
and Cove appliances over Bluetooth Low Energy, bonds with them, unlocks their
data channel with a PIN, reads their state and writes properties back. This
directory models the part that decides *what happens next* (the connection,
bonding, subscription and polling state machine), the byte stream it reads, the
queue of property writes, and the way of a property to its entity in Home
Assistant and back: entities that stand for one property, and the two places
where one is made of several, a refrigerator's mode and a dishwasher's countdown.

Every definition is translated from the source; `map` in `PROJECT.json` names
the lines. Paths below are relative to `src/components/`.

## 1. The system and its parts

Everything in C++ runs on ESPHome's main loop. A handler is never interrupted,
so one handler is one action. What interleaves is the order in which handlers
run: events of the Bluetooth stack, named one-shot timeouts, the 60 s poll tick,
the buttons and the PIN field in Home Assistant.

| Part | Source | State it keeps | Operations | Model |
|---|---|---|---|---|
| `SubzeroHub` | `subzero_appliance/hub.{h,cpp}` | connection phase, cached handles, flow flags, PIN and unlock command, strike / retry / streak counters, back-off, intent flag, mute, Status | connection, security, GATT-result and message handlers; the ladder timeouts; the poll; the buttons | `SubzeroHub` |
| `ApplianceBase` | `subzero_appliance/appliance_base.{h,cpp}` | the hub, the write queue, the entities | routes GATT/GAP events and buttons to the hub; clears the queue on a disconnect | guards and first lines of `SubzeroHub`'s actions; `Clear` of `WriteQueue` |
| BLE link | `subzero_appliance/esp_idf_transport.h`, ESPHome and Bluedroid behind it | connection, encryption, bond, GATT table | connect, disconnect, enable, encrypt, search, read table, write, register | `BleLink` (external) |
| `MessageBuffer` | `subzero_protocol/buffer.h` | bytes, brace depth, end of the first message | `feed`, `message_in_place`, `consume`, `clear` | `DataChannel` |
| `WriteQueue` | `subzero_appliance/write_queue.h` | pending writes, drain flag, time of the last write | `enqueue`, `clear`, `drain_` | `WriteQueue`, `PacedWrites`; without time in `PropertyLink` |
| Scheduler | `subzero_appliance/{scheduler,esphome_scheduler}.h` | pending timeouts by name | set (replaces), cancel, `now_ms` | `timers` in `SubzeroHub`, `drainAt` in `WriteQueue` |
| Response parser | `subzero_protocol/protocol.{h,cpp}` | none | JSON text to optional fields | `PropertyLink` (the verdict on a message), `FridgeModes`, `WashCycle`, `PropertyEntities` (the fields that interact) |
| Dispatch | `subzero_protocol/dispatch*.h` | `FridgeBus`: cached flags, the accent light's last level; `DishwasherBus`: last published end time; the entities' states | fields to entities | `FridgeModes`, `WashCycle`, `PropertyEntities` (the stateful part, and one entity of each kind) |
| Grouped selects | `ApplianceSetGroupedSelect` in `appliance_base.h`, tables in `__init__.py` | the select's state | a pick: several writes, then an optimistic state | `FridgeModes` |
| Writable entities | `ApplianceSet{Switch,IntSwitch,LevelSwitch,Number,IntSelect}` in `appliance_base.h` | the entity's state | a choice: one write, then an optimistic state | `PropertyEntities` |
| Commands, GATT scan, log sanitizer | `subzero_protocol/{commands,gatt_handles,log_sanitize}.h` | none | pure functions | not modelled |
| Appliance hubs | `subzero_appliance/{fridge,dishwasher,range}_hub.h`, `appliance.h` | none of their own | `parse_and_dispatch_` | `FridgeModes`, `WashCycle`, `PropertyEntities` |
| Code generation | `subzero_appliance/__init__.py` | none at run time | configuration schema, tables of entities and writes | the tables, in `FridgeModes` and `PropertyEntities` |

How they interact: the stack raises GATT/GAP events; `ApplianceBase` compares
handles and calls a handler of the hub; the hub calls the transport
synchronously (the answers are later events), arms and cancels timeouts by
name, and publishes Status. D6 notifications go through `MessageBuffer`, whose
complete objects are parsed and come back to the hub as "a good message", "the
PIN", "status 302" or "lacking properties". Entities put writes into
`WriteQueue`, which calls the hub's `write_set_property_`.

What makes each part correct, and what is hard about it:

* **Hub, liveness.** Whatever fails, the hub finds back to a polled connection:
  no flow flag without a timer that clears it, no disabled client without a
  timer that enables it, no live session without its refresh. Hard because every
  handler may cancel every timeout.
* **Hub, strikes.** Three failed attempts clear the bond, so one failed attempt
  must be one strike, and a drop that was asked for none. Hard because the
  verdict on a pairing, our own hang-up and the DISCONNECT come in any order,
  and because the intent is a flag set by one handler and consumed by another.
* **Hub, caches.** Handles, the unlock command and Status outlive what they
  describe unless the right handler drops them.
* **Stream.** Objects are cut out by counting braces, over fragments that stop
  anywhere; a lost fragment unbalances the count.
* **Queue.** Pacing over a 32-bit clock, coalescing in place, a `clear()` that
  leaves the timeout standing.
* **Modes.** The appliance has no modes, only flags. A pick becomes three or four
  paced writes which another pick, a choice at the appliance or a disconnect may
  overtake; the select shows the pick at once, and later what it derives from
  flags that come back one by one.
* **Entities.** An entity shows a choice before it is written; nothing but a later
  report takes it back. What is written depends on what was reported (the accent
  light's level), on the order of the queue (the crisper takes a temperature only
  when it is not automatic) and on a rounding; one entity may be reported under
  another's name (the doors).
* **Wash cycle.** The end time is published only when it moves far enough, the
  countdown is computed with messages that may lack an end or a clock, and it has
  to stop when the message that says so is lost.

`hazards` in `PROJECT.json` lists these one by one, at their lines, with the
properties that cover each.

## 2. Modules

```
BleLink ──> SubzeroHub ──> HubRecovery ──> HubRepairing
                 └──────> SubzeroHubProofs ──> HubFlowProofs
DataChannel ──> MCDataChannel
        └─────> DataChannelProofs <── Induction
WriteQueue ──> MCWriteQueue
    │   └────> WriteQueueProofs
    └ ─ ─ ─ ─> PacedWrites
PropertyLink ──> FridgeModes ──> FridgeModesProofs <── Induction
        └──────> PropertyEntities ──> PropertyEntitiesProofs
WashCycle ──> WashCycleProofs
```

An arrow is EXTENDS, a dashed one INSTANCE. `BleLink` and `SubzeroHub` are composed by sharing the four
link variables: the hub's handlers call the transport synchronously, and the
transport's events are the hub's actions.

**BleLink** (external). `link` is `down`, `opening`, `up` (`connected()` is
true) or `closing` (we hung up, the DISCONNECT event is still to come).
`session` is a set of facts about the current connection, of which guards of
events are made: a notification needs a registration and encryption, a write
failure needs a write, the verdict on a pairing needs a pairing, the
appliance's state needs an unlock on D6 ("unlocked"), and a `set` one on D5
("control"). "registered" is said of D6 alone, and only if the hub knew D6 when it
subscribed, as in `subscribe_register_and_cccd_`; "late" is a history fact: D6 was
found by the re-read after that (`FoundLate`). `enabled` is `set_enabled`; `bond` is
the ESP32's stored bond.

**SubzeroHub**. One variable per member of the class (`phase` for `phase_`,
`fastRetries` for `fast_retries_`, ...), with four abstractions. `phase` is 0 or
1, since the code tests only for 0. `running` is the set of the `*_running_`
flags. `timers` is the set of pending timeout names; `start_fast_reconnect_`
uses one name for two closures in turn, which the model tells apart. `status`
is the class of the last published text, as far as a property needs it. One
action per handler, timeout and button, named as in the code (`HandleConnected`,
`SubscribeInitialGet`, `PressResetPairing`); helpers such as `NoteBondFailure`,
`StartSubscribe`, `PublishProgress` or `WithoutTimeouts` are the member
functions the handlers call. An action of a button includes what
`ApplianceBase` adds to the hub's function. `strikes` is a history variable.

The delays of timeouts are not modelled: a pending timeout may fire at any
moment. The safety properties therefore hold whatever the delays are, and the
orders the code's comments argue away by "two seconds later" are explored.

**HubRecovery** splits `SubzeroHub`'s actions into faults, of which a behaviour
has at most `MaxFaults`, and the rest, with fairness. **HubRepairing** adds a
user who resets the pairing and submits the PIN.

**DataChannel**: a byte is `{`, `}` or anything else, which is all the code
looks at. `FedByte` is the body of the loop of `feed`, `Loop` that loop; `Cut` is
the body of the loop of `process_message_complete_`, `Processed` that loop. Both
are recursive functions over the number of bytes. The appliance sends a
stream of messages cut into fragments of any length up to `MaxFragment`, with no
regard to the messages' ends; a bounded number of faults loses a notification,
inserts corrupt bytes, clears the buffer in mid-stream or disconnects.
`Objects` and `Remainder` are the reference definition: what cutting a *whole*
stream into objects means, without a buffer. That each message of the appliance
is one object is an assumption on the constants (`MessagesAreObjects`), which TLC
evaluates for the messages of `MCDataChannel`.

**WriteQueue** has explicit time: `Tick` is a millisecond, and the code's
32-bit clock is `now % Modulus`. `Delay` is the unsigned subtraction. `sent` and
`wanted` are history variables. **PacedWrites** is what the queue promises: a set
of writes that wait, the oldest of which may go out, a spacing after the last
one, before its patience ends. It has no timer, no timestamp and no order of its
own; `Paced` in `WriteQueue` is the refinement mapping. `MCWriteQueue` adds the
symmetry of keys and values.

**PropertyLink** is the way between the appliance and the entities, for the two
modules that extend it: messages under way on D6, the write queue (no time, same
coalescing), a channel that is `ready` or not, lost writes and messages, rejected
polls, disconnects. `gap` is a history variable: something happened that no
message has told yet.

**FridgeModes** composes, for one grouped select, what a pick goes through and
comes back by: `Pick` is `control`, `Enqueued` the queue's `enqueue`,
`WriteApplied`, `WriteIgnored` and `WriteDropped` are what becomes of a drained
write, and `ParseAndDispatch` is the refrigerator's `parse_and_dispatch_`:
`Kept` are the flags of the message, cached one by one, `Recomputed` derives the
label, and `Dispatched` is what both make of one message. `Queueing` is
`write_set_bool_sequence`, one `enqueue` after the other. The tables are those of
`FRIDGE_GROUPED_SELECTS` and of the two `recompute_*_mode_`. The two selects share
no flag, so a behaviour follows one of them.

**PropertyEntities** does the same for entities of one property. A behaviour
follows one *subject*: the crisper (a number and an integer switch that rule each
other), the accent light (a level switch), the humidity (a select with wire
values of its own), the refrigerator's doors, the oven's door and light (a plain
switch). `PropertiesOf` and `ValuesOf` say which properties such an appliance has
and what values they take; the temperatures chosen and the light's levels are
constants (`Settings`, `Levels`). `ToldIn` are the entities a message has something
for. `Written` is what the five classes write for a choice, `Displayed` what
the `publish_*` functions show for a value, `DoorName` and `DrawerName` the names a
message has a door under. `Restarted` is a reboot: the states and the remembered
level are gone, the appliance is not.

**WashCycle** is the dishwasher's end time and countdown. A time is a number of
minutes; what the code reads of it, month and minute of the month, are its
quotient and remainder by `MonthMinutes`. `told` is a history variable: what the
messages dispatched so far said.

The definitions whose comment begins "Mutated" are plausible bugs of the
definition that follows; no action uses them. Each property has one
(`mutants` in `PROJECT.json`): put in place of the true definition, it makes TLC
report that property.

## 3. What is assumed of the environment

* `connect()` is ignored unless the client is idle, `disconnect()` on an idle
  one; every `disconnect()` of a connection ends in a DISCONNECT event, and
  events queued before it still arrive (`link = "closing"`).
* A pairing fails only on a link that is not encrypted. When the link goes down
  under a pairing, its AUTH_CMPL may come before, between or after the hang-up
  and the DISCONNECT.
* A link with a bond re-encrypts without an event to the application.
* The appliance notifies on D6 once the link is encrypted and the hub has
  registered D6 in this connection, and it sends its state only after an unlock on
  D6. No message arrives in a session that found D6 too late to register it. Responses on
  D5 exist, but `handle_d5_notify` ignores them (`docs/ble-protocol.md:24,54,91`).
* `read_gatt_db()` takes a snapshot of a table that another task fills in handle
  order, so with "truncated" among the inputs it may stop before D6 or D5.
* The appliance pushes the properties that changed, answers a poll with all of
  them, rejects one with a status other than 0, and now and then dumps its state
  without being asked (`protocol.cpp:98-107`). A value written again is no
  change. Polls are 60 s apart, so one answer at most is under way.
* The crisper ignores a set temperature while it is automatic
  (`protocol.h:64-69`), and the acknowledgement does not tell. Nothing else about
  an appliance's own logic is assumed.
* A `set` needs the control channel unlocked in the same connection
  (`hub.cpp:1197`).
* A dishwasher's cycle begins and ends with a push of `wash_cycle_on`; its end
  time may stay as it was, or become null, when the cycle is over.
* Submitting an empty PIN is ignored by the PIN field (`AppliancePinText`), so
  `SetStoredPin` takes a PIN.

`Inputs` names the stimuli a run considers: "drop", "search_fail", "auth_fail",
"repeated" (SMP rate limit), "security" and "write_fail" (failed writes),
"truncated", "poll_refused", "revoked", "lacking", and one for each button.
Theorems hold for every `Inputs`, unless they say otherwise.

## 4. Runs

| Run | What it asks | Result |
|---|---|---|
| `hub_faults` | A hub with two PINs that nobody touches; link, stack and appliance fail in every order. Types and counters, flags and their timers, strikes, intent, supervision, unlocked channels, clean discovery, Status. | holds |
| `hub_user` | The same hub with every button and the PIN field at any moment, drops, failed searches, refused pairings, rejected and failed writes: the unlock command, and what the user must read. | holds |
| `hub_recovery` | After any four faults in any order, with no help from the user: is the appliance's state read again and again? A session that found D6 too late stays silent, and its refresh ends it. | holds |
| `data_channel` | Every fragmentation of a stream, with up to two faults: exactly the objects come out, a fault-free stream loses nothing, the buffer finds back to the boundaries. | holds |
| `write_queue` | Every order of writes, drains and clears over more than two clock rollovers: pacing, progress, age, and the refinement of `PacedWrites`. | holds |
| `fridge_modes` | Two picks at any moment, with one fault or choice at the appliance: the last pick wins, the cache adds up, no label is guessed, the select settles. | holds |
| `property_entities` | Up to four choices at any moment, with two upsets (a lost write or message, a rejected poll, a disconnect, a restart, an operation at the appliance): each choice takes effect as made, the reports add up, the light keeps its level, every entity settles. | holds |
| `wash_cycle` | Two cycles, revised minute by minute across the end of a month, one message lost: end time and countdown follow the reports, the countdown ends. | holds |
| `late_data_channel` | `PolledChannelIsHeard` with truncated GATT tables. | violated |
| `write_before_unlock` | `SetAfterUnlock` with property writes and drops. | violated |
| `submit_after_reset` | `DataKeepsComing` with Reset Pairing, then Submit PIN for ever. | violated |
| `false_zero` | `NoFalseZero` with cycles across the end of a month. | violated |

Properties, in the order of the modules:

* `FlagHasTimer`: on a live or opening link a set `*_running_` flag has one of
  its own timers pending. Otherwise `do_periodic_poll` returns early for ever.
* `RetryFlagMatchesTimer`: `enc_retry_pending_` stands exactly as long as the
  retry is pending. Otherwise `handle_write_failed` ignores every later failure.
* `MuteHasWatchdog`, `HoldHasTimer`: the muted Status and the disabled client
  always have the timer pending that ends them.
* `UnlockCommandIsCurrent`: the cached unlock command is not that of an old PIN.
* `IdleLinkIsUnlocked`: when no flow is under way the control channel is unlocked
  and D6, if it is known, is registered, whatever retries overlapped on the way:
  polls and writes go out just then. One way to an unregistered D6 exists and is
  excepted by name ("late"): the re-read in `subscribe_initial_get_` found it. That
  such a session is no proper one is what `PolledChannelIsHeard` shows.
  `SetAfterUnlock` is the promise for writes.
* `OneStrikePerAttempt`, `GenuineDropCounts`, `IntentIsConsumed`: what counts
  against the bond.
* `PollingStatusIsCurrent`: "Connected and polling." means a live link.
* `LiveLinkIsSupervised`, `UnlockedSessionIsRefreshed`: a live session is
  always going to end by itself.
* `ColdDiscoveryStartsClean`: discovery from scratch never meets old handles,
  which the additive `update_handles_from_db_` would keep.
* `BondLossIsAnnounced`, `ResetInstructionSurvives`: what the user must read is
  not overwritten.
* `DataKeepsComing`: with a PIN stored, `[]<>` a message of the current
  connection was parsed.
* `BufferAtRest`, `ObjectsComeOut`, `FaultFreeIsLossless`, `BufferRecovers`:
  the stream, against the reference definition.
* `WritesArePaced`, `PendingIsScheduled`, `NoWriteIsOverdue`: the queue. The last
  one is the bound `write_queue.h` gives (12 s = 16 x 750 ms), plus the delay of a
  slow loop. `ImplementsPacedWrites`: every behaviour is one of the abstract queue:
  the newest values go out, in the order asked for, spaced, in time.
* `LastChoiceWins`: once the queue has drained the appliance has exactly the
  flags of the last pick, unless a write failed or somebody chose at the
  appliance since. It is an invariant, so no time may pass in which the queue is
  empty and the flags are those of two picks.
* `ReportsAddUp`: while no report is missing, the cache and what is under way
  make the appliance's state. `NoGuessedLabel`: a label needs every flag.
* `ShownSettles`: in the end the select shows the appliance's mode; a pick that
  was ignored, dropped or cut in half does not stay on display.
* `LastValueWins`: once the queue has drained, the appliance has each value last
  chosen, to half a degree, whatever was pending and merged when it was chosen.
  What undoes a choice is a write that failed, an operation at the appliance, and,
  for the crisper's temperature, automatic: in force or pending last when the
  temperature was chosen (`SetToManual`), or chosen after it. One order is
  excepted with them: automatic in force, a temperature pending, manual pending
  behind it; a temperature chosen now takes the first place, goes out ahead of the
  switch and is ignored (`WriteRuledOut`). Every other temperature pending with
  the switch, on either side of it, is covered.
* `EntitiesAddUp`: while no report is missing and every write is through, what the
  entities show, updated with what is under way, is the appliance's state: the
  optimistic states need no other correction. The drawer with a switch of its own
  is left out; a push of the main door alone is mirrored to it.
* `LightComesBack`: off and on again leaves the accent light at its level, once
  that level has been seen. `EntitiesSettle`: in the end every entity shows what
  the appliance has.
* `EndTimeIsCurrent`: within a month, the end time on display is less than the
  jitter threshold away from the last one reported. `CountdownIsCurrent`: the
  remaining time is that of the last report which allowed to compute one, or 0
  after the cycle. `CountdownEnds`: it stops with the dishwasher.

### Bounds

* One hub, one appliance: a hub has no state in common with another.
* `StaleBondsThreshold` is the code's 3. The other thresholds are the code's or
  smaller (`MaxEncryptionRetries` 1 or 2 for 5, `MaxD6RediscoverAttempts` 1 or 2
  for 2): each is compared with one counter, and both sides of every comparison
  and the step across it are reached. `PairingBackoffMax = 300` with an initial
  60 walks the whole doubling, cap included; 60 collapses it where the interval
  does not matter.
* One PIN tells "set" from "empty". Two are needed, and used, where the PIN
  changes (`hub_user`; `hub_faults`, where a poll response may bring another).
* `MaxFaults = 4` in `hub_recovery`: more than the strikes that clear a bond and
  than the rediscoveries that park a session, so each of these happens and is
  followed by recovery.
* `data_channel`: objects of 2 and 5 bytes, nested once; fragments up to 4
  bytes, so that one holds the end of a message, a whole one and the start of a
  third; the size cap at 8 bytes is crossed by unbalanced input.
* `fridge_modes`: both selects; two picks, since an overlap needs two and a third
  meets the same queue, coalesced; one upset of each kind in turn, at any moment
  between them; two messages under way. `MaxPending` is the code's 16: a
  refrigerator's entities write 15 different properties, so with coalescing the
  queue never fills, which `PickerAssumption` requires.
* `wash_cycle`: a month of 4 minutes, so that a cycle starts before its end, at
  it and after it; a threshold of 2, so that one revision is below it and two are
  not; two cycles, so that one meets what the other left; one lost message.
* `property_entities`: two values per property, or one on each side of what the
  code compares with; for the light a third, to tell a remembered level from the
  default. Four choices, so that off and on overlap twice; two upsets, so that a
  restart meets an operation at the appliance or a lost report.
* `write_queue`: four keys for three places (the limit, a coalesced write at the
  limit and a dropped one all happen), a clock that wraps at 8 with a spacing of
  3, explored for 18 steps. For 2^32 the same is proved (section 5). What a wrap of *exactly* a whole clock period between
  two writes does is visible too: a write is late by one spacing at most.

### Fairness

`Spec` of `SubzeroHub` has none: it is used for safety only. `RecoverySpec`:

* weak fairness of every timeout and of the poll interval: ESPHome runs each
  timeout that is not cancelled;
* weak fairness of dialling while enabled, of service discovery and of the
  DISCONNECT after a hang-up: the client's own job;
* strong fairness of encryption and of the appliance's answer. These take
  seconds, and a session 18 minutes. Without delays the refresh could overtake
  them in every session, which real time excludes; strong fairness excludes
  just that.

Faults are never fair and bounded in number: the promise is that the hub
recovers from any sequence of them once they stop. A *failed service discovery*
is not among these faults. It runs `handle_disconnected` while the connection
stays, and what ends such a connection is up to the appliance.

`HubRepairing` adds weak fairness of Submit PIN, pressed for ever.
`DataChannel` assumes that poll ticks go on and that the appliance finishes a
message it has begun; it need not begin another, so recovery does not depend on
it talking. Its polls find no message half assembled (`PollsMidMessage` is
FALSE): `do_periodic_poll` compares sizes only, so two ticks that find two
different messages half assembled at the same size would discard the second one
(hazard at `hub.cpp:624`).

`FridgeModes`, `PropertyEntities` and `WashCycle` assume that a drained write is sent or dropped,
that messages are handled, that the hub reconnects and polls (which `hub_recovery`
shows), and that a wash cycle ends. Picks and faults are never fair.

### What the violated runs show

Each checks one promise of a comment, a doc or a test (quoted in `findings`).

1. **late_data_channel.** D6 is registered, and its CCCD written, in
   `subscribe_register_and_cccd_` and only if it is known by then. When the re-read
   of the table in `subscribe_initial_get_` finds it 1.5 s later, the hub
   polls D6 and publishes "Connected and polling." without either. It hears
   nothing until the connection is set up again, at the latest by the session refresh
   18 minutes later; the fast reconnect that follows knows D6 and registers it
   (`hub_recovery`). The test of the re-read looks
   at the handle, Status and the timer, not at the registration.
2. **write_before_unlock.** `write_set_property_` is guarded by `d5_handle_`, by
   `pin_confirmed_` and by `connected()`. On a first connection the first is set by
   the discovery that begins the pairing, the second is true at boot and the third
   true from the service discovery, so a write passes before the unlock of the
   control channel is written, seconds later.
3. **submit_after_reset.** After Reset Pairing, `pin_confirmed_` is false. The
   periodic poll needs it, Submit PIN works on D5 only, and only a response on D6
   sets it: the button never leads back to data. (Poll does.)
4. **false_zero.** A cycle that ends next month has no remaining time, so nothing
   is published, and the 0 of the cycle before stays on display.

Further ones are left to the hazards. Disconnect pressed on an idle client sets
`intentional_disconnect_` although no DISCONNECT will consume it, and the flag hides
the next genuine drop (`IntentIsConsumed` and `GenuineDropCounts` are violated with
"disconnect" among the inputs). A crisper temperature merged into a place ahead of
the switch to manual is ignored (`LastValueWins`, if `WriteRuledOut` left `chosen`
alone). A failed SEARCH_CMPL on a reconnect charges
a strike and leaves the link, and the DISCONNECT that follows charges another
(`OneStrikePerAttempt` is violated with "search_fail"). If the third strike is a
rate-limited refusal, "Bond cleared" is overwritten in the same handler
(`BondLossIsAnnounced`, with "repeated"). A session parked without a PIN arms no
refresh, a PIN entered later is used by the next poll, and no timer ends that
session (`UnlockedSessionIsRefreshed`, with "set_pin"). The passing runs leave
these inputs out, and the theorems name them as assumptions.

Two more divergences have no promise to be held against and are hazards only:
Connect on a live link leaves that link unsupervised, and so does a failed
service discovery.

## 5. Theorems

With TLAPS, for all values of the constants (PINs, thresholds, inputs; keys,
values, limit, spacing and clock width; messages, corruptions, capacity and
fragments; picks, upsets and messages under way; temperatures, light levels and
the default level; length of a month) that satisfy the named assumptions of the
modules, which TLC evaluates in the runs. Every invariant and every action
property that a passing run checks is one of these theorems.

| Theorem | Says | Needs |
|---|---|---|
| *SubzeroHubProofs* | | |
| `TypeCorrect` | `Spec => []TypeOK` | three inductive parts: `FlagsOK`, `SetsOK`, `CountersOK` |
| `RetryFlagIsExact` | `Spec => []RetryFlagMatchesTimer` | inductive given the types |
| `MuteEnds` | `Spec => []MuteHasWatchdog` | inductive given the types |
| `UnlockCommandIsNeverStale` | `Spec => []UnlockCommandIsCurrent` | inductive |
| `ClientIsEnabledAgain` | `Spec => []HoldHasTimer` | `HoldInv` |
| `InstructionSurvives` | `Spec => ResetInstructionSurvives` | `ResetInv` |
| `ColdDiscoveryIsClean` | `Spec => []ColdDiscoveryStartsClean` | `HoldInv`, `ColdInv` |
| `IntentIsAlwaysConsumed` | `NoUserHangUp`: `Spec => []IntentIsConsumed` | `HoldInv`, `IntentInv` |
| `BondLossIsHeard` | no rate limit: `Spec => BondLossIsAnnounced` | types |
| *HubFlowProofs* | | |
| `FlagsHaveTimers` | `Spec => []FlagHasTimer` | `ColdInv`, `FlowInv` |
| `OneStrikeIsCharged` | no failed search: `Spec => []OneStrikePerAttempt` | `HoldInv`, `StrikeInv` |
| `GenuineDropsCount` | `NoUserHangUp`, no failed search: `Spec => GenuineDropCounts` | `StrikeInv`, `IntentInv` |
| `LiveLinksAreSupervised` | `Unaided`: `Spec => []LiveLinkIsSupervised` | `HoldInv`, `ColdInv`, `FlowInv`, `SupervisedInv` |
| `UnlockedSessionsAreRefreshed` | `Unaided`: `Spec => []UnlockedSessionIsRefreshed` | the same |
| `IdleLinksAreUnlocked` | `Unaided`: `Spec => []IdleLinkIsUnlocked` | the same |
| `PollingStatusStaysCurrent` | `Undisturbed`: `Spec => []PollingStatusIsCurrent` | `HoldInv`, `ColdInv`, `FlowInv`, `IntentInv`, `RefreshInv`, `PollingInv` |
| *DataChannelProofs* | | |
| `ChannelAtRest` | `Spec => []BufferAtRest` | `ChannelInv` |
| `ChannelCutsObjects` | `Spec => []ObjectsComeOut` | `ChannelInv` |
| `ChannelIsLossless` | no poll within a message: `Spec => []FaultFreeIsLossless` | `ChannelInv`, `InStep` |
| *WriteQueueProofs* | | |
| `QueueTypeCorrect` | `Spec => []TypeOK` | `QueueInv` |
| `PacingHolds` | `Spec => []WritesArePaced` | `QueueInv` |
| `NothingIsStranded` | `Spec => []PendingIsScheduled` | `QueueInv` |
| `WritesAreInTime` | `Spec => []NoWriteIsOverdue` | `QueueInv` |
| `QueueImplementsPacedWrites` | `Spec => ImplementsPacedWrites` | `QueueInv` |
| *WashCycleProofs* | | |
| `EndTimeStaysCurrent` | `Spec => []EndTimeIsCurrent` | `EndTimeInv`, `SameMonthDistance` |
| `CountdownStaysCurrent` | `Spec => []CountdownIsCurrent` | `CountdownInv`, `MinutesAreTimeLeft` |
| `WashTypeCorrect` | `Spec => []TypeOK` | `TypeInv` |
| *FridgeModesProofs* | | |
| `FridgeTypeCorrect` | `Spec => []TypeOK` | `FridgeInv` |
| `FridgeLastChoiceWins` | `Spec => []LastChoiceWins` | `FridgeInv` |
| `FridgeReportsAddUp` | `Spec => []ReportsAddUp` | `FridgeInv` |
| `FridgeNoGuessedLabel` | `Spec => []NoGuessedLabel` | `FridgeInv` |
| *PropertyEntitiesProofs* | | |
| `EntityTypeCorrect` | `Spec => []TypeOK` | `EntityInv` |
| `EntityLastValueWins` | `Spec => []LastValueWins` | `EntityInv` |
| `EntityReportsAddUp` | `Spec => []EntitiesAddUp` | `EntityInv` |
| `EntityLightComesBack` | `Spec => []LightComesBack` | `EntityInv` |

Each invariant has a step lemma (`HoldStep`, ...) with one step per action that
touches its variables and one for the others; temporal logic does the rest. The
strengthenings are what carries the argument:

* **`HoldInv`**. "Disabled, so the timer is pending" is not inductive: Connect
  and Reset Pairing cancel the timer and enable the client only if
  `pairing_backoff_ms_` is not 0, while a good message or a completed pairing
  sets it to 0. So the invariant adds that the interval is not 0, that the link
  is down or closing and that it is not encrypted, and hence that neither can
  happen.
* **`ResetInv`**. While the instruction stands nothing is cached, no step of the
  cold ladder is pending and a hang-up under way is intentional: the branch of
  `handle_disconnected` that says nothing is the one taken.
* **`ColdInv`**. Handles come back only through the ladders' timers, so none may
  outlive its connection or the loss of the handles.
* **`IntentInv`**. The flag does not wait in an idle hub either.
* **`FlowInv`**. Two steps of the cold ladder leave the flag standing and arm
  nothing when D5 is known already. They never find it known: the ladder is one
  chain with one timer at a time, and every other flow runs with D5 known.
* **`StrikeInv`**. No strike is charged before a connection ends, and a refusal
  that charges one sets the intent which keeps its DISCONNECT from charging
  another. A failed search breaks the first half.
* **`SupervisedInv`**. The three properties are one: the last step of the
  subscribe ladder clears the flag, arms the refresh, and has the steps before it
  to thank for the unlock and the registration. So the invariant says what has
  been done by the time each of the ladder's timers is pending; of D6, that it is
  registered, found late, or not known at all (`HeardIfKnown`).
* **`QueueInv`**. A write is in time because of its place and of when the timer
  is due: each write ahead of it takes one slot (a spacing and the delay of the
  loop), and no write ever moves back. The code measures time since the last
  write modulo 2^32; `ElapsedAtMost` says that this clock never shows more time
  than has elapsed, so the timer is never early, and a wrap of a whole period
  costs one spacing at most. The refinement maps the sequence to the set of its
  writes; that the head is among the oldest is part of the invariant.
* **`CountdownInv`**. A cycle that is over takes its end with it, so the property
  need not speak of the cycle; `MinutesAreTimeLeft` says that within a month the
  minutes counted by the code are the difference of the times.
* **`EndTimeInv`**. The property speaks of times of the same month, and a step
  may take the last report into another month and back. The invariant therefore
  keeps the threshold on the minutes of the month, as the code does, whatever the
  months are; `SameMonthDistance` says that within a month the two distances
  agree. It also adds that the value compared with is the value on display.
* **`PollingInv`**. `handle_disconnected` leaves Status alone after an intended
  hang-up without handles, and a ladder that is still running while the refresh
  hangs up may say "Connected and polling." once more. So the invariant says that
  while an intended hang-up is under way, a pending ladder runs with D5 cached, and
  D6 is known or given up for good; `RefreshInv` says why (the refresh is armed in
  no other case), and then no rediscovery makes the hub forget its handles before
  the DISCONNECT.
* **`ChannelInv`**. The depth and the end of a buffer are those of its *bytes*,
  counted from scratch (`WholeBuffers`): `feed`, which goes on counting, and
  `consume`, which counts a tail again, both preserve that. One object is cut off at
  a time; `Reached` says of each round of the loop which objects are out and which
  bytes are left, in terms of the stream alone.
* **`InStep`**. Without a fault the buffer holds what was sent of a message of which
  the rest is still to come (`MidStream`); so no byte before the last completes an
  object, and the size cap is not reached, since `kMaxBytes` has room for a message.
* **`FridgeInv`**. "Once the queue has drained" says nothing of a queue half drained.
  The invariant says of each flag that it is as chosen or its write is pending with
  the value chosen, and of each pending write that its value is the chosen one:
  coalescing leaves no write of an older pick. It needs that no key is twice in the
  queue, which is also why the queue never overflows. `Agree` says the same of
  reports: the last message under way that has the flag, or else the cache.
* **`EntityInv`**. As before, flag by flag, with what makes entities differ: a
  choice agrees with the appliance *or* with the pending write (`ChosenHolds`); a
  temperature that is chosen and pending finds the last word on the mode, pending or
  in force, to be manual (`TempHolds`), so that one the crisper ignores has the switch
  behind it; a state on display agrees with the appliance, a pending write or a
  message under way (`ShownHolds`, where the doors' aliases are resolved once, by
  `SourceOf`); and whatever is remembered, reported or pending about the light is 0
  or its level (`LightHolds`).

The byte stream and the sequences of writes need induction over data. The
library's induction theorems take an operator as a parameter, which the provers
cannot instantiate; `Induction` derives what is needed from the well-foundedness of
`<` instead, in a form whose hypotheses name a *set* (`InductionUpTo`), and proves
that a function defined by recursion over 0..N exists (`RecursionUpTo`), without
which nothing is known of a recursive definition. `Feed`, `Processed`, `Objects` and
`Queueing` are reasoned about through these.

`NoUserHangUp`, `Unaided`, `Undisturbed` and the absence of "repeated" and
"search_fail" are not conveniences: without them the statements are false, as
sections 4 and 6 say. The one exception is "reset" in `Undisturbed`: TLC finds no
violation with it, but the proof rests on `IntentInv`, which Reset Pairing breaks.
`PollsMidMessage` must be FALSE for `ChannelIsLossless` (hazard at `hub.cpp:624`);
the other two theorems about the stream hold whenever the poll falls.

Model-checked only: what takes fairness (`DataKeepsComing`, `BufferRecovers`,
`ShownSettles`, `EntitiesSettle`, `CountdownEnds`), since liveness is out of the
prover's reach. The theorems about the same modules are the safety half of their
arguments: nothing stands that no timer clears, the reports add up, the queue
drains to what was chosen.

## 6. Not modelled

* Fields that the parser reads and the dispatcher publishes one by one, beyond one
  of each kind; the notification events; dates and uptime; the command strings;
  the GATT scan; the log sanitizer. These are pure conversions without state or
  order, which the unit tests of the repository reach as well as a bounded check. The hub meets the
  parser as inputs: what a message turned out to be.
* The range's timers and the dishwasher's other fields, published as they come.
  The Clear Cloud Token button (one more write) and the debug switch.
* The labels that appear while one message is dispatched, flag by flag:
  `FridgeModes` handles a message in one step.
* `poll_ok_`/`poll_miss_`, `last_pairing_error_`, debug mode: reporting that no
  guard reads.
* The early returns of the poll before its buffer flush are in `SubzeroHub`
  (`PollDue`) and not in `DataChannel`, where a tick always flushes.
* "write_fail" is not among the inputs of `hub_faults`. When a refresh hangs up,
  failed writes clear the handles and a pending `subscribe_get_` finds them again
  before the DISCONNECT comes, that event counts as a reset flow and leaves
  "Connected and polling." in Status. It takes a refresh to overtake a timeout of
  a second, so it is a hazard with that note and not a finding. Connect, Disconnect
  and Log Debug Info lead to the same text by hanging up or forgetting the handles
  under a running ladder. `hub_user` and
  `hub_recovery` have the failed writes.
* A GATT layout that changes under a live connection; two hubs sharing the
  radio; flash and RAM limits; boot order (the PIN restored from flash is
  `Init`'s `storedPin`).

## 7. Plan

Done, in this order: the hub with its link and its safety runs; recovery, the
stream and the queue; modes and the wash cycle; entities of one property; the
abstract queue and its refinement; the theorems of section 5, which now cover every
invariant and action property of the passing runs. Left:

1. `WriteQueue` composed with `SubzeroHub`, with time: how long after a reconnect
   a queued write may meet a locked channel. `SetAfterUnlock` is violated with
   writes at any moment already, so the composition would only narrow the
   counterexample.
2. The order of CCCD, unlock and poll writes when a retry overlaps a subscribe,
   beyond what `IdleLinkIsUnlocked` says of its outcome.
3. An abstract specification of the hub ("idle, connecting, live, held off") and
   its refinement.
4. The labels between two flags of one message, and a month between two end times.
