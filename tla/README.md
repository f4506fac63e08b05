# Verification of the CubeCell MeshCore repeater

TLA+ modules, TLC configurations and TLAPS proofs for the firmware in
`src/src`: `main.cpp`, the headers of `mesh/`, and `core/`. Paths and line
numbers below are relative to `src/src` unless they begin with `docs/`,
`README.md` or `FEATURES_ADDED.md`, which are next to it.

1. The system
2. The modules
3. The runs: bounds, fairness, results
4. The disagreements found
5. The proofs
6. What is not modelled
7. The plan

## 1. The system

The program is one Arduino sketch: `setup()` once, then `loop()` for ever, in a
single thread. The only concurrency inside a node is the DIO1 interrupt of the
radio, which sets a flag, and the radio itself, which receives, overwrites its
one buffer and changes its status register on its own. Everything else that is
hard comes from outside: other nodes that relay, repeat, reorder and lose
packets; power that goes and comes back; a clock that jumps when it is
synchronised and a `millis()` that wraps; a radio that fails.

| Component | State | Operations | What makes it correct |
|---|---|---|---|
| Main loop and radio (`main.cpp` 1400-1607, 3207-3485) | `dio1Flag`, `activeReceiveStart`, error counters, timers; the radio's mode, buffer and status | `loop`, `transmitPacket`, `startReceive`, `isActivelyReceiving`, `checkAdvertBeacon`, sleep, reset | no packet processed twice or discarded once announced; none sent twice or lost without a reason; the node is never deaf |
| Transmit queue (`core/globals.cpp` 240-290) | four slots, count | `add` (shifts out the oldest), `pop` | order kept, bound kept |
| Forwarding (`main.cpp` 2161-2265, 3167-3201; `globals.cpp` 150-170) | ring of 32 identifiers | `getPacketId`, `shouldForward`, path changes | floods reach everybody and end; direct packets keep their route |
| Packet handler (`main.cpp` 2910-3202) | all of the others | one branch for each payload type | each request is answered, no answers without end |
| Client sessions (`mesh/Crypto.h` 367-577; `main.cpp` 2387-2908) | eight sessions, two passwords, `reportDestPubKey` | login, request, command, clean-up | commands only for administrators, nothing twice, sessions last as long as they should |
| Rate limiters (`mesh/Repeater.h` 68-161, 828-849) | window start and count for logins, requests, forwards | `allow`, `configure` | refuse only at the limit, never let more through |
| Mailbox (`mesh/Mailbox.h`) | two slots in EEPROM, four in RAM | `store`, `popFor`, `expireOld`, `clear`, `load` | nothing stored twice; delivered twice only after a restart that undid a failed commit; damaged only by the region map |
| Region map (`mesh/RegionMap.h`) | four entries with keys, wildcard | table operations, `save`, `load`, `findMatch` | what was saved is loaded |
| Seen nodes, health monitor (`core/globals.cpp` 172-235; `main.cpp` 2105-2121) | 16 nodes with last time, count and SNR | `update`, `healthCheck` | one alert each time a node falls silent |
| Neighbours, circuit breaker, adaptive power (`mesh/Repeater.h` 163-470, 1200-1260) | 50 neighbours, breaker state, power | `update`, `cleanup`, `isCircuitOpen` | a bad link opens, a good one closes |
| Time and ADVERT schedule (`mesh/Advert.h`; `main.cpp` 2123-2152) | base time, pending timestamp | `syncFromAdvert`, `shouldSend` | a clock that is set moves only when two receptions agree |
| Configuration, identity, statistics (`core/Config.cpp`, `mesh/Identity.h`) | three sections of the EEPROM, each with a copy in RAM | `load`, `save`, `reset`, counting | survive reboots and failed commits; uptime and boots add up |
| Commands (`main.cpp` 220-1330) | temporary radio parameters, scheduled reboot | serial, remote and common commands | end and come when they should, across a wrap of the clock |
| Contacts, alerts, report (`mesh/Contacts.h`; `main.cpp` 1804-2052) | contacts with cached secrets, day of the last report | add, replace, search, encrypt | the right key for the right contact; one report a day |
| Discovery, access list (`main.cpp` 2283-2365; `mesh/Repeater.h` 484-702) | times of four answers; permissions of keys | `processDiscoverRequest`, `setperm` | bounded number of answers; no old permission |
| Telemetry, LED, cryptography | last values | reading, formatting | pure |

The parts interact by calls from `loop` and from the packet handler, and share
`txQueue`, `packetCache`, `seenNodes`, `timeSync`, `sessionManager` and the
EEPROM. `PROJECT.json` lists the components with their sources and the hazards
with their lines.

## 2. The modules

| Module | Models | Extends |
|---|---|---|
| `Outbox` | what the transmit path promises: the abstract specification of `RadioLoop` | |
| `TxQueue` | `add`, `pop` and what `add` shifts out, as operators on a sequence | |
| `RadioLoop` | one node's loop, interrupt, radio, timers and commands | `TxQueue` |
| `Forwarding` | identifier, ring, the tests of `shouldForward`, the path, as operators | |
| `Mesh` | several nodes with the packet handler, their clients and the channel | `Forwarding`, `TxQueue` |
| `Mailbox` | mailbox, its users, the EEPROM shared with the region map | `Eeprom`, `TxQueue` |
| `TimeSync` | the clock and its synchronisation, as operators on a record | |
| `Repeater` | the limiter of discovery answers and the access list, as operators on their tables | `TimeSync` |
| `Links` | seen nodes and their alerts, neighbours, circuit breaker, transmit power, time, quiet hours, discovery answers, permissions | `Repeater` |
| `RateLimiter` | `allow()` as operators on a record | |
| `Access` | passwords, sessions, logins, requests, the two limiters in front | `RateLimiter` |
| `Eeprom` | the library's buffer and the flash behind it | |
| `Settings` | configuration, identity and statistics in RAM and EEPROM, `setup()`, the commands that change them | `Eeprom` |
| `ContactTable` | the contacts, their replacement, the search by name, cached secrets, as operators on the table | |
| `AdvertFormat` | the application data of an ADVERT: how it is written and how it is parsed | |
| `Upkeep` | a node's settings with its contacts, radio parameters, scheduled reboot and daily report | `Settings`, `ContactTable`, `AdvertFormat` |
| `MCRadioLoop`, `MCMesh`, `MCMailbox`, `MCLinks`, `MCAccess`, `MCUpkeep` | values of the constants for TLC | their module |
| `TxQueue_proofs`, `RadioLoop_proofs`, `Mesh_proofs`, `Mailbox_proofs`, `Links_proofs`, `Access_proofs`, `Settings_proofs`, `Upkeep_proofs` | theorems | their module, TLAPS |

### RadioLoop

`pc` names the place in `loop()`; each step is the code between two places where
an interrupt, the radio or a timer can make a difference. `radio` and `irq` are
the SX1262's mode and status register; `rxState[p]` says where a packet of a
neighbour is (on the air, in the buffer, read, bad, lost), `txState[t]` what
became of a packet of this node. A transmission is three steps (start, poll,
status), the wait before it one per round. Restarting the receiver and starting
a transmission discard what the buffer holds (`LoseReception`), which is where
the interleavings bite. Timers have the states off, armed and due; `Elapse` may
come at any time. `Fault` lets `transmit`, `startReceive`, `readData` or the
status register fail, `MaxFaults` times; the error counters lead to the reset of
the radio and the reboot as in `handleRadioError`.

Abstractions: a packet is a value; durations are not numbers; one ADVERT
interval is configured (`floodAdvertIntervalMs = 0`, the default); a command
arrives at the serial step, a remote one while a packet is processed.

`Outbox` knows neither queue nor radio: each packet is fresh, pending, sent or
dropped; it is accepted once, which may drop another, and settled once; a restart
drops what is pending. `Fits` bounds the pending packets by the slots of the queue
and the one in the loop's hands. `RadioLoop!KeepsPromise` is `Outbox!Spec` with
`FateOf(t)`, which maps the states of a packet to those four.

### Forwarding and Mesh

A packet carries its route type, payload type, originator, number, destination
hash and path; `via` and `start` are history. `PacketId` is made of what
`getPacketId` looks at: the header, the first bytes of the path and of the
payload; equal inputs and no others give equal identifiers (no collisions of the
32-bit hash). In an ADVERT the first 16 bytes are half of the public key, in a
PONG the hashes and the sender's name when that has 12 characters or more, which
the model assumes. `ForwardOutcomes` is `shouldForward` with the order of its
tests: what is refused early (a duplicate, a weak signal, a region) leaves the ring
alone, what is refused late (rate limit, open circuit, loop detection, a full path)
is in the ring already. `Relayed` is the change of the path: a flood appends the hash, a direct packet takes it off the front.

`Mesh` puts the operators at every node, with one receive buffer, a queue and a
handler for each payload type. A transmission is the summary of `RadioLoop`:
sent to the neighbours, put back at the end, or lost. With `Lossy` a copy may
miss a neighbour and the queue may be reordered by re-queueing; without it each
neighbour gets it. A scene is one situation, chosen in the initial state: the
packets that clients and nodes create and the mode of loop detection; what they
create is an `IsNewPacket`, whose path is empty or a route they wrote into it. A
discovery request is answered by every repeater with a packet that has the
request's route and path; `AsksRepeaters` is the pair of tests that such an
answer must fail (its first byte passes the first of them).

### Mailbox

`slots` are the places of both arrays, `InEeprom` (1 and 2) and `InRam`, `count` and
`tail` the header's count and the bytes of slot 2 that reach into the region map, all as
the RAM has them; `eeprom` is `Eeprom`'s buffer and flash with the same fields. The
layout is in bytes as far as slot and region map overlap (`SlotSize`, `SlotAt`); it
depends on `Alignment`: 1 is the packed layout that the documents give, 4 the one the
compiler makes. `WriteSlot` puts a slot and the header and commits; `Commit` may
fail, which nobody notices, and the buffer then stays ahead of the flash until the
next commit of any section (`OtherCommit`).

The callers: the handler that stores for a node that is known and silent, the ADVERT
that delivers, the clean-up, the commands, the restart that loads. The ADVERT's
handler is one step for each place where the power may fail: `Pop` empties a place with
its commit, `QueuePopped` queues what is in hand, `FinishAdvert` relays the ADVERT
itself, behind what it set free. `task` says which handler is under way, with the packet in
hand. The clean-up is one step for each place. Whatever else goes
into the queue (relays, answers, alerts) is one value, `Other`; `Transmit` is the
summary of `RadioLoop`: the head of the queue leaves.

History: `stored` and `queued` count a packet's copies taken in and given out,
`undone` the restarts that found less in flash than was put, `task.due` is what
waited when the ADVERT came, `saved` the region map last saved, and `overlaid` the
packets that were in slot 2 then.

### TimeSync and Links

`SyncFromAdvert` is the function of that name: the first believable timestamp
sets the clock, later ones only if two that disagree with it agree with each
other. `Mean` keeps the 32-bit sum, `Elapsed` the wrap of `millis()`.

In `Links`, `seen` and `neighbours` are the two tables, the first in the order
of its array, the second with free places; `MinuteTasks` are `cleanup`,
`healthCheck`, `evaluateQuietHours` and `evaluateAdaptiveTxPower`, which `loop`
runs one after the other when `millis() - lastCleanup` is over the period, and
which are therefore one action. (Sessions and mailbox, cleaned up in between,
are `Access`'s and `Mailbox`'s.) A packet heard is an ADVERT or another one of
which the path counts. All times are kept modulo `Wrap` as in the code, the
history (`heardAt`, `advert`, `readySince`, `lastClaim`) with the true time, so
that the properties are about real silence and real age. `told` counts the
alerts since a node was last heard and ends at two. The commands for alerts,
power, time and quiet hours, `setupRadio` and a reboot may come at any time.

There is a scene for each of the parts, which depend on each other only through
the time and the ADVERTs: neighbours next to the node with the commands for power;
nodes further away with the alerts; clocks that are wrong; quiet hours; discovery
requests; permissions. Names,
averages of signals and packet counts above the threshold are left out, and so
is the count of the limiter for forwards.

### RateLimiter and Access

`Allows` and `After` are the two results of `allow()`. The count stops one above
the limit; 65536 operations in one window are outside the model.

In `Access` a packet has a client, a timestamp, a kind and a password. Any of
the packets may arrive at any time and any number of times, which covers delay,
reordering and repetition, before and after every reboot. The client with which
a packet is associated is what the cryptography guarantees; the search for the
session by one byte of the key is as in the code, so that the session of another
client with that byte hides one's own. `Login`, `LoginRefused`, `Request` and
`RequestRefused` are the outcomes of `processAnonRequest` and of the two request
handlers, which do the same up to the command they carry. The two passwords and
`reportDest` survive a reboot (`saveConfig`); sessions and limiters do not.
`now` is the time since boot, which the code sees modulo `Wrap`. The clean-up is
urgent: `Tick` waits for it, because the loop comes round many times in a unit of time.
`heard`, `granted`, `done` and `recent` are history; `recent` has the operations
that a limiter let through within the length of a window, each with its time and
its number among those of the same time.

Abstractions: all requests that any client may make are a "status"; of the
commands the one that sets the administrator's password is kept; the limiters
are on (the default).

### Eeprom and Settings

The EEPROM library has a buffer in RAM, into which `put` writes, and flash, to
which `commit` writes the whole buffer; a commit that fails leaves the buffer as
it is, so that the next commit of any section makes the change permanent.
`Eeprom` has just that, with one value for each section (a section of which the
magic number or the checksum is wrong is `Blank`). `Settings` has the three
sections with their copies in RAM. `boot` names the step of `setup()`: load
the configuration, the statistics, the identity; each writes defaults when it
finds none. `PowerLoss` may come between any two steps and in any state.

Each command and each event that changes one of the copies is an action, with
its save where the code has one: reports and alerts with their destinations,
name, type, location, a new key, reset, `save`, the settings that one command sets
(one action, `SetField`), the counters (`Record` for all eight, in RAM only), the
save of the statistics when its interval is over, the clock and the time of the
first boot. `life` and `promise` are history: what was counted and kept,
independently of the code's own variables, and what a reboot should bring back.

### ContactTable, AdvertFormat, Upkeep

`Updated` is `updateFromAdvert`: the contact with the first byte of the key, else
a free place, else the one with the smallest `lastSeen`. `FoundByName` is a set,
because a text longer than a name is looked for in whatever stands behind it.
`Appdata` and `Parsed` are `buildAppdata` and `parseAdvert`, byte by byte as far as
the tests for malformed data look at bytes.

`Upkeep` adds what a node has in RAM only and what follows from its settings:
the parameters the chip is set to, temporary ones with their expiry, the reboot
that `reboot` and `clkreboot` schedule, contacts, the destinations chosen by
name, messages, the daily report. `deadline` and `announced` are history, and so are, since the clock was set,
`reported` (the days of the reports), `before` (the day remembered from earlier) and
`readyFrom` (the time from which reports have been possible without a break).
`Pass`, one unit of time, waits for what is due in `loop()`, because a unit of time
is longer than a round of the loop.

## 3. The runs

All bounds are constants in the `.cfg` files and named in the modules. Deadlock
checking is off where the traffic or the clock is bounded and the system may
stop; `Access` can always reboot and is checked for it.

| Run | Bounds | Shows |
|---|---|---|
| `radio_safety` | 2 packets in, 2 out, a queue of 1, 2 faults, all commands, AGC reset and deep sleep on | `TypeOK`; `InOnePlace`: a packet to send is once in the queue or in hand until it has an outcome; `RequeueNeverEvicts`; `ReadsAnUnreadPacket`; `DiscardsOnlyUnseen`; `ListensOrHasPacket`; `KeepsPromise`: the refinement of `Outbox` |
| `radio_liveness` | the same packets, a queue of 2, 1 fault, no commands | `QueueDrains`: every packet is sent or dropped; `HearsAgain` with the AGC reset on |
| `radio_deaf` | 1 packet each way, AGC reset off (the default) | violation of `HearsAgain` |
| `mesh` | a line of 3 nodes, the ends with the same hash, a ring of 1. With losses and refusals: loop limit 2. Without: paths of 4; a PATH_TRACE and a directed PING without loop detection, a discovery request, and floods, an alert and a direct request at loop limit 1 | `Bounded` (types; `RelaysBounded`: no node relays a flood more often than its loop detection allows), `RouteFollowed`; without loss `FloodsEnd`: all traffic dies out, `TrafficArrives` (`FloodsReach`, `DirectAnswered`) |
| `mesh_adverts` | two ADVERTs of one node | violation of `AdvertsReach` |
| `mailbox` | 4 scenes with the compiler's layout, 2+2 slots, a queue of 3: 6 packets for one node, of which four are alike (symmetry), one is long and one does not fit; 2 packets and a failed commit; a long packet, stored twice, a region map and a failed commit; 2 nodes | `Consistent` (types; `CountAgrees`: in RAM, buffer and flash the header counts the slots in use), `NeverTwice` (`NoDoubleStore`, `AtMostOnce`), `LosesOnlyForRoom` (`EvictsOnlyWhenFull`, `DeliveredTogether`), `DamagedOnlyByOverlap`: slots and deliveries are what was received, unless the region map was saved over them |
| `mailbox_regions` | 3 packets for two nodes, one region map, 2+1 slots, no failed commit, the same layout | violation of `RegionMapPersists` |
| `links` | 3 nodes, two with the same first byte; tables of 2; alerts from 2 packets; time limits of 1 and 2, a clock that wraps after 4 units and stops at 6 (3 for the clocks); a day of 4 hours; timestamps modulo 128; 2 answers in 2 units; 2 permissions for 3 keys | `TablesConsistent` (types, `PermissionsCurrent`), `ToldOnce` (`OneAlertPerSilence`, `SilenceNoticed`), `ForgetsLongestSilent` (`ForgetsOldest`, `GivesUpLongestSilent`), `WithheldForAReason`, `NeverWeakerThanBelieved`, `ClockMovesByConsensus`, `LimitFitsHour`, `DiscoveryLimited` |
| `access` | 3 clients, two of them with the same first byte, 6 packets, 2 sessions, limits 2 and 1 in windows of 2 | `TypeOK`, `OneSession`, `OnceInOrder`, `CommandsNeedAdminLogin`, `SessionsLast` (`KeepsSession`, `IdleSessionsEnd`), `LimitsHold` (`RefusedOnlyWhenBusy`, `AtMostTwice`) |
| `upkeep` | 10 scenes: up to 2 reboots and 2 failed commits; a save interval of 3 units, a second of 2, a clock that wraps at 8; 4 keys, two with the same first byte, for 2 contacts; spans of 2 and 3 units; two days of 8 | `TypeOK`; `KeepsWhatWasSaved` (`RebootKeepsSettings`, `FirstBootOnce`), `ReportsHaveDest`, `StatisticsAddUp` (`BootsCounted`, `UptimeExact`, `LosesOnlyRecent`); `RadioAsConfigured`, `OnTime` (`DeadlinesKept`, `NeverEarly`); `ContactsTheirOwn` (`SecretIsCurrent`, `NamesAreTheirOwn`); `ReportedOnce`; `AdvertTellsIdentity` |
| `contact_names` | two contacts, a text longer than the name of one | violation of `FoundBearsName` |
| `access_wrap` | the same with a clock that wraps after 4 units | violation of `RefusedOnlyWhenBusy` |

Why the bounds are enough for the questions asked: the radio has one buffer, so
that two packets in give every interleaving of one arriving while the other
waits, is read or is discarded; a queue of one makes every addition an eviction;
two faults let one happen during the recovery from another. Three nodes in a
line are the smallest net with a relay between two ends, and the colliding
hashes make the ends indistinguishable. Five packets that fit fill two and two slots
and one more; more of them wait for a node than the queue has places, or as many, or fewer.
One failed commit puts flash, buffer and RAM apart wherever it happens, and a
restart or the next commit brings them together again. Three clients and two sessions make an eviction, and client `a` has a
login as administrator, one as guest and a command, so that copies of the first
login can come back after the others. The sizes are smaller than in the firmware
(queue 4, ring 32, sessions 8, slots 2+4, limits 5 and 30 in 60 s); the code
treats them as parameters. In `links` three nodes for tables of two make every
new node replace one, and the clock wraps once with entries from before. The
ring of one in `mesh` forgets an identifier as soon as the next one
comes, so that only loop detection and the length of the path end a flood. In
`access` the unit of time is half a window and the
time limit of a session is scaled down to one unit; the clock stops at 4. In
`upkeep` each scene is one owner's or neighbour's behaviour with the faults that
concern it: two failed commits and a save of each section in between make
buffer, flash and RAM differ in every way they can; the clock wraps once with
deadlines on both sides of it and one on the wrap itself; four keys for two
places make contacts replace each other and one return; a second of two units
makes the uptime lose fractions, the report's day comes round with the clock
set back and forward and with reboots.
`WithoutHistory` (in `MCMesh`) is a view that drops history variables which the
properties of that run do not need. `Exchanges` (in `MCMailbox`) is the symmetry of the
packets that differ in their content alone.

Every property has a mutant: a definition that differs from a mapped one the way
a slip in that code would (`..._NoShift`, `Replayed_Never`, ...), with which TLC
finds the property violated under the same configuration. The mutants stand
before the definitions they replace and are used nowhere else.

**Fairness.** `RadioLoop`: weak fairness of the loop's step (the processor
runs; the watchdog resets it otherwise), of the end of a transmission and of a
reception on the air, and of each timer; none for the arrival of packets,
commands or faults. `Mesh`: weak fairness of each node's receiving and
transmitting, as `RadioLoop` establishes it; none for creating packets. The
liveness runs of `Mesh` assume a channel without loss and no refusals, because
nothing in the protocol repeats a lost flood. The properties of `Mailbox`,
`Links`, `Access` and `Upkeep` are safety properties; the bounded responses
(`IdleSessionsEnd`, `SilenceNoticed`, `WithheldForAReason`, `OnTime`) use the
urgency of the clean-up and of what is due: `Tick` and `Pass` wait for it, because
the loop comes round many times in a unit of time.

## 4. The disagreements found

Five runs show the code doing something else than its comments or documents say.

- `radio_deaf`: when the receiver fails to start, `startReceive`
  (`main.cpp:1535`) sets the radio up again and leaves it in standby. With the AGC
  reset off, an idle node then hears nothing any more. `main.cpp:3413` says of
  this call that it always ensures RX mode.
- `mesh_adverts`: an ADVERT's identifier is that of the node's previous one over
  the same path, so a relay takes it for a duplicate while the older is in the
  ring (`main.cpp:2167`; `FEATURES_ADDED.md:125` speaks of a unique identifier).
- `mailbox_regions`: `MailboxSlot` is 88 bytes and not 82 (alignment of its
  `uint32_t`), so that the second slot in EEPROM overlaps the region map by 12
  bytes (`mesh/Mailbox.h:8` and `:21`, `docs/ROADMAP_v0.5.md:29`).
- `contact_names`: `findByName` compares as many characters as the text has, so a
  text longer than a contact's name matches whatever stands behind the name in
  the table, and a contact of another name is found (`mesh/Contacts.h:187`).
- `access_wrap`: a limiter's window that began before `millis()` wrapped stays
  open for up to 49.7 days (`mesh/Repeater.h:93`; `README.md:234` says that wrap
  is handled).

Noted while modelling, without a run of their own:

- `popFor` does not see whether the commit that clears the slot succeeds
  (`mesh/Mailbox.h:52`, `:161`): when it fails and the node restarts before another
  commit, the packet is found again and delivered a second time. `AtMostOnce`,
  with its count of such restarts, is what holds.
- When exactly as many packets wait for a node as the queue has places, the relay
  of the ADVERT that set them free shifts the first of them out (`main.cpp:3195`), and
  more than that shift each other out.
- A node relays its own ADVERT when a neighbour sends it back: the identifier
  kept at `main.cpp:1781` has an empty path.
- The limiter is called a sliding window (`mesh/Repeater.h:69`); its windows are
  fixed, and twice the limit may pass around a boundary. `AtMostTwice` is what holds.
- A reception that ends the wait before a transmission may be lost afterwards
  (`docs/ROADMAP_v0.5.md:416`): when the radio cannot be read, or when the
  channel turns busy after the last test.
- "Reboot after sending response" (`main.cpp:2718`): the reboot is timed from
  the queueing of the answer, not from its transmission.
- `set repeat off` and `flood.max` are stored and never consulted
  (`docs/API.md:301`).
- `setupRadio` (`main.cpp:1489`), which also follows radio errors and temporary
  parameters, gives the radio the maximum power again; `currentTxPower` and the
  reports keep the value that the owner set. `NeverWeakerThanBelieved` is what holds.
- `healthCheck` (`main.cpp:2114`) marks a node before the alert is sent; a node
  without a synchronised time sends nothing and does not report this silence later.
- When the table of seen nodes is full after `millis()` has wrapped, the node
  just heard has the smallest time and is replaced first (`core/globals.cpp:214`).
- "Two different sources agree" (`mesh/Advert.h:87`): `syncFromAdvert` is not
  told who sent a timestamp, and it is called for every copy of an ADVERT. One
  node with a wrong clock moves everybody's with its second ADVERT, or with the
  second copy of one. `ClockMovesByConsensus` is what holds.
- Half of the sum of two timestamps (`mesh/Advert.h:88`) is wrong by 68 years
  for times from 2038 on, which are accepted until 2100.
- `getTimestamp` falls back by 49.7 days when `millis()` has run that long since
  the last synchronisation (`mesh/Advert.h:111`), and a pending timestamp of
  49.7 days ago counts as recent again.
- A weak ADVERT leaves a half-open circuit half-open, that is, open to packets
  (`mesh/Repeater.h:295`).
- Without loop detection and with a small ring, the answers to one discovery
  request can push the request itself out of a full queue before it was relayed.
- The limit of the total errors (`main.h:84`) is tested in one of the three
  places that count them.
- `txpower auto on` (`FEATURES_ADDED.md:81`) is taken for `txpower` with a number
  and refused (`main.cpp:665`).
- The boot counter (`README.md:287`) and the other statistics reach the flash at
  the next save; a boot that ends before one is not counted. `BootsCounted` is
  what holds. The save interval is 5 minutes in `core/Config.h:79` and 30 in
  `main.h:294`, and a commit that fails is tried again in every round, which
  cuts the uptime down to whole seconds each time.
- The time of the first boot is set by the first ADVERT that sets the clock, not
  by the command `time`.
- `set radio` is called persistent (`main.cpp:1044`) and lives in RAM; the
  temporary parameters of `set freq` inherit the expiry of an earlier command;
  an expiry that falls on `millis() = 0` means none. The timings of
  `calculateTimings` are those of the build, not of the temporary parameters.
- `reset` leaves the settings that are in RAM only as they are.
- `newid` leaves the secrets cached under the old key until the contact's next
  ADVERT or a reboot. An ADVERT without a name, of another node with the same
  first byte, gives the contact a new key under the old name. `parseAdvert` takes an
  ADVERT without a name whose flags are right for malformed data of a chat node.
- The contact replaced is the one with the smallest time, which after a wrap of
  `millis()` is the one just heard; a discovery answer a whole wrap ago looks
  recent, and one at `millis() = 0` is not counted.
- `setperm` (`README.md:247`) fills a list that no login and no request consults.
- The first entry of a page in `nodes` is a byte: page 86 begins with the third
  entry (`main.cpp:161`).
- The daily report comes twice when the node restarts within its minute, or when
  the clock is set to another day and back, and a day that was reported before the
  clock was set gets no second one. `ReportedOnce`, which counts from one setting
  of the clock to the next, is what holds.

## 5. The proofs

`tlapm` proves, with no step left out:

| Theorem | For all | Statement |
|---|---|---|
| `RadioLoop_proofs!TypeCorrect` | queue sizes, packets, faults, commands, settings | `Spec => []TypeOK` |
| `OnePlace` | | `Spec => []InOnePlace` |
| `NeverReadsTwice` | | `Spec => []ReadsAnUnreadPacket` |
| `NoRequeueEviction` | | `Spec => RequeueNeverEvicts` |
| `NeverDiscardsSeen` | | `Spec => DiscardsOnlyUnseen` |
| `NeverDeaf` | | `Spec => []ListensOrHasPacket` |
| `ImplementsOutbox` | | `Spec => KeepsPromise`: the loop implements `Outbox` |
| `Mesh_proofs!AlwaysBounded` | nets, scenes, sizes of ring, queue and path, loop limits | `Spec => []Bounded` |
| `RouteAlwaysFollowed` | | `Spec => []RouteFollowed` |
| `Mailbox_proofs!AlwaysConsistent` | packets, region maps, failing commits, slots in RAM, alignments, queue sizes, ages | `Spec => []Consistent` |
| `NeverStoredTwice` | | `Spec => []NoDoubleStore` |
| `AlwaysNeverTwice` | | `Spec => []NeverTwice` |
| `AlwaysLosesOnlyForRoom` | | `Spec => LosesOnlyForRoom` |
| `OnlyPackedFits` | alignments | `SlotsReachRegion <=> Alignment # 1` |
| `AlwaysDamagedOnlyByOverlap` | | `Spec => []DamagedOnlyByOverlap` |
| `Links_proofs!LinksInvariant` | nodes, hashes, traffic, commands, sizes of the tables, time limits, hours, wraps | the inductive invariant |
| `TablesAreConsistent` | | `Spec => []TablesConsistent` |
| `SilenceIsToldOnce` | | `Spec => []ToldOnce` |
| `CircuitsOpenForAReason` | | `Spec => []WithheldForAReason` |
| `RadioIsNotWeaker` | | `Spec => []NeverWeakerThanBelieved` |
| `DiscoveryIsLimited` | | `Spec => []DiscoveryLimited` |
| `LongestSilentIsForgotten` | | `Spec => ForgetsLongestSilent` |
| `ClockNeedsConsensus` | | `Spec => ClockMovesByConsensus` |
| `LimitFollowsTheHour` | | `Spec => LimitFitsHour` |
| `Access_proofs!TypeCorrect` | clients, packets, key bytes, numbers of sessions, limits, time limits, wraps | `Spec => []TypeOK` |
| `NoSecondSession` | | `Spec => []OneSession` |
| `NeverRepeated` | | `Spec => []OnceInOrder` |
| `CommandsAlwaysNeedLogin` | | `Spec => CommandsNeedAdminLogin` |
| `SessionsAlwaysLast` | `MaxTime < Wrap` | `Spec => SessionsLast` |
| `LimitsAlwaysHold` | `MaxTime < Wrap` | `Spec => []LimitsHold` |
| `Settings_proofs!SettingsInvariant` | sections' values, failures, losses of power | the inductive invariant |
| `SavedIsKept` | | `SettingsSpec => KeepsWhatWasSaved` |
| `BootsAlwaysCounted` | | `SettingsSpec => []BootsCounted` |
| `StatisticsAlwaysAddUp` | save intervals, seconds, wraps | `SettingsSpec => []StatisticsAddUp` |
| `ReportsAlwaysHaveDest` | | `SettingsSpec => []ReportsHaveDest` |
| `Upkeep_proofs!UpkeepIsSettings` | keys, names, tables, spans, days, wraps | `Spec => SettingsSpec` |
| `NodeKeepsSettings` | | what `Settings_proofs` says of the settings, of the node |
| `TypeCorrect`, `RadioAlwaysAsConfigured`, `ContactsAlwaysTheirOwn`, `AlwaysOnTime` | | `TypeOK`, `RadioAsConfigured`, `ContactsTheirOwn`, `OnTime` |
| `AlwaysReportedOnce` | | `Spec => []ReportedOnce` |
| `AdvertsAlwaysTellIdentity` | names that fit, locations on the globe | `Spec => []AdvertTellsIdentity` |

The assumptions are the named ASSUMEs of the modules: sizes are positive
numbers, the values for "none" are different from the others, a node's hash is a
byte and what a client creates is a new packet (`Mesh`), and a client never gives
two packets the same timestamp (`Access`). Those about time say that what the code
compares is far apart on the wrap of `millis()`, which is 49.7 days: the
temporary parameters and the delay of a reboot last less than half of it (`Upkeep`;
the commands admit 1440 minutes, `main.cpp:1023` and `:1072`), a time limit and
the period of the clean-up together less than all of it (`Links`), and so does
the interval of the saves (`Settings`). In `Upkeep` the report's time is a time of
the day, a timestamp is not on the first day of 1970, and a name is 1 to
`NameMax - 1` bytes that are not zero (`main.cpp:492`, `mesh/Identity.h:246`). The
theorems about the limiters and the length of a session are for the time before
the first wrap (`MaxTime < Wrap`); `access_wrap` shows what the limiters do after it.

`RadioLoop`: the inductive invariant is
`IInv == TypeOK /\ Control /\ InOnePlace /\ Buffer /\ Announced`. `InOnePlace`
alone is not inductive: the loop must hold a packet exactly in the places where
`pkt` is set, and only one that came from the queue while it may go back there
with room left (`Control`); that is also why re-queueing never evicts. `Buffer`
says that RX_DONE means an unread packet except in the places between reading
and restarting; `Announced` is the converse: a packet in the buffer has RX_DONE
in the status register, and the flag is set or the loop is about to read.
`ReadsAnUnreadPacket` follows from `Buffer`, `DiscardsOnlyUnseen` from
`Announced`. `ListensOrHasPacket` needs `Listening`: until a fault, outside the
places where the loop handles the radio, the receiver is on or a reception is
announced; the loop turns to the register only with one of the two. Each conjunct
has a lemma for each group of actions. The
lemmas about the queue (`TxQueue_proofs`: length, contents, distinctness after
`add` and `pop`) are stated once and cited. The refinement rests on `IInv`:
`FateOf` turns each step into one of `Outbox`'s or a stutter, and what is pending
fits because it is in the queue or in hand.

`Mesh`: what is under way or in a buffer is `Good`: its path is the
route it started with, as changed by the relays in `via`. For a flood that is the
start followed by the relays' hashes, so that a node's relays are counted by its
hash in the path, which loop detection keeps below its limit; for a direct packet
the relays behind it, followed by the path ahead, are the route.

`Mailbox`: the inductive invariant is `Types /\ Mail`. `Mail` says the same of the RAM
(`RamOK`) and of an EEPROM (`MemOK`): the count is the number of slots in use, no two
undamaged slots hold the same packet, and slot 2 is damaged only if its packet is in
`overlaid`. The buffer has the slots of the RAM (`Match`), and the flash is what a
buffer once was (`Backup`), or has no header yet. `CommitKeeps` is the lemma that
all writers cite: whether or not the commit fails, it is enough that the new buffer
is good and matches. A store keeps no packet twice because it follows the test for a
duplicate, a restart because it loads an EEPROM that is good by itself. `Excuses`
adds hand and queue to the slots. `Delivery` counts (`Tally`): what was queued of a
packet, the one in hand and the place that holds it are together no more than its
copies that were stored and the restarts in `undone`; a restart that finds the flash
equal to the buffer finds nothing that was not there before, and any other is counted.
`AlwaysLosesOnlyForRoom` needs that `RamPlace` and `Oldest` are what their names say, and
`Dues`: of the packets that were due when the ADVERT came, those that have left their
places are in hand or in the queue, no further from its end than packets were queued
since; `QueueAddShifts` moves each by one place at most, so that with fewer than the
queue has places none was shifted out at the end, be the ADVERT relayed or not.

`Links`: the inductive invariant `LinksInv` has a part for each table. The
properties speak of true times and the tables have remainders, so each part says
which true time a remainder stands for and how long ago that can be. `ClockInv`
gives the bound: the last round of the minute's tasks is at most `Period + 1` ago,
and it has removed or marked what was too old. Two times less than a wrap apart
are told apart by their remainders, which is the lemma that the rest cites.
`SeenInv` says that an entry's `lastSeen` is the time its hash was last heard, and
that a hash has one entry; `AlertInv` that a mark means a silence that is due and,
if somebody could be told, one alert, and that without a mark nothing was told
and nothing was due at the last round. `NeighbourInv` says that a neighbour's last
ADVERT was within its time limit at the last round, and weak and within the
shorter limit if its circuit is open; `TimeInv` that what is pending is, until the
first wrap, the last believable time heard. `AnswerInv` has a map from the recent answers to the places
of the limiter, one to one, and before the first wrap onto the fresh ones: hence no
window has more answers than places, and a refusal means that all are taken.
`QuietInv`, `PowerInv` and `AclInv` are about limit, power and permissions. `now` has
no bound in the proof; where something holds only before the first wrap, the
property says so itself.

`Access`: `IInv == TypeOK /\ OneSession /\ Newest /\ OnceInOrder`. `Newest` says
that no request carried out in a session is newer than the session's
`lastTimestamp`; a login keeps it because it is refused unless its own timestamp
is newer, a request because it moves the timestamp, an eviction or a clean-up because the
history ends with the session. `OneSession` is needed for the evicted slot not
to be a second session of the same client. `CommandsNeedAdminLogin` adds
`RolesAgree`: a session's role is the one its last login was granted.
`SessionsLast` adds `Clock` (the clean-up is never late) and `Fresh` (a session
was heard within the time limit at the last clean-up). `LimitsHold` rests on
`Counted`: what a limiter let through in the length of a window is in two parts,
the operations since its window began, which are as many as it has counted up to
the limit, and those of the window before, which are no more than the limit; so a
refusal means a full window, and twice the limit is the most.

`Settings`: the three copies of each section (RAM, buffer, flash) are related
differently in each step of `setup()` and after it; in all of them what `promise`
says is what the next `load` finds. `StatsInv` gives the clocks of the statistics,
which are remainders, the times they stand for: l, the last save, is at most a save
interval ago; up to s, the last addition to the uptime, that falls behind by less
than a second for each save; and the flash knows the first k packets of the boot,
while the others came after l.

`Upkeep`'s steps are steps of `Settings` or
leave its variables alone, so that its behaviours are `Settings`' behaviours; its
own invariants are one for the contacts (`Tables`) and one for the times
(`Deadlines`): a deadline is ahead by less than half of the wrap, which is what
the signed difference in the code needs, and `Pass` waits for what is due. For
`ReportedOnce`, `ReportsInv` says that the days reported ascend up to today, that
the last of them is the one the code remembers (which is why comparing with it
alone is enough), and that every day whose time has come since reports were
possible is among them. `AdvertTellsIdentity` needs `Ranges`: in RAM, buffer and
flash the location is on the globe and the report's time within the day. The
highest of the four bytes of a longitude in millionths of a degree is then never a
letter, which is why `parseAdvert` takes no location for a name.

Only model-checked: the liveness properties (`QueueDrains`, `HearsAgain`, and in
`Mesh` `FloodsEnd` and `TrafficArrives`), which are outside the prover's reach, and
the five violations, which are traces. Every safety property of the passing runs is
proved.

## 6. What is not modelled

- The window of `deepSleep` between testing the flag and sleeping is in the
  code only a few instructions long; in the model a packet that arrives there is
  found at the next wake-up by a timer.
- Names, formatting, logging, the wire format byte by byte, CayenneLPP,
  the LED; cryptography is perfect.
- The forward limiter's count and the signal threshold are a refusal that may
  happen to any packet in `Mesh`, and so is an open circuit, which `Links` models.
- Collisions of packet identifiers.
- Queries that change nothing (most of `main.cpp` 1-431), the telemetry, and the
  compatibility mode of ADVERTs, which nothing enables. `set prv.key` and `alert
  dest` with a key in hex do not fit the 48 bytes of the serial buffer.
  `ENABLE_DAILY_REPORT` and a build that is not LITE are assumed.
- The unit of time in `Links`, `Access` and `Upkeep` is longer than a round of the
  loop. `Record` stands for the eight counters of the statistics.
- Hazards without a property: a reboot that its own answer does not outlive
  (`main.cpp:2718`: the time is counted from queueing), a packet in the window
  before sleep (`main.cpp:3463`), the names that the region map shortens and derives
  keys from (`mesh/RegionMap.h:158`: names are values without length here), the mean
  of two timestamps from 2038 on (`mesh/Advert.h:88`: `Mean` has the overflow, and no
  property of the clock survives it), the pause inside the discovery handler
  (`main.cpp:2361`: a handler is one step in `Mesh`).
- `src/sim` (a Python re-implementation), `src/tools`, `src/release`,
  `src/lib/ed25519` are not part of the firmware's own logic.

## 7. The plan

What a further extension would take up, in this order:

1. The limiter for forwards with its count, and `configure` in the middle of a
   window.
2. The region map's table, names and keys over `save` and `load`.
3. Proofs: whether the limiters of `Access` let no more than twice their limit
   through after a wrap of `millis()` either; the measure that decreases along a
   flood, of which `FloodsEnd` is the consequence; the mean of two timestamps.
4. The composition of `RadioLoop` with `Mesh`: each node's channel as the summary
   that `Mesh` assumes, shown as a refinement.
